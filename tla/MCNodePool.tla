------------------------------- MODULE MCNodePool -------------------------------
(***************************************************************************)
(* Finite values for NodePool: one row with every profile of up to three     *)
(* lines or one of some longer ones, and answers of several rows with equal  *)
(* scores, refused rows and more rows than are kept.  The longest profile     *)
(* reaches the limit of its size, another one passes it when it is saved.     *)
(***************************************************************************)
EXTENDS NodePool

Row(s, p) == [star |-> FALSE, score |-> s, public |-> TRUE, profile |-> p]
Good(s) == Row(s, <<"remote">>)
Bad(s) == [Good(s) EXCEPT !.public = FALSE]
End == [Good(0) EXCEPT !.star = TRUE]

MCProfiles ==
  UNION {[1 .. n -> {"blank", "comment", "option", "remote", "text", "<ca>", "</ca>"}] :
           n \in 0 .. 3}
  \cup {<<"remote", "<ca>", "text", "</ca>">>, <<"<ca>", "</key>", "</ca>", "remote">>,
        <<"<ca>", "remote", "blank", "</ca>">>, <<"remote", "option", "option", "option">>,
        <<"remote", "<ca>", "cr", "</ca>">>, <<"remote", "<ca>", "crcr", "</ca>">>,
        <<"remote", "<ca>", "bytes", "</ca>">>, <<"remote", "crcr">>, <<"remote", "bytes">>,
        <<"remote", "option", "<ca>", "bytes", "</ca>">>,
        <<"<key>", "comment", "</key>", "remote">>,
        <<"remote", "option", "option", "option", "option", "option">>,
        <<"remote", "option", "option", "option", "option", "option", "blank">>}

MCAnswers ==
  {<<Row(0, p)>> : p \in MCProfiles}
  \cup {<<>>, <<Good(1), Bad(3), Good(2), End>>, <<Good(1), Good(2), Good(2)>>,
        <<Good(2), Good(1), Good(3), Good(2)>>}
=============================================================================
