------------------------------ MODULE NodeService ------------------------------
(***************************************************************************)
(* What the supervisor promises about nodes, without its loop, its channels *)
(* or its tunnel: one node at a time is tried and, if it verifies, served;  *)
(* a try or a service that fails condemns the node, which is then banned; a *)
(* served node may also be released unbanned, when the user re-routes.      *)
(* A banned node is tried again only if some route can lock it.  Bans are   *)
(* kept across restarts, unless a start cannot read them: then they are     *)
(* forgotten, and bind nobody, until a later start reads them.              *)
(***************************************************************************)
CONSTANTS Nodes, Lockable, None

VARIABLES phase, subject, banned, forgotten

vars == <<phase, subject, banned, forgotten>>

Init ==
  /\ phase = "free" /\ subject = None
  /\ banned \in SUBSET Nodes /\ forgotten \in SUBSET Nodes

Try ==
  /\ phase = "free"
  /\ \E n \in (Nodes \ banned) \cup Lockable : subject' = n
  /\ phase' = "trying"
  /\ UNCHANGED <<banned, forgotten>>

Serve ==
  /\ phase = "trying"
  /\ phase' = "serving"
  /\ UNCHANGED <<subject, banned, forgotten>>

Condemn ==
  /\ phase \in {"trying", "serving"}
  /\ phase' = "condemned"
  /\ UNCHANGED <<subject, banned, forgotten>>

Ban ==
  /\ phase = "condemned"
  /\ phase' = "free" /\ subject' = None
  /\ banned' = banned \cup {subject}
  /\ forgotten' \in SUBSET forgotten

Release ==
  /\ phase = "serving"
  /\ phase' = "free" /\ subject' = None
  /\ UNCHANGED <<banned, forgotten>>

\* The user restores banned nodes; to save the others loses the forgotten.
Pardon ==
  /\ banned' \in SUBSET banned /\ forgotten' \in SUBSET forgotten
  /\ UNCHANGED <<phase, subject>>

\* A restart drops the node at hand and bans that were never saved; the bans it
\* can and those it cannot read are all old ones.
Reset ==
  /\ phase' = "free" /\ subject' = None
  /\ banned' \in SUBSET (banned \cup forgotten)
  /\ forgotten' \in SUBSET (banned \cup forgotten)

Next == Try \/ Serve \/ Condemn \/ Ban \/ Release \/ Pardon \/ Reset

Spec == Init /\ [][Next]_vars
=============================================================================
