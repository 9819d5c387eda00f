-------------------------------- MODULE MCDaemon --------------------------------
(***************************************************************************)
(* Finite values for Daemon: with three spawns sing-box can crash, be        *)
(* restarted, and be restarted again while it is being stopped.  The         *)
(* configurations cover every mode, every reason to be refused, and every    *)
(* combination of upstream sources.                                          *)
(***************************************************************************)
EXTENDS Daemon

Plain == [mode |-> "host", wellFormed |-> TRUE, proxy |-> "local", hy2 |-> "off", ui |-> "strong",
          sources |-> {}, legacy |-> FALSE, index |-> 0]

MCConfigs ==
  {[Plain EXCEPT !.mode = m, !.proxy = p, !.hy2 = h] :
     m \in {"container", "host", "demo"},
     p \in {"local", "open", "weak", "strong"}, h \in {"off", "weak", "strong"}}
  \cup {[Plain EXCEPT !.mode = m, !.wellFormed = FALSE] : m \in {"container", "host", "demo"}}
  \cup {[Plain EXCEPT !.mode = m, !.ui = u] :
          m \in {"container", "host", "demo"}, u \in {"none", "weak"}}
  \cup {[Plain EXCEPT !.sources = s, !.legacy = l] :
          s \in SUBSET {"uri", "subscription", "config"}, l \in BOOLEAN}
  \cup {[Plain EXCEPT !.sources = {"subscription"}, !.index = i] : i \in {-2, -1, 1}}
  \cup {[Plain EXCEPT !.mode = "container", !.hy2 = "strong", !.sources = {"uri"}]}

MCSubscriptions == {<<>>, <<"noise", "node", "noise", "node">>, <<"node", "node", "noise", "node">>}
=============================================================================
