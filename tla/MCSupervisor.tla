----------------------------- MODULE MCSupervisor -----------------------------
(***************************************************************************)
(* Finite values for Supervisor's constants.  Two nodes of two countries;   *)
(* the configurations choose the routes, the actors and the environment.    *)
(***************************************************************************)
EXTENDS Supervisor, TLC

CONSTANTS a, b, none

MCNodes == {a, b}
MCNamesOf == [n \in MCNodes |-> IF n = a THEN {"host-a", "ip-a"} ELSE {"host-b", "ip-b"}]
MCCountryOf == [n \in MCNodes |-> IF n = a THEN "JP" ELSE "KR"]

\* A fetch may find nothing, one node, or both in either order.
MCPools == {<<>>, <<a>>, <<a, b>>, <<b, a>>}
TwoPools == {<<a, b>>, <<b, a>>}
OnePool == {<<a, b>>}
OnePoolOrEmpty == {<<>>, <<a, b>>}

Auto == [mode |-> "auto", countries |-> {}, node |-> none]
Korea == [mode |-> "country", countries |-> {"KR"}, node |-> none]
FixedA == [mode |-> "fixed", countries |-> {}, node |-> "ip-a"]
FixedB == [mode |-> "fixed", countries |-> {}, node |-> "host-b"]
\* What the console sends when the user goes back from a fixed node to auto.
AutoKeepingA == [mode |-> "auto", countries |-> {}, node |-> "ip-a"]
\* Requests SetRouteConfig refuses.
NoSuchMode == [mode |-> "", countries |-> {}, node |-> none]
NoCountry == [mode |-> "country", countries |-> {}, node |-> "ip-a"]
NoNode == [mode |-> "fixed", countries |-> {"KR"}, node |-> none]

\* Two valid requests; with the configured route (auto) all three modes occur.
MCRequests == {Korea, FixedA, NoSuchMode, NoCountry, NoNode}
AutoAndFixed == {Auto, FixedA}
OnlyFixed == {FixedA}
OnlyAutoKeepingA == {AutoKeepingA}

\* The callers differ in nothing.
SetterSymmetry == Permutations(Setters)
=============================================================================
