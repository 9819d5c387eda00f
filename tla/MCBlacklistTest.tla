---------------------------- MODULE MCBlacklistTest ----------------------------
(***************************************************************************)
(* BlacklistTest with two hosts, two callers and two jobs.                   *)
(***************************************************************************)
EXTENDS BlacklistTest

CONSTANTS h1, h2, s1, s2

MCHosts == {h1, h2}
\* A job verifies every host, or skips one.
MCPools == {MCHosts, {h1}}
MCSorted ==
  [S \in SUBSET MCHosts |-> SelectSeq(<<h1, h2>>, LAMBDA h : h \in S)]
=============================================================================
