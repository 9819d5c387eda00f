----------------------------- MODULE MCProxyServer -----------------------------
(***************************************************************************)
(* Finite values for ProxyServer: two clients and one slot, so that one is   *)
(* rejected or has to wait for the other, and up to two chunks a stream.  The *)
(* clients are model values; they are told apart, as liveness is checked.     *)
(***************************************************************************)
EXTENDS ProxyServer
=============================================================================
