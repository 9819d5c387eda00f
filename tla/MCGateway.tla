------------------------------- MODULE MCGateway -------------------------------
(***************************************************************************)
(* Finite values for Gateway: a queue of one event, so that it is full when   *)
(* the handshake or the exit comes; two devices, since an openvpn that        *)
(* outlived a killed daemon may hold the first; a proxy that dials.           *)
(***************************************************************************)
EXTENDS Gateway
=============================================================================
