----------------------------- MODULE TunnelService -----------------------------
(***************************************************************************)
(* What conduitvpn promises about one tunnel after another and the egress    *)
(* that leads into it, without the supervisor's loop, openvpn's goroutines    *)
(* or the kernel.  An openvpn is launched only when the last one has been     *)
(* reaped and the egress is closed; the egress is opened only for a tunnel    *)
(* that is connected, only an open one is served, and it is closed before     *)
(* openvpn is stopped.  A shutdown before the service may skip the closing;   *)
(* then nothing is launched any more.                                        *)
(*                                                                          *)
(* Supervisor and Gateway both implement it, one with every way through the   *)
(* loop and one with every step of a tunnel and its egress.                  *)
(***************************************************************************)
CONSTANT Guarded  \* host mode: a closed egress refuses to dial

VARIABLES
  stage,  \* how far the tunnel at hand has come
  child,  \* its openvpn: "none", "running" or "dead", not reaped yet
  open    \* whether the egress dials

vars == <<stage, child, open>>

Init == stage = "free" /\ child = "none" /\ open = ~Guarded

Launch ==
  /\ stage = "free" /\ child = "none" /\ (Guarded => ~open)
  /\ stage' = "connecting" /\ child' = "running"
  /\ UNCHANGED open

\* openvpn exits, whoever uses it.
Exit ==
  /\ child = "running" /\ child' = "dead"
  /\ UNCHANGED <<stage, open>>

Connect ==
  /\ stage = "connecting" /\ stage' = "connected"
  /\ UNCHANGED <<child, open>>

Open ==
  /\ stage = "connected" /\ stage' = "open"
  /\ open' = TRUE
  /\ UNCHANGED child

Serve ==
  /\ stage = "open" /\ open
  /\ stage' = "serving"
  /\ UNCHANGED <<child, open>>

\* The tunnel is given up, for whatever reason.
Leave ==
  /\ stage \in {"connecting", "connected", "open", "serving"}
  /\ stage' = "leaving"
  /\ UNCHANGED <<child, open>>

Close ==
  /\ stage = "leaving" /\ stage' = "closing"
  /\ open' = ~Guarded
  /\ UNCHANGED child

\* openvpn is stopped and reaped.
Stop ==
  /\ stage = "closing" /\ stage' = "free"
  /\ child' = "none"
  /\ UNCHANGED open

\* Cancelled between two initial probes: stopped, and not closed.
Abandon ==
  /\ stage = "open"
  /\ stage' = IF Guarded THEN "over" ELSE "free"
  /\ child' = "none"
  /\ UNCHANGED open

\* The program is started again.
Restart == stage' = "free" /\ child' = "none" /\ open' = ~Guarded

Next ==
  \/ Launch \/ Exit \/ Connect \/ Open \/ Serve \/ Leave \/ Close \/ Stop \/ Abandon
  \/ Restart

Spec == Init /\ [][Next]_vars
=============================================================================
