----------------------------- MODULE GatewayProofs -----------------------------
(***************************************************************************)
(* Proofs about Gateway for any devices, dials, queue and output of openvpn. *)
(* Each part's invariant is kept by every step of that part; a step of the   *)
(* whole is a step or a stutter of each part.                                *)
(***************************************************************************)
EXTENDS Gateway, SequenceTheorems, TLAPS

-----------------------------------------------------------------------------
(* The tunnel                                                               *)

\* Its types are inductive.
LEMMA TunnelTypeInductive == TunnelTypeOK /\ [TunnelNext]_tunnelVars => TunnelTypeOK'
<1> USE TunnelAssumption DEF TunnelAssumption
<1> SUFFICES ASSUME TunnelTypeOK, [TunnelNext]_tunnelVars PROVE TunnelTypeOK'
  OBVIOUS
<1> USE DEF TunnelTypeOK, output, channels, Send, Running, Lines, Events
<1>1. CASE WriteLine  BY <1>1 DEF WriteLine
<1>2. CASE ProcExits  BY <1>2 DEF ProcExits
<1>3. CASE ProcDies  BY <1>3 DEF ProcDies
<1>4. CASE Scan  BY <1>4 DEF Scan
<1>5. CASE Reap  BY <1>5 DEF Reap
<1>6. CASE EmitExit  BY <1>6 DEF EmitExit
<1>7. CASE CloseExit  BY <1>7 DEF CloseExit
<1>8. CASE Start  BY <1>8 DEF Start
<1>9. CASE TakeHandshake  BY <1>9 DEF TakeHandshake
<1>10. CASE TakeEvent  BY <1>10 DEF TakeEvent
<1>11. CASE HandshakeTimeout  BY <1>11 DEF HandshakeTimeout
<1>12. CASE StartMonitor  BY <1>12 DEF StartMonitor
<1>13. CASE MonitorEvent  BY <1>13 DEF MonitorEvent
<1>14. CASE GiveUp  BY <1>14 DEF GiveUp
<1>15. CASE StopTerm  BY <1>15 DEF StopTerm
<1>16. CASE StopKill  BY <1>16 DEF StopKill
<1>17. CASE StopReturn  BY <1>17 DEF StopReturn
<1>18. CASE Renew
  <2>1. handshakeCh' \in BOOLEAN /\ announced' \in BOOLEAN  BY <1>18, Zenon DEF Renew
  <2> QED
    BY <1>18, <2>1 DEF Renew
<1>19. CASE UNCHANGED tunnelVars  BY <1>19 DEF tunnelVars
<1> QED
  BY <1>1, <1>2, <1>3, <1>4, <1>5, <1>6, <1>7, <1>8, <1>9, <1>10, <1>11, <1>12,
     <1>13, <1>14, <1>15, <1>16, <1>17, <1>18, <1>19
     DEF TunnelNext, Process, Goroutines, Owner

\* What StopReturns rests on: a Stop that is past its grace period waits for a process
\* that was killed or has exited, or for a reaper that has nothing to wait for.
StopAdvances ==
  owner = "reap" =>
    \/ proc \in {"kill", "exited"} /\ reaper = "wait"
    \/ proc = "reaped" /\ reaper \in {"emit", "close", "done"}

\* What the properties of the tunnel rest on: the reaper publishes only what it has
\* reaped, Stop waits only if there is a reaper, and nothing has been announced before
\* there is a process.
TunnelInv ==
  /\ StoppedIsReaped
  /\ HandshakeNotLost
  /\ StopAdvances
  /\ reaper \in {"emit", "close", "done"} => proc = "reaped"
  /\ reaper = "wait" => proc # "reaped"
  /\ owner \in {"grace", "reap"} => reaper # "none"
  /\ owner = "start" => proc = "none" /\ pipe = <<>> /\ ~announced

\* TunnelInv is inductive, given types.
LEMMA TunnelInductive == TunnelTypeOK /\ TunnelInv /\ [TunnelNext]_tunnelVars => TunnelInv'
<1> SUFFICES ASSUME TunnelTypeOK, TunnelInv, [TunnelNext]_tunnelVars PROVE TunnelInv'
  OBVIOUS
<1> USE DEF TunnelTypeOK, TunnelInv, StoppedIsReaped, HandshakeNotLost, StopAdvances, output,
            channels, Send, Running
<1>1. CASE WriteLine  BY <1>1 DEF WriteLine
<1>2. CASE ProcExits  BY <1>2 DEF ProcExits
<1>3. CASE ProcDies  BY <1>3 DEF ProcDies
<1>4. CASE Scan  BY <1>4 DEF Scan
<1>5. CASE Reap  BY <1>5 DEF Reap
<1>6. CASE EmitExit  BY <1>6 DEF EmitExit
<1>7. CASE CloseExit  BY <1>7 DEF CloseExit
<1>8. CASE Start  BY <1>8 DEF Start
<1>9. CASE TakeHandshake  BY <1>9 DEF TakeHandshake
<1>10. CASE TakeEvent  BY <1>10 DEF TakeEvent
<1>11. CASE HandshakeTimeout  BY <1>11 DEF HandshakeTimeout
<1>12. CASE StartMonitor  BY <1>12 DEF StartMonitor
<1>13. CASE MonitorEvent  BY <1>13 DEF MonitorEvent
<1>14. CASE GiveUp  BY <1>14 DEF GiveUp
<1>15. CASE StopTerm  BY <1>15 DEF StopTerm
<1>16. CASE StopKill  BY <1>16 DEF StopKill
<1>17. CASE StopReturn  BY <1>17 DEF StopReturn
<1>18. CASE Renew  BY <1>18 DEF Renew
<1>19. CASE UNCHANGED tunnelVars  BY <1>19 DEF tunnelVars
<1> QED
  BY <1>1, <1>2, <1>3, <1>4, <1>5, <1>6, <1>7, <1>8, <1>9, <1>10, <1>11, <1>12,
     <1>13, <1>14, <1>15, <1>16, <1>17, <1>18, <1>19
     DEF TunnelNext, Process, Goroutines, Owner

-----------------------------------------------------------------------------
(* The egress                                                               *)

\* What RoutedWhileReady rests on: the controller is closed in every step of
\* Configure and Clear, and route and rule are in place when it is opened.
EgressInv ==
  /\ EgressTypeOK
  /\ at \notin {"serving", "unready"} => ~ready
  /\ at \in Configuring => tunnel \in Devices
  /\ at \in {"rule", "publish"} /\ tunnel \in ifaces => table = tunnel
  /\ at = "publish" => rule
  /\ RoutedWhileReady

\* EgressInv is inductive.
LEMMA EgressInductive == EgressInv /\ [EgressNext]_egressVars => EgressInv'
<1> USE EgressAssumption DEF EgressAssumption
<1> SUFFICES ASSUME EgressInv, [EgressNext]_egressVars PROVE EgressInv'
  OBVIOUS
<1> USE DEF EgressInv, EgressTypeOK, Steps, Configuring, RoutedWhileReady, ctl, kernel, Dial, Idle
<1>1. CASE TunnelUp  BY <1>1 DEF TunnelUp
<1>17. CASE NoHandshake  BY <1>17 DEF NoHandshake
<1>2. CASE CheckDevice  BY <1>2 DEF CheckDevice
<1>3. CASE DeleteRule  BY <1>3 DEF DeleteRule
<1>4. CASE InstallRoute  BY <1>4 DEF InstallRoute
<1>5. CASE InstallRule  BY <1>5 DEF InstallRule
<1>6. CASE Publish  BY <1>6 DEF Publish
<1>7. CASE Leave  BY <1>7 DEF Leave
<1>8. CASE Unready  BY <1>8 DEF Unready
<1>9. CASE FlushTable  BY <1>9 DEF FlushTable
<1>10. CASE StopTunnel  BY <1>10 DEF StopTunnel
<1>11. ASSUME NEW d \in Dialers, Control(d) PROVE EgressInv'
  <2>1. dial' \in [Dialers -> Dial]
    BY <1>11 DEF Control
  <2> QED
    BY <1>11, <2>1 DEF Control
<1>12. ASSUME NEW d \in Dialers, Connect(d) PROVE EgressInv'
  BY <1>12 DEF Connect, Path
<1>13. ASSUME NEW d \in Dialers, Finish(d) PROVE EgressInv'
  BY <1>13 DEF Finish
<1>14. ASSUME NEW d \in Devices, DeviceVanishes(d) PROVE EgressInv'
  BY <1>14 DEF DeviceVanishes
<1>15. CASE Crash  BY <1>15 DEF Crash
<1>16. CASE UNCHANGED egressVars  BY <1>16 DEF egressVars
<1> QED
  BY <1>1, <1>2, <1>3, <1>4, <1>5, <1>6, <1>7, <1>8, <1>9, <1>10, <1>11, <1>12,
     <1>13, <1>14, <1>15, <1>16, <1>17 DEF EgressNext, Lifecycle, Dialing

-----------------------------------------------------------------------------
(* The whole                                                                *)

\* A step of the gateway is a step of its tunnel or leaves it alone, ...
LEMMA TunnelPart == [Next]_vars => [TunnelNext]_tunnelVars
<1> SUFFICES ASSUME [Next]_vars PROVE [TunnelNext]_tunnelVars
  OBVIOUS
<1> USE DEF TunnelNext, Process, Goroutines, Owner, EgressOnly
<1>1. CASE Writes \/ Scans \/ Reaps \/ Exits  BY <1>1 DEF Writes, Scans, Reaps, Exits
<1>2. CASE \E d \in Devices : OrphanExits(d)  BY <1>2 DEF OrphanExits
<1>3. CASE Connecting
  BY <1>3 DEF Connecting, Spawns, Handshake, HandshakeFails, Configures
<1>4. CASE Verifying
  BY <1>4 DEF Verifying, InitialProbe, InitialProbesFail, CancelledProbing
<1>5. CASE Monitoring
  BY <1>5 DEF Monitoring, Hears, ProbeFails, ProbePasses, Drops
<1>6. CASE Stopping  BY <1>6 DEF Stopping, Clears, Stops, StopEnds
<1>7. CASE NextNode \/ Restarts \/ Dials  BY <1>7 DEF NextNode, Restarts, Dials
<1>8. CASE UNCHANGED vars  BY <1>8 DEF vars
<1> QED
  BY <1>1, <1>2, <1>3, <1>4, <1>5, <1>6, <1>7, <1>8 DEF Next

\* ... and likewise of its egress.
LEMMA EgressPart == EgressInv /\ [Next]_vars => [EgressNext]_egressVars
<1> SUFFICES ASSUME EgressInv, [Next]_vars PROVE [EgressNext]_egressVars
  OBVIOUS
<1> USE DEF EgressNext, Lifecycle, TunnelOnly, EgressOnly
<1>1. CASE Writes \/ Scans \/ Reaps  BY <1>1 DEF Writes, Scans, Reaps
<1>2. CASE Exits  BY <1>2 DEF Exits, EgressInv, EgressTypeOK
<1>3. CASE \E d \in Devices : OrphanExits(d)  BY <1>3 DEF OrphanExits
<1>4. CASE Connecting
  BY <1>4 DEF Connecting, Spawns, Handshake, HandshakeFails, Configures
<1>5. CASE Verifying
  BY <1>5 DEF Verifying, InitialProbe, InitialProbesFail, CancelledProbing
<1>6. CASE Monitoring
  BY <1>6 DEF Monitoring, Hears, ProbeFails, ProbePasses, Drops
<1>7. CASE Stopping  BY <1>7 DEF Stopping, Clears, Stops, StopEnds
<1>8. CASE NextNode \/ Restarts \/ Dials  BY <1>8 DEF NextNode, Restarts, Dials
<1>9. CASE UNCHANGED vars  BY <1>9 DEF vars
<1> QED
  BY <1>1, <1>2, <1>3, <1>4, <1>5, <1>6, <1>7, <1>8, <1>9 DEF Next

\* How the two are coupled: where the egress stands for each place of the owner.
Coupling ==
  /\ at = "idle" => tunnel = None
  /\ owner \in {"start", "handshake"} => at = "idle"
  /\ owner = "settle" => at \in Configuring \cup {"serving"}
  /\ owner = "monitor" => at = "serving"
  /\ owner \in {"grace", "reap"} => at # "idle" /\ reaper # "none"
  /\ owner = "stop" /\ at = "idle" => proc = "none"
  /\ owner = "stop" => at \notin Configuring
  /\ owner = "handshake" => proc # "none"
  /\ at \in {"cleartable", "stop"} => device = None /\ (rule => "rule" \in leftover)
  /\ at = "stop" => (table # None => "table" \in leftover)
  /\ at = "clear" => device = None
  /\ ClearedBetweenTunnels

\* The gateway's invariant.
IInv == TunnelTypeOK /\ TunnelInv /\ EgressInv /\ Coupling

\* It holds at the start.
LEMMA Initially == Init => IInv
<1> SUFFICES ASSUME Init PROVE IInv
  OBVIOUS
<1>1. ~handshakeCh /\ ~announced /\ ~ready /\ rule \in BOOLEAN
  BY Zenon DEF Init, TunnelInit, EgressInit
<1>2. handshakeCh \in BOOLEAN /\ announced \in BOOLEAN /\ ready \in BOOLEAN
  BY Zenon DEF Init, TunnelInit, EgressInit
<1>3. TunnelTypeOK
  BY <1>2, TunnelAssumption DEF TunnelAssumption, Init, TunnelInit, TunnelTypeOK
<1>4. TunnelInv
  BY <1>1 DEF Init, TunnelInit, TunnelInv, StoppedIsReaped, HandshakeNotLost, StopAdvances
<1>5. EgressInv
  BY <1>1, <1>2 DEF Init, EgressInit, EgressInv, EgressTypeOK, RoutedWhileReady, Steps, Configuring, Dial, Idle
<1>6. Coupling
  BY DEF Init, TunnelInit, EgressInit, Coupling, ClearedBetweenTunnels
<1> QED
  BY <1>3, <1>4, <1>5, <1>6 DEF IInv

\* The coupling is kept: the supervisor reaches "stopped" with an idle egress only
\* through Clear, or if openvpn was never started.
LEMMA CouplingInductive == IInv /\ [Next]_vars => Coupling'
<1> SUFFICES ASSUME IInv, [Next]_vars PROVE Coupling'
  OBVIOUS
<1> USE DEF IInv, Coupling, ClearedBetweenTunnels, Configuring, TunnelOnly, EgressOnly, egressVars,
            tunnelVars, ctl, kernel, output, channels, Running
<1>1. CASE Writes  BY <1>1 DEF Writes, WriteLine
<1>2. CASE Scans  BY <1>2 DEF Scans, Scan
<1>3. CASE Reaps  BY <1>3 DEF Reaps, Reap, EmitExit, CloseExit
<1>4. CASE Exits  BY <1>4 DEF Exits, ProcExits, ProcDies, DeviceVanishes
<1>5. CASE \E d \in Devices : OrphanExits(d)  BY <1>5 DEF OrphanExits, DeviceVanishes
<1>6. CASE Spawns  BY <1>6 DEF Spawns, Start, TunnelInv
<1>7. CASE Handshake  BY <1>7 DEF Handshake, TakeHandshake, TunnelUp
<1>8. CASE HandshakeFails
  BY <1>8 DEF HandshakeFails, TakeEvent, HandshakeTimeout, NoHandshake
<1>9. CASE Configures
  BY <1>9 DEF Configures, CheckDevice, DeleteRule, FlushTable, InstallRoute, InstallRule, Publish,
     GiveUp
<1>10. CASE Verifying
  BY <1>10 DEF Verifying, InitialProbe, InitialProbesFail, CancelledProbing,
     StartMonitor, GiveUp, Leave
<1>11. CASE Hears  BY <1>11 DEF Hears, MonitorEvent, Leave
<1>12. CASE ProbeFails \/ ProbePasses \/ Drops
  BY <1>12 DEF ProbeFails, ProbePasses, Drops, GiveUp, Leave
<1>13. CASE Clears
  <2>1. CASE Unready  BY <1>13, <2>1 DEF Clears, Unready
  <2>2. CASE DeleteRule  BY <1>13, <2>2 DEF Clears, DeleteRule
  <2>3. CASE FlushTable  BY <1>13, <2>3 DEF Clears, FlushTable
  <2> QED
    BY <1>13, <2>1, <2>2, <2>3 DEF Clears
<1>14. CASE Stops  BY <1>14 DEF Stops, StopTerm, StopKill, TunnelTypeOK
<1>15. CASE StopEnds
  BY <1>15 DEF StopEnds, StopReturn, StopTunnel, EgressInv
<1>16. CASE NextNode  BY <1>16 DEF NextNode, Renew
<1>17. CASE Restarts  BY <1>17 DEF Restarts, Renew, Crash
<1>18. CASE Dials  BY <1>18 DEF Dials, Dialing, Control, Connect, Finish
<1>19. CASE UNCHANGED vars  BY <1>19 DEF vars
<1> QED
  BY <1>1, <1>2, <1>3, <1>4, <1>5, <1>6, <1>7, <1>8, <1>9, <1>10, <1>11, <1>12,
     <1>13, <1>14, <1>15, <1>16, <1>17, <1>18, <1>19
     DEF Next, Connecting, Monitoring, Stopping

\* IInv holds throughout.
LEMMA Invariance == Spec => []IInv
<1>1. IInv /\ [Next]_vars => IInv'
  BY TunnelPart, EgressPart, TunnelTypeInductive, TunnelInductive, EgressInductive,
     CouplingInductive DEF IInv
<1> QED
  BY <1>1, Initially, PTL DEF Spec

\* The event queue never exceeds its capacity, a reaper exists exactly as long as
\* there was a process, and a ready controller has a device.
THEOREM Typing == Spec => [](TunnelTypeOK /\ EgressTypeOK)
<1>1. IInv => TunnelTypeOK /\ EgressTypeOK
  BY DEF IInv, EgressInv
<1> QED
  BY <1>1, Invariance, PTL

\* When Stop has returned the process has been reaped: whether it was never started,
\* had exited before, honoured SIGTERM, or had to be killed.
THEOREM StopReaps == Spec => []StoppedIsReaped
<1>1. IInv => StoppedIsReaped
  BY DEF IInv, TunnelInv
<1> QED
  BY <1>1, Invariance, PTL

\* Stop never waits for a process that may go on running: whatever openvpn does with
\* SIGTERM, somebody else's step ends the wait (tunnel.go:204-226).
THEOREM StopNeverStuck == Spec => []StopAdvances
<1>1. IInv => StopAdvances
  BY DEF IInv, TunnelInv
<1> QED
  BY <1>1, Invariance, PTL

\* A handshake that was seen is never lost to WaitHandshake, whatever else openvpn
\* writes and however small the event queue is.
THEOREM HandshakeKept == Spec => []HandshakeNotLost
<1>1. IInv => HandshakeNotLost
  BY DEF IInv, TunnelInv
<1> QED
  BY <1>1, Invariance, PTL

\* Whatever an earlier run left in the kernel, and wherever Configure, Clear, a
\* crash or the exit of openvpn interrupted each other, a ready controller's live
\* device is the one the kernel routes marked sockets to.
THEOREM ReadyIsRouted == Spec => []RoutedWhileReady
<1>1. IInv => RoutedWhileReady
  BY DEF IInv, EgressInv
<1> QED
  BY <1>1, Invariance, PTL

\* The next tunnel starts from a closed controller, whichever way the last one ended
\* and whichever ip command failed; and of its rule and route only that is still in
\* the kernel which a command was run to remove.
THEOREM NextFindsCleared == Spec => []ClearedBetweenTunnels
<1>1. IInv => ClearedBetweenTunnels
  BY DEF IInv, Coupling
<1> QED
  BY <1>1, Invariance, PTL

\* No dial, however its two steps interleave with Configure and Clear, leaves a
\* tunnel that is up and serving.
THEOREM DialStaysInTunnel == Spec => DialLeavesOnlyTornDownTunnel
<1> DEFINE Stays ==
      \A d \in Dialers : dial[d].step = "admitted" /\ dial'[d].step = "main" =>
        ~ready \/ device # dial[d].dev \/ device \notin ifaces
<1>1. EgressInv /\ [EgressNext]_egressVars => [Stays]_egressVars
  <2> SUFFICES ASSUME EgressInv, EgressNext, NEW d \in Dialers,
                      dial[d].step = "admitted", dial'[d].step = "main",
                      ready, device \in ifaces
               PROVE FALSE
    BY DEF egressVars
  <2>1. Path = "tunnel"
    BY EgressAssumption DEF EgressAssumption, EgressInv, EgressTypeOK, RoutedWhileReady, Path
  <2>2. \A c \in Dialers : ~(Control(c) \/ Finish(c))
    <3> SUFFICES ASSUME NEW c \in Dialers, Control(c) \/ Finish(c) PROVE FALSE
      OBVIOUS
    <3>1. dial \in [Dialers -> Dial]  BY DEF EgressInv, EgressTypeOK
    <3>2. c = d \/ dial'[d] = dial[d]
      BY <3>1 DEF Control, Finish
    <3> QED
      BY <3>1, <3>2 DEF Control, Finish, Idle, Dial
  <2>3. dial' # dial /\ dial'[d] # Idle
    BY DEF Idle
  <2>4. ~Lifecycle
    BY <2>3 DEF Lifecycle, TunnelUp, NoHandshake, CheckDevice, DeleteRule, FlushTable,
       InstallRoute, InstallRule, Publish, Leave, Unready, StopTunnel
  <2>5. ~Crash /\ \A e \in Devices : ~DeviceVanishes(e)
    BY <2>3 DEF Crash, DeviceVanishes
  <2>6. \A c \in Dialers : ~Connect(c)
    BY <2>1 DEF Connect, EgressInv, EgressTypeOK, Dial
  <2> QED
    BY <2>2, <2>4, <2>5, <2>6 DEF EgressNext, Dialing
<1>2. IInv /\ [Next]_vars => [Stays]_egressVars
  BY <1>1, EgressPart DEF IInv
<1> QED
  BY <1>2, Invariance, PTL DEF Spec, DialLeavesOnlyTornDownTunnel

-----------------------------------------------------------------------------
(* The contract about a tunnel and its egress                               *)

\* Stop is on its way only after Clear, or when the probing was cancelled.
StopAfterClear == owner \in {"grace", "reap"} => at \in {"stop", "serving"}

\* StopAfterClear is inductive, given the gateway's invariant.
LEMMA StopInductive == IInv /\ StopAfterClear /\ [Next]_vars => StopAfterClear'
<1> SUFFICES ASSUME IInv, StopAfterClear, [Next]_vars PROVE StopAfterClear'
  OBVIOUS
<1> USE DEF IInv, Coupling, StopAfterClear, TunnelOnly, EgressOnly, egressVars,
            tunnelVars, ctl, kernel, output, channels
<1>1. CASE Writes  BY <1>1 DEF Writes, WriteLine
<1>2. CASE Scans  BY <1>2 DEF Scans, Scan
<1>3. CASE Reaps  BY <1>3 DEF Reaps, Reap, EmitExit, CloseExit
<1>4. CASE Exits  BY <1>4 DEF Exits, ProcExits, ProcDies, DeviceVanishes
<1>5. CASE \E d \in Devices : OrphanExits(d)  BY <1>5 DEF OrphanExits, DeviceVanishes
<1>6. CASE Connecting
  BY <1>6 DEF Connecting, Spawns, Start, Handshake, TakeHandshake, HandshakeFails, TakeEvent,
     HandshakeTimeout, Configures, GiveUp
<1>7. CASE Verifying
  BY <1>7 DEF Verifying, InitialProbe, InitialProbesFail, CancelledProbing, StartMonitor, GiveUp
<1>8. CASE Monitoring
  BY <1>8 DEF Monitoring, Hears, MonitorEvent, ProbeFails, ProbePasses, Drops, GiveUp
<1>9. CASE Clears  BY <1>9 DEF Clears
<1>10. CASE Stops
  BY <1>10 DEF Stops, StopTerm, StopKill, TunnelTypeOK
<1>11. CASE StopEnds  BY <1>11 DEF StopEnds, StopReturn
<1>12. CASE NextNode \/ Restarts  BY <1>12 DEF NextNode, Restarts, Renew
<1>13. CASE Dials  BY <1>13 DEF Dials, Dialing, Control, Connect, Finish
<1>14. CASE UNCHANGED vars  BY <1>14 DEF vars
<1> QED
  BY <1>1, <1>2, <1>3, <1>4, <1>5, <1>6, <1>7, <1>8, <1>9, <1>10, <1>11, <1>12, <1>13, <1>14
     DEF Next, Stopping

\* Every step of the gateway is a step of TunnelService, or a stutter.
LEMMA ContractStep ==
  IInv /\ IInv' /\ StopAfterClear /\ [Next]_vars => [Contract!Next]_(Contract!vars)
<1> SUFFICES ASSUME IInv, IInv', StopAfterClear, [Next]_vars
             PROVE Contract!Next \/ UNCHANGED Contract!vars
  OBVIOUS
<1>t. /\ owner \in {"start", "handshake", "settle", "monitor", "stop", "grace", "reap", "stopped"}
      /\ proc \in {"none", "alive", "term", "kill", "exited", "reaped"}
      /\ reaper \in {"none", "wait", "emit", "close", "done"}
      /\ reaper = "none" <=> proc = "none"
      /\ ready \in BOOLEAN /\ at \in Steps
  BY DEF IInv, TunnelTypeOK, EgressInv, EgressTypeOK
<1> USE DEF Stage, Child, Contract!vars, Running, Steps, Configuring, StopAfterClear, TunnelOnly, EgressOnly,
            egressVars, tunnelVars, ctl, kernel, output, channels
<1>i. /\ owner = "stopped" => proc \in {"none", "reaped"}
      /\ reaper \in {"emit", "close", "done"} => proc = "reaped"
      /\ owner = "start" => proc = "none"
      /\ at \notin {"serving", "unready"} => ~ready
  BY DEF IInv, TunnelInv, StoppedIsReaped, EgressInv
<1>c. /\ owner \in {"start", "handshake"} => at = "idle"
      /\ owner = "settle" => at \in Configuring \cup {"serving"}
      /\ owner = "monitor" => at = "serving"
      /\ owner \in {"grace", "reap"} => at # "idle" /\ reaper # "none"
      /\ owner = "stop" /\ at = "idle" => proc = "none"
      /\ owner = "stop" => at \notin Configuring
  BY DEF IInv, Coupling
<1> USE <1>t, <1>i, <1>c
<1>1. CASE Writes  BY <1>1 DEF Writes, WriteLine
<1>2. CASE Scans  BY <1>2 DEF Scans, Scan
<1>3. CASE Reaps  BY <1>3 DEF Reaps, Reap, EmitExit, CloseExit
<1>4. CASE Exits
  BY <1>4 DEF Exits, ProcExits, ProcDies, DeviceVanishes, Contract!Next, Contract!Exit
<1>5. CASE \E d \in Devices : OrphanExits(d)  BY <1>5 DEF OrphanExits, DeviceVanishes
<1>6. CASE Spawns  BY <1>6 DEF Spawns, Start, Contract!Next, Contract!Launch
<1>7. CASE Handshake
  BY <1>7 DEF Handshake, TakeHandshake, TunnelUp, Contract!Next, Contract!Connect
<1>8. CASE HandshakeFails
  BY <1>8 DEF HandshakeFails, TakeEvent, HandshakeTimeout, NoHandshake, Contract!Next,
     Contract!Leave
<1>9. CASE Configures
  BY <1>9 DEF Configures, CheckDevice, DeleteRule, FlushTable, InstallRoute, InstallRule, Publish,
     GiveUp, Contract!Next, Contract!Leave, Contract!Open
<1>10. CASE InitialProbe
  BY <1>10 DEF InitialProbe, ProbeMayAnswer, StartMonitor, Contract!Next, Contract!Serve
<1>11. CASE InitialProbesFail
  BY <1>11 DEF InitialProbesFail, GiveUp, Leave, Contract!Next, Contract!Leave
<1>12. CASE CancelledProbing  BY <1>12 DEF CancelledProbing, GiveUp
<1>13. CASE Hears
  BY <1>13 DEF Hears, MonitorEvent, Leave, Contract!Next, Contract!Leave
<1>14. CASE ProbeFails \/ Drops
  BY <1>14 DEF ProbeFails, Drops, GiveUp, Leave, Contract!Next, Contract!Leave
<1>15. CASE ProbePasses  BY <1>15 DEF ProbePasses
<1>16. CASE Clears
  <2>1. CASE Unready  BY <1>16, <2>1 DEF Clears, Unready, Contract!Next, Contract!Close
  <2>2. CASE DeleteRule
    <3>1. at = "clear" /\ at' = "cleartable"  BY <1>16, <2>2 DEF Clears, DeleteRule
    <3> QED
      BY <1>16, <2>2, <3>1 DEF Clears, DeleteRule
  <2>3. CASE FlushTable
    <3>1. at = "cleartable" /\ at' = "stop"  BY <1>16, <2>3 DEF Clears, FlushTable
    <3> QED
      BY <1>16, <2>3, <3>1 DEF Clears, FlushTable
  <2> QED
    BY <1>16, <2>1, <2>2, <2>3 DEF Clears
<1>17. CASE Stops
  BY <1>17 DEF Stops, StopTerm, StopKill, Contract!Next, Contract!Abandon
<1>18. CASE StopEnds
  BY <1>18 DEF StopEnds, StopReturn, StopTunnel, Contract!Next, Contract!Stop, Contract!Abandon
<1>19. CASE NextNode  BY <1>19 DEF NextNode, Renew
<1>20. CASE Restarts
  BY <1>20 DEF Restarts, Renew, Crash, Contract!Next, Contract!Restart
<1>21. CASE Dials  BY <1>21 DEF Dials, Dialing, Control, Connect, Finish
<1>22. CASE UNCHANGED vars  BY <1>22 DEF vars
<1> HIDE DEF Stage, Child, Contract!vars, Running, Steps, Configuring
<1> QED
  BY <1>1, <1>2, <1>3, <1>4, <1>5, <1>6, <1>7, <1>8, <1>9, <1>10, <1>11, <1>12, <1>13, <1>14,
     <1>15, <1>16, <1>17, <1>18, <1>19, <1>20, <1>21, <1>22
     DEF Next, Connecting, Verifying, Monitoring, Stopping

\* With every step of openvpn, its goroutines, Configure, Clear and Stop in view, host
\* mode still implements TunnelService, as the supervisor does that takes each of these
\* for one step.
THEOREM TunnelRefinement == Spec => ImplementsTunnelService
<1>1. Init => StopAfterClear /\ Contract!Init
  BY Zenon DEF Init, TunnelInit, EgressInit, StopAfterClear, Contract!Init, Stage, Child,
     Running, Configuring
<1> QED
  BY <1>1, Invariance, StopInductive, ContractStep, PTL
     DEF Spec, ImplementsTunnelService, Contract!Spec
=============================================================================
