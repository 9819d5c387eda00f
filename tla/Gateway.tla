-------------------------------- MODULE Gateway --------------------------------
(***************************************************************************)
(* Host mode with its parts put together: the supervisor (connectAndVerify,  *)
(* monitor and stopTunnel in internal/manager/manager.go) drives one Tunnel  *)
(* after another and the Egress controller, while the proxy dials.           *)
(*                                                                          *)
(* What each component leaves open is settled by the other: the device is    *)
(* there as long as its openvpn runs, and a probe is a dial, which may       *)
(* answer if openvpn runs or if the marked socket takes the main table.      *)
(***************************************************************************)
EXTENDS Tunnel, Egress

CONSTANT HealthMaxFails  \* consecutive failed probes that end a tunnel

ASSUME GatewayAssumption == HealthMaxFails \in Nat \ {0}

VARIABLE fails  \* failed probes in a row that monitor has counted

vars == <<tunnelVars, egressVars, fails>>

Init == TunnelInit /\ EgressInit /\ fails = 0

TunnelOnly == UNCHANGED <<egressVars, fails>>
EgressOnly == UNCHANGED <<tunnelVars, fails>>

-----------------------------------------------------------------------------
(* openvpn and the goroutines of its tunnel                                 *)

Writes == WriteLine /\ TunnelOnly
Scans == Scan /\ TunnelOnly
Reaps == (Reap \/ EmitExit \/ CloseExit) /\ TunnelOnly

\* The device goes with its process.
Exits ==
  /\ ProcExits \/ ProcDies
  /\ IF tunnel \in ifaces THEN DeviceVanishes(tunnel) ELSE UNCHANGED egressVars
  /\ UNCHANGED fails

OrphanExits(d) == d # tunnel /\ DeviceVanishes(d) /\ EgressOnly

-----------------------------------------------------------------------------
(* connectAndVerify                                                         *)

Spawns == Start /\ TunnelOnly

Handshake ==
  /\ TakeHandshake /\ TunnelUp
  /\ tunnel' \in ifaces' <=> Running
  /\ UNCHANGED fails

\* Mutant: without a handshake openvpn is stopped, but the egress is not cleared.
HandshakeFails_NoClear == (TakeEvent \/ HandshakeTimeout) /\ TunnelOnly

\* An event, the exit or the timer before any handshake.
HandshakeFails ==
  /\ TakeEvent \/ HandshakeTimeout
  /\ IF owner' = "stop" THEN NoHandshake ELSE UNCHANGED egressVars
  /\ UNCHANGED fails

\* Configure, any step of which may fail.
Configures ==
  /\ owner = "settle"
  /\ \/ CheckDevice \/ DeleteRule \/ FlushTable
     \/ InstallRoute \/ InstallRule \/ Publish
  /\ IF at' = "unready" THEN GiveUp ELSE UNCHANGED tunnelVars
  /\ UNCHANGED fails

ProbeMayAnswer == ready /\ (Running \/ Path = "main")

InitialProbe ==
  /\ at = "serving" /\ ProbeMayAnswer /\ StartMonitor
  /\ fails' = 0 /\ UNCHANGED egressVars

\* All tries failed, or ctx was cancelled while the tunnel settled.
InitialProbesFail == owner = "settle" /\ GiveUp /\ Leave /\ UNCHANGED fails

\* Cancelled between two tries: the tunnel is stopped and the egress stays open.
CancelledProbing == owner = "settle" /\ at = "serving" /\ GiveUp /\ TunnelOnly

-----------------------------------------------------------------------------
(* monitor                                                                  *)

\* Mutant: the exit is an event like any other.
Hears_Ignore == MonitorEvent /\ owner' = "monitor" /\ TunnelOnly

Hears ==
  /\ MonitorEvent
  /\ IF owner' = "stop" THEN Leave ELSE UNCHANGED egressVars
  /\ UNCHANGED fails

ProbeFails ==
  /\ owner = "monitor"
  /\ IF fails + 1 < HealthMaxFails
       THEN fails' = fails + 1 /\ UNCHANGED <<tunnelVars, egressVars>>
       ELSE fails' = fails /\ GiveUp /\ Leave

ProbePasses ==
  /\ owner = "monitor" /\ ProbeMayAnswer
  /\ fails' = 0 /\ UNCHANGED <<tunnelVars, egressVars>>

\* Mutant: a route change stops the tunnel but not the egress.
Drops_TunnelOnly ==
  /\ owner = "monitor" /\ GiveUp
  /\ at' = "stop" /\ UNCHANGED <<tunnel, ctl, kernel, dial, leftover, fails>>

\* The route changed, or ctx was cancelled.
Drops == owner = "monitor" /\ GiveUp /\ Leave /\ UNCHANGED fails

-----------------------------------------------------------------------------
(* stopTunnel                                                               *)

Clears == owner = "stop" /\ (Unready \/ DeleteRule \/ FlushTable) /\ EgressOnly

\* Only after Clear; at "serving" after CancelledProbing, at "idle" if openvpn was
\* never started.
Stops == at \in {"stop", "serving", "idle"} /\ (StopTerm \/ StopKill) /\ TunnelOnly

StopEnds ==
  /\ StopReturn
  /\ IF at = "stop" THEN StopTunnel ELSE UNCHANGED egressVars
  /\ UNCHANGED fails

NextNode == owner = "stopped" /\ at = "idle" /\ Renew /\ TunnelOnly

\* The daemon is killed, or ends, and starts again.
Restarts == Crash /\ Renew /\ fails' = 0

Dials == Dialing /\ EgressOnly

Connecting == Spawns \/ Handshake \/ HandshakeFails \/ Configures
Verifying == InitialProbe \/ InitialProbesFail \/ CancelledProbing
Monitoring == Hears \/ ProbeFails \/ ProbePasses \/ Drops
Stopping == Clears \/ Stops \/ StopEnds

Next ==
  \/ Writes \/ Scans \/ Reaps \/ Exits
  \/ \E d \in Devices : OrphanExits(d)
  \/ Connecting \/ Verifying \/ Monitoring \/ Stopping
  \/ NextNode \/ Restarts \/ Dials

Spec == Init /\ [][Next]_vars

\* The goroutines run, timers fire, monitor's ticker ticks, and a killed process
\* dies; whether openvpn ever exits on SIGTERM is not assumed.
FairSpec ==
  /\ Spec
  /\ WF_vars(Scans) /\ WF_vars(Reaps) /\ WF_vars(proc = "kill" /\ Exits)
  /\ WF_vars(Hears) /\ WF_vars(ProbeFails \/ ProbePasses)
  /\ WF_vars(Clears) /\ WF_vars(Stops) /\ WF_vars(StopEnds)

-----------------------------------------------------------------------------
(* Properties                                                               *)

\* Between two tunnels the controller is closed and knows no device, and a rule or a
\* route is in the kernel only if an ip command that was to remove it has run, after
\* it was last installed, and failed: whichever way connectAndVerify or monitor came
\* to an end, and whichever of the commands fail (manager.go:371-412).
ClearedBetweenTunnels ==
  owner = "stopped" /\ at = "idle" /\ proc # "none" =>
    /\ ~ready /\ device = None /\ tunnel = None
    /\ rule => "rule" \in leftover
    /\ table # None => "table" \in leftover

\* The tunnel at hand, by the place of the egress and its owner.
Stage ==
  CASE at = "idle" -> IF owner = "handshake" THEN "connecting" ELSE "free"
    [] at \in Configuring -> "connected"
    [] at = "serving" /\ owner = "monitor" -> "serving"
    [] at = "serving" /\ owner = "stopped" -> "over"
    [] at = "serving" /\ owner \notin {"monitor", "stopped"} -> "open"
    [] at = "unready" -> "leaving"
    [] at \in {"clear", "cleartable", "stop"} -> "closing"

\* A process is over for the contract once it was reaped and Stop has returned.
Child ==
  CASE Running -> "running"
    [] proc = "none" \/ (owner = "stopped" /\ proc = "reaped") -> "none"
    [] OTHER -> "dead"

Contract == INSTANCE TunnelService
  WITH Guarded <- TRUE, stage <- Stage, child <- Child, open <- ready

\* However openvpn, its reaper, the steps of Configure and Clear and those of Stop
\* interleave, the next openvpn is started only after the last one was reaped and
\* the egress closed, and only an open egress is served (manager.go:348-456).
ImplementsTunnelService == Contract!Spec

\* Stop returns whatever openvpn does, also if it ignores SIGTERM or had exited
\* before; unless the whole daemon is killed first (tunnel.go:204-226).
StopReturns == owner = "stop" ~> owner \in {"stopped", "start"}

\* An exit that is in the event queue ends the tunnel's service, however many lines
\* are queued before it and however healthy its probes look (manager.go:433-439).
ExitHeeded ==
  owner = "monitor" /\ (\E i \in DOMAIN events : events[i] = "exit") ~> owner # "monitor"

\* Documented, and refuted: "N consecutive probe failures or an unexpected openvpn
\* exit drift" (manager.go:414-415).
ExitDrifts == owner = "monitor" /\ ~Running ~> owner # "monitor"
=============================================================================
