--------------------------------- MODULE Egress ---------------------------------
(***************************************************************************)
(* Host-mode egress on Linux (internal/egress): the Controller, the policy   *)
(* rule and routing table it installs, and the dials of the proxy, the       *)
(* prober and the resolver, which run concurrently with it.                  *)
(*                                                                          *)
(* The supervisor drives it in the order connectAndVerify and stopTunnel     *)
(* do: a tunnel comes up, Configure, serving, Clear, the tunnel stops.  Each *)
(* of its ip commands may fail; the errors of those that remove are ignored. *)
(* External: the kernel looks up a marked socket in the table if the rule is *)
(* there and the table has a route, and in the main table otherwise; a       *)
(* device that disappears takes its routes with it.                          *)
(***************************************************************************)
EXTENDS FiniteSets

CONSTANTS
  Devices,   \* tunN interfaces
  Dialers,   \* goroutines inside Controller.DialContext
  None       \* no device

ASSUME EgressAssumption == None \notin Devices

VARIABLES
  at,       \* where the supervisor stands in Configure, Clear or between them
  tunnel,   \* the device of the current openvpn process
  ifaces,   \* devices the kernel has
  device,   \* Controller.device
  ready,    \* Controller.ready
  rule,     \* fwmark 0xc0de looks up table 51820
  table,    \* device of the default route in table 51820
  dial,     \* [Dialers -> where a dial is, and the device its control read]
  leftover  \* history: what removing failed to remove, since this tunnel put it in

ctl == <<device, ready>>
kernel == <<ifaces, rule, table>>
egressVars == <<at, tunnel, ctl, kernel, dial, leftover>>

Idle == [step |-> "idle", dev |-> None]

EgressInit ==
  /\ at = "idle" /\ tunnel = None
  /\ device = None /\ ready = FALSE
  /\ ifaces = {} /\ rule \in BOOLEAN /\ table = None
  /\ dial = [d \in Dialers |-> Idle]
  /\ leftover = {}

-----------------------------------------------------------------------------
(* The supervisor's side                                                    *)

\* openvpn has opened a device and reported its handshake; it may have gone since.
TunnelUp ==
  /\ at = "idle"
  /\ \E d \in Devices \ ifaces :
       tunnel' = d /\ ifaces' \in {ifaces, ifaces \cup {d}}
  /\ at' = "check" /\ leftover' = {}
  /\ UNCHANGED <<ctl, rule, table, dial>>

\* No handshake: stopTunnel clears an egress that was never configured.
NoHandshake ==
  /\ at = "idle" /\ at' = "unready" /\ leftover' = {}
  /\ UNCHANGED <<tunnel, ctl, kernel, dial>>

\* Configure: no device in the log, or no such interface, is an error.
CheckDevice ==
  /\ at = "check"
  /\ \/ tunnel \in ifaces /\ at' = "flush"
     \/ at' = "unready"
  /\ UNCHANGED <<tunnel, ctl, kernel, dial, leftover>>

\* clearHostRoute: the rule, then the table; an error of either is ignored.
\* setupHostRoute begins with it, because of what an ungraceful exit may have left,
\* and undoes a rule it could not add; Clear ends with it.
DeleteRule ==
  /\ at \in {"flush", "undo", "clear"}
  /\ at' = CASE at = "flush" -> "flushtable"
             [] at = "undo"  -> "undotable"
             [] at = "clear" -> "cleartable"
  /\ rule' \in {rule, FALSE}
  /\ leftover' = IF rule' THEN leftover \cup {"rule"} ELSE leftover \ {"rule"}
  /\ UNCHANGED <<tunnel, ctl, ifaces, table, dial>>

FlushTable ==
  /\ at \in {"flushtable", "undotable", "cleartable"}
  /\ at' = CASE at = "flushtable" -> "route"
             [] at = "undotable"  -> "unready"
             [] at = "cleartable" -> "stop"
  /\ table' \in {table, None}
  /\ leftover' = IF table' # None THEN leftover \cup {"table"} ELSE leftover \ {"table"}
  /\ UNCHANGED <<tunnel, ctl, ifaces, rule, dial>>

\* Mutant: ready is published before the rule is there.
InstallRoute_Publish ==
  /\ at = "route"
  /\ \/ /\ tunnel \in ifaces
        /\ table' = tunnel /\ at' = "rule" /\ device' = tunnel /\ ready' = TRUE
        /\ leftover' = leftover \ {"table"}
     \/ at' = "unready" /\ UNCHANGED <<table, ctl, leftover>>
  /\ UNCHANGED <<tunnel, ifaces, rule, dial>>

\* ip route replace: without the device it cannot but fail.
InstallRoute ==
  /\ at = "route"
  /\ \/ /\ tunnel \in ifaces
        /\ table' = tunnel /\ at' = "rule"
        /\ leftover' = leftover \ {"table"}
     \/ at' = "unready" /\ UNCHANGED <<table, leftover>>
  /\ UNCHANGED <<tunnel, ctl, ifaces, rule, dial>>

\* ip rule add.
InstallRule ==
  /\ at = "rule"
  /\ \/ rule' = TRUE /\ at' = "publish" /\ leftover' = leftover \ {"rule"}
     \/ at' = "undo" /\ UNCHANGED <<rule, leftover>>
  /\ UNCHANGED <<tunnel, ctl, ifaces, table, dial>>

\* Only then is the controller ready.
Publish ==
  /\ at = "publish"
  /\ device' = tunnel /\ ready' = TRUE
  /\ at' = "serving"
  /\ UNCHANGED <<tunnel, kernel, dial, leftover>>

\* The supervisor leaves the tunnel, for whatever reason.
Leave ==
  /\ at = "serving"
  /\ at' = "unready"
  /\ UNCHANGED <<tunnel, ctl, kernel, dial, leftover>>

\* Mutant: Clear starts with the kernel and leaves the controller ready.
Unready_KernelFirst ==
  /\ at = "unready"
  /\ rule' = FALSE /\ table' = None
  /\ at' = "clear"
  /\ UNCHANGED <<tunnel, ctl, ifaces, dial, leftover>>

\* Clear: first the controller, then clearHostRoute.
Unready ==
  /\ at = "unready"
  /\ device' = None /\ ready' = FALSE
  /\ at' = "clear"
  /\ UNCHANGED <<tunnel, kernel, dial, leftover>>

\* tun.Stop: the process is gone, its device with it, and the device's routes.
StopTunnel ==
  /\ at = "stop"
  /\ ifaces' = ifaces \ {tunnel}
  /\ table' = IF table = tunnel THEN None ELSE table
  /\ tunnel' = None /\ at' = "idle"
  /\ UNCHANGED <<ctl, rule, dial, leftover>>

Lifecycle ==
  \/ TunnelUp \/ NoHandshake \/ CheckDevice \/ DeleteRule \/ FlushTable
  \/ InstallRoute \/ InstallRule \/ Publish \/ Leave \/ Unready \/ StopTunnel

-----------------------------------------------------------------------------
(* Dials                                                                    *)

\* The socket exists; its Control callback reads the controller under the lock.
Control(d) ==
  /\ dial[d] = Idle
  /\ IF ready
       THEN dial' = [dial EXCEPT ![d] = [step |-> "admitted", dev |-> device]]
       ELSE dial' = [dial EXCEPT ![d] = [step |-> "refused", dev |-> None]]
  /\ UNCHANGED <<at, tunnel, ctl, kernel, leftover>>

\* The marked socket connects, after the lock was released.
Path == IF rule /\ table # None THEN "tunnel" ELSE "main"

Connect(d) ==
  /\ dial[d].step = "admitted"
  /\ dial' = [dial EXCEPT ![d].step = Path]
  /\ UNCHANGED <<at, tunnel, ctl, kernel, leftover>>

Finish(d) ==
  /\ dial[d].step \in {"refused", "tunnel", "main"}
  /\ dial' = [dial EXCEPT ![d] = Idle]
  /\ UNCHANGED <<at, tunnel, ctl, kernel, leftover>>

Dialing == \E d \in Dialers : Control(d) \/ Connect(d) \/ Finish(d)

-----------------------------------------------------------------------------
(* The environment                                                          *)

\* openvpn exits: the one in use, or one that outlived a killed daemon.
DeviceVanishes(d) ==
  /\ d \in ifaces /\ ifaces' = ifaces \ {d}
  /\ table' = IF table = d THEN None ELSE table
  /\ UNCHANGED <<at, tunnel, ctl, rule, dial, leftover>>

\* The process is killed, and its openvpn with it unless that runs on alone.
\* Kernel state survives, less the routes of a device that went.
Crash ==
  /\ at' = "idle" /\ tunnel' = None /\ device' = None /\ ready' = FALSE
  /\ ifaces' \in {ifaces, ifaces \ {tunnel}}
  /\ table' = IF table \in ifaces' THEN table ELSE None
  /\ dial' = [d \in Dialers |-> Idle]
  /\ leftover' = {}
  /\ UNCHANGED rule

EgressNext == Lifecycle \/ Dialing \/ (\E d \in Devices : DeviceVanishes(d)) \/ Crash

EgressSpec == EgressInit /\ [][EgressNext]_egressVars

-----------------------------------------------------------------------------
(* Properties                                                               *)

\* Where Configure may stand.
Configuring == {"check", "flush", "flushtable", "route", "rule", "undo", "undotable", "publish"}

Steps == Configuring \cup {"idle", "serving", "unready", "clear", "cleartable", "stop"}

Dial == [step : {"idle", "refused", "admitted", "tunnel", "main"},
         dev : Devices \cup {None}]

\* Types; a ready controller always has a device.
EgressTypeOK ==
  /\ at \in Steps
  /\ tunnel \in Devices \cup {None}
  /\ device \in Devices \cup {None} /\ (ready => device # None)
  /\ ready \in BOOLEAN /\ rule \in BOOLEAN
  /\ ifaces \in SUBSET Devices /\ table \in Devices \cup {None}
  /\ dial \in [Dialers -> Dial]
  /\ leftover \in SUBSET {"rule", "table"}

\* A ready controller names the current tunnel, and as long as its device exists
\* the kernel sends marked sockets through it: whatever an earlier run left in the
\* kernel, and however Configure and Clear were interrupted (egress.go:39-70).
RoutedWhileReady ==
  ready => device = tunnel /\ (device \in ifaces => rule /\ table = device)

\* An admitted dial leaves the tunnel for the main table only after its tunnel was
\* torn down or lost under it: never while the controller is ready and the device
\* it read is there (control reads under the lock, the connect comes after it).
DialLeavesOnlyTornDownTunnel ==
  [][\A d \in Dialers :
       dial[d].step = "admitted" /\ dial'[d].step = "main" =>
         ~ready \/ device # dial[d].dev \/ device \notin ifaces]_egressVars
=============================================================================
