------------------------------ MODULE Supervisor ------------------------------
(***************************************************************************)
(* The supervisor of conduitvpn (internal/manager/manager.go): the Run loop *)
(* that fetches a pool of VPN nodes, tries them best-first, serves the      *)
(* first that verifies, and drifts away from it when it degrades.           *)
(*                                                                          *)
(* Its goroutine stands at pc.  Around it run the web UI's handlers, which  *)
(* change the route (SetRouteConfig), ask for a refresh (TriggerFetch) and  *)
(* restore blacklisted nodes, the openvpn child, which may exit whenever it *)
(* likes, the signal handler that cancels ctx, and restarts of the process, *)
(* which keep only what the state store holds.                              *)
(*                                                                          *)
(* Two calls that only take a lock, read or write, and release it are one   *)
(* step each; between two of them any other process may run.                *)
(***************************************************************************)
EXTENDS Naturals, Sequences

CONSTANTS
  Nodes,              \* VPN Gate nodes, identified by HostName
  NamesOf,            \* [Nodes -> SUBSET names]: the HostName and the IP of a node
  CountryOf,          \* [Nodes -> countries]: CountryShort
  Pools,              \* what a fetch may return: sequences of nodes, best first
  Requests,           \* routes the web UI may submit, valid or not
  EnvRoute,           \* the route given by the environment (ROUTE_MODE, ...)
  Setters,            \* goroutines serving POST route
  Refreshers,         \* goroutines serving POST update-nodes
  HostMode,           \* NETWORK_MODE = host
  InitialProbeTries,
  HealthMaxFails,
  SaveOutcomes,       \* {TRUE} if every save succeeds, BOOLEAN if one may fail
  MayShutdown,        \* whether SIGINT/SIGTERM may arrive
  MaxRestarts,        \* bound: restarts of the process
  None                \* no node, no name, no route

VARIABLES
  pc,             \* where the supervisor goroutine stands
  pool,           \* the last pool fetched
  left,           \* candidates connectLoop has not looked at yet
  node,           \* the node connectLoop works on (m.current follows it)
  outcome,        \* how the last attempt ended: "failed" or "mode"
  failed,         \* failed probes: i in connectAndVerify, fails in monitor
  state,          \* m.state, as published to the web UI
  tun,            \* the openvpn process of m.tun: "none", "up" or "exited"
  exitQueued,     \* its EventExit waits in the tunnel's event queue
  ready,          \* egress.Controller.ready
  blacklist,      \* m.blacklist
  diskBlacklist,  \* blacklist.json
  route,          \* m.routeMode, m.routeCountry, m.routeNode
  diskRoute,      \* route.json
  modeCh,         \* whether the channel m.modeCh (capacity 1) holds a token
  setter,         \* [Setters -> what a SetRouteConfig call still has to do]
  refreshReq,     \* m.refreshReq
  refreshCh,      \* whether the channel m.refreshCh (capacity 1) holds a token
  refresher,      \* [Refreshers -> "idle" or "send"]
  ctxDone,        \* ctx has been cancelled
  restarts,       \* restarts so far
  selected        \* history: the route under which left was last computed

loopVars == <<pc, pool, left, node, outcome, failed, state, selected>>
tunVars == <<tun, exitQueued, ready>>
listVars == <<blacklist, diskBlacklist>>
routeVars == <<route, diskRoute, modeCh, setter>>
refreshVars == <<refreshReq, refreshCh, refresher>>
procVars == <<ctxDone, restarts>>
vars == <<loopVars, tunVars, listVars, routeVars, refreshVars, procVars>>

-----------------------------------------------------------------------------
(* Routes and candidates                                                    *)

\* SetRouteConfig refuses any other request and changes nothing.
Valid(r) ==
  /\ r.mode \in {"auto", "country", "fixed"}
  /\ r.mode = "country" => r.countries # {}
  /\ r.mode = "fixed" => r.node # None

Routes == {r \in Requests : Valid(r)}

\* isFixedNode: does the route's node name n?  The mode is not looked at.
Matches(n, r) == r.node # None /\ r.node \in NamesOf[n]

Members(p) == {p[i] : i \in DOMAIN p}

\* n comes before k in p.
Before(p, n, k) == \E i, j \in DOMAIN p : i < j /\ p[i] = n /\ p[j] = k

\* The earliest node of S in p (at most one, p has no duplicates).
Earliest(p, S) == {n \in S : \A k \in S : ~Before(p, k, n)}

\* selectCandidates: the order stays that of the pool.
Candidates(p, r) ==
  CASE r.mode = "country" -> {n \in Members(p) : CountryOf[n] \in r.countries}
    [] r.mode = "fixed"   -> Earliest(p, {n \in Members(p) : Matches(n, r)})
    [] OTHER              -> Members(p)

AllRoutes == Routes \cup {EnvRoute}

\* Nodes some route can lock.
Lockable == {n \in Nodes : \E r \in AllRoutes : Matches(n, r)}

ASSUME ConstantsAssumption ==
  /\ Pools \subseteq Seq(Nodes)
  /\ None \notin Nodes
  /\ None \notin Requests
  /\ EnvRoute # None
  /\ InitialProbeTries \in Nat
  /\ HealthMaxFails \in Nat
  /\ SaveOutcomes \subseteq BOOLEAN /\ SaveOutcomes # {}
  /\ HostMode \in BOOLEAN
  /\ MayShutdown \in BOOLEAN
  /\ MaxRestarts \in Nat

-----------------------------------------------------------------------------
(* Process start: New                                                       *)

\* The persisted route wins over the environment, unless it cannot be read.
LoadedRoutes == {EnvRoute} \cup ({diskRoute} \ {None})

\* loadBlacklist: a file that cannot be read or decoded leaves memory empty.
LoadedBlacklists == {diskBlacklist, {}}

NoCall == [at |-> "idle", to |-> None]

Init ==
  /\ diskRoute \in Routes \cup {None}
  /\ diskBlacklist \in SUBSET Nodes
  /\ restarts = 0
  /\ pc = "boot" /\ pool = <<>> /\ left = {} /\ node = None
  /\ outcome = "failed" /\ failed = 0 /\ state = "idle"
  /\ tun = "none" /\ exitQueued = FALSE /\ ready = ~HostMode
  /\ blacklist \in LoadedBlacklists
  /\ route \in LoadedRoutes /\ selected = route
  /\ modeCh = FALSE /\ setter = [s \in Setters |-> NoCall]
  /\ refreshReq = FALSE /\ refreshCh = FALSE
  /\ refresher = [r \in Refreshers |-> "idle"]
  /\ ctxDone = FALSE

Alive == pc # "done"

\* The process dies (or has returned) and is started again on the same disk.
Restart ==
  /\ restarts < MaxRestarts
  /\ restarts' = restarts + 1
  /\ UNCHANGED <<diskRoute, diskBlacklist>>
  /\ pc' = "boot" /\ pool' = <<>> /\ left' = {} /\ node' = None
  /\ outcome' = "failed" /\ failed' = 0 /\ state' = "idle"
  /\ tun' = "none" /\ exitQueued' = FALSE /\ ready' = ~HostMode
  /\ blacklist' \in LoadedBlacklists
  /\ route' \in LoadedRoutes /\ selected' = route'
  /\ modeCh' = FALSE /\ setter' = [s \in Setters |-> NoCall]
  /\ refreshReq' = FALSE /\ refreshCh' = FALSE
  /\ refresher' = [r \in Refreshers |-> "idle"]
  /\ ctxDone' = FALSE

Shutdown ==
  /\ MayShutdown /\ Alive /\ ~ctxDone
  /\ ctxDone' = TRUE
  /\ UNCHANGED <<loopVars, tunVars, listVars, routeVars, refreshVars, restarts>>

-----------------------------------------------------------------------------
(* Run: the outer loop                                                      *)

\* The part of the state that moving the supervisor along never touches.
Others == UNCHANGED <<routeVars, procVars>>

Goto(l) == pc' = l

\* upstream.Start, which may fail and end Run.
RunStart ==
  /\ pc = "boot"
  /\ \E ok \in BOOLEAN : Goto(IF ok THEN "top" ELSE "done")
  /\ UNCHANGED <<pool, left, node, outcome, failed, state, selected>>
  /\ UNCHANGED <<tunVars, listVars, refreshVars>> /\ Others

\* Head of the loop: consume the refresh request, start fetching.
LoopHead ==
  /\ pc = "top"
  /\ IF ctxDone
       THEN Goto("done") /\ UNCHANGED <<state, refreshReq>>
       ELSE Goto("fetch") /\ state' = "fetching" /\ refreshReq' = FALSE
  /\ UNCHANGED <<pool, left, node, outcome, failed, selected>>
  /\ UNCHANGED <<tunVars, listVars, refreshCh, refresher>> /\ Others

\* fetchAndBench returns: a fresh pool, the cached one, or nothing.
FetchDone ==
  /\ pc = "fetch"
  /\ IF ctxDone
       THEN Goto("done") /\ UNCHANGED pool
       ELSE \E p \in Pools :
              pool' = p /\ Goto(IF p = <<>> THEN "wait" ELSE "select")
  /\ UNCHANGED <<left, node, outcome, failed, state, selected>>
  /\ UNCHANGED <<tunVars, listVars, refreshVars>> /\ Others

\* selectCandidates under the route of this moment.
Select ==
  /\ pc = "select"
  /\ left' = Candidates(pool, route)
  /\ selected' = route
  /\ Goto(IF left' = {} THEN "wait" ELSE "next")
  /\ UNCHANGED <<pool, node, outcome, failed, state>>
  /\ UNCHANGED <<tunVars, listVars, refreshVars>> /\ Others

\* wait returns true: the time is over.
WaitElapsed ==
  /\ pc = "wait"
  /\ Goto("top")
  /\ UNCHANGED <<pool, left, node, outcome, failed, state, selected>>
  /\ UNCHANGED <<tunVars, listVars, refreshVars>> /\ Others

\* wait returns false, on cancellation or on a refresh token: Run returns nil.
WaitAborted ==
  /\ pc = "wait"
  /\ \/ ctxDone /\ UNCHANGED refreshCh
     \/ refreshCh /\ refreshCh' = FALSE
  /\ Goto("done")
  /\ UNCHANGED <<pool, left, node, outcome, failed, state, selected>>
  /\ UNCHANGED <<tunVars, listVars, refreshReq, refresher>> /\ Others

Run == RunStart \/ LoopHead \/ FetchDone \/ Select \/ WaitElapsed \/ WaitAborted

-----------------------------------------------------------------------------
(* connectLoop                                                              *)

\* Nothing left (or cancelled): back in Run.
LoopExhausted ==
  /\ pc = "next"
  /\ ctxDone \/ left = {}
  /\ IF ctxDone THEN Goto("done") /\ UNCHANGED state
                ELSE Goto("wait") /\ state' = "drifting"
  /\ UNCHANGED <<pool, left, node, outcome, failed, selected>>
  /\ UNCHANGED <<tunVars, listVars, refreshVars>> /\ Others

\* The next candidate; one that isBlacklisted is looked at once more.
TakeCandidate ==
  /\ pc = "next" /\ ~ctxDone
  /\ \E n \in Earliest(pool, left) :
       /\ node' = n
       /\ left' = left \ {n}
       /\ Goto(IF n \in blacklist THEN "locked" ELSE "attempt")
  /\ UNCHANGED <<pool, outcome, failed, state, selected>>
  /\ UNCHANGED <<tunVars, listVars, refreshVars>> /\ Others

\* Mutant: a blacklisted candidate is skipped even if it is the fixed node.
AskFixed_Skip ==
  /\ pc = "locked"
  /\ Goto("next")
  /\ UNCHANGED <<pool, left, node, outcome, failed, state, selected>>
  /\ UNCHANGED <<tunVars, listVars, refreshVars>> /\ Others

\* isFixedNode decides about a blacklisted candidate.
AskFixed ==
  /\ pc = "locked"
  /\ Goto(IF Matches(node, route) THEN "attempt" ELSE "next")
  /\ UNCHANGED <<pool, left, node, outcome, failed, state, selected>>
  /\ UNCHANGED <<tunVars, listVars, refreshVars>> /\ Others

\* markBlacklisted: memory, then the whole map to disk; a failed save is logged.
Mark ==
  /\ pc = "mark"
  /\ blacklist' = blacklist \cup {node}
  /\ \E saved \in SaveOutcomes :
       diskBlacklist' = IF saved THEN blacklist' ELSE diskBlacklist
  /\ Goto("next")
  /\ UNCHANGED <<pool, left, node, outcome, failed, state, selected>>
  /\ UNCHANGED <<tunVars, refreshVars>> /\ Others

-----------------------------------------------------------------------------
(* connectAndVerify                                                         *)

\* Leave the attempt: with a tunnel to stop, or without one.
GiveUp(l) == Goto(l) /\ outcome' = "failed"

\* prepareFiles and tun.Start; either may fail before a process exists.
StartTunnel ==
  /\ pc = "attempt"
  /\ state' = "connecting"
  /\ failed' = 0
  /\ \/ Goto("handshake") /\ tun' = "up" /\ UNCHANGED outcome
     \/ GiveUp("mark") /\ UNCHANGED tun
  /\ exitQueued' = FALSE
  /\ UNCHANGED <<pool, left, node, selected, ready>>
  /\ UNCHANGED <<listVars, refreshVars>> /\ Others

\* Mutant: no timeout; only the exit of a silent process ends the wait.
Handshake_NoTimer ==
  /\ pc = "handshake" /\ tun = "exited"
  /\ GiveUp("clear")
  /\ UNCHANGED <<pool, left, node, failed, state, selected>>
  /\ UNCHANGED <<tunVars, listVars, refreshVars>> /\ Others

\* WaitHandshake: the handshake, or an error event or the timeout.  ctx is not
\* looked at; the handshake may still be taken after the process has exited.
Handshake ==
  /\ pc = "handshake"
  /\ \/ Goto("configure") /\ UNCHANGED outcome
     \/ GiveUp("clear")
  /\ UNCHANGED <<pool, left, node, failed, state, selected>>
  /\ UNCHANGED <<tunVars, listVars, refreshVars>> /\ Others

\* Mutant: a failed Configure stops the tunnel without clearing the egress.
Configure_NoClear ==
  /\ pc = "configure"
  /\ \/ ~HostMode /\ Goto("settle") /\ UNCHANGED <<outcome, ready>>
     \/ HostMode /\ tun = "up" /\ Goto("settle") /\ ready' = TRUE /\ UNCHANGED outcome
     \/ HostMode /\ GiveUp("stop") /\ UNCHANGED ready
  /\ UNCHANGED <<pool, left, node, failed, state, selected, tun, exitQueued>>
  /\ UNCHANGED <<listVars, refreshVars>> /\ Others

\* egress.Configure, in host mode: needs the tunnel's device.
Configure ==
  /\ pc = "configure"
  /\ \/ ~HostMode /\ Goto("settle") /\ UNCHANGED <<outcome, ready>>
     \/ HostMode /\ tun = "up" /\ Goto("settle") /\ ready' = TRUE /\ UNCHANGED outcome
     \/ HostMode /\ GiveUp("clear") /\ UNCHANGED ready
  /\ UNCHANGED <<pool, left, node, failed, state, selected, tun, exitQueued>>
  /\ UNCHANGED <<listVars, refreshVars>> /\ Others

\* sleepCtx(ProbeSettle).
Settle ==
  /\ pc = "settle"
  /\ \/ Goto("probe") /\ UNCHANGED outcome
     \/ ctxDone /\ GiveUp("clear")
  /\ UNCHANGED <<pool, left, node, failed, state, selected>>
  /\ UNCHANGED <<tunVars, listVars, refreshVars>> /\ Others

\* prober.Check answers 204: needs an egress that dials and a live context.
InitialProbeOk ==
  /\ pc = "probe" /\ failed < InitialProbeTries
  /\ ready /\ ~ctxDone
  /\ Goto("monitor") /\ state' = "connected" /\ failed' = 0
  /\ UNCHANGED <<pool, left, node, outcome, selected>>
  /\ UNCHANGED <<tunVars, listVars, refreshVars>> /\ Others

InitialProbeFailed ==
  /\ pc = "probe" /\ failed < InitialProbeTries
  /\ Goto("retry") /\ failed' = failed + 1
  /\ UNCHANGED <<pool, left, node, outcome, state, selected>>
  /\ UNCHANGED <<tunVars, listVars, refreshVars>> /\ Others

InitialProbesSpent ==
  /\ pc = "probe" /\ failed >= InitialProbeTries
  /\ GiveUp("clear")
  /\ UNCHANGED <<pool, left, node, failed, state, selected>>
  /\ UNCHANGED <<tunVars, listVars, refreshVars>> /\ Others

RetryElapsed ==
  /\ pc = "retry"
  /\ Goto("probe")
  /\ UNCHANGED <<pool, left, node, outcome, failed, state, selected>>
  /\ UNCHANGED <<tunVars, listVars, refreshVars>> /\ Others

\* Cancelled between two probes: tun.Stop alone, the egress is not cleared.
RetryCancelled ==
  /\ pc = "retry" /\ ctxDone
  /\ GiveUp("mark")
  /\ tun' = "none" /\ exitQueued' = FALSE
  /\ UNCHANGED <<pool, left, node, failed, state, selected, ready>>
  /\ UNCHANGED <<listVars, refreshVars>> /\ Others

ConnectLoop ==
  \/ LoopExhausted \/ TakeCandidate \/ AskFixed \/ Mark
  \/ StartTunnel \/ Handshake \/ Configure \/ Settle
  \/ InitialProbeOk \/ InitialProbeFailed \/ InitialProbesSpent
  \/ RetryElapsed \/ RetryCancelled

-----------------------------------------------------------------------------
(* monitor and stopTunnel                                                   *)

MonitorProbeOk ==
  /\ pc = "monitor" /\ ready /\ ~ctxDone
  /\ failed' = 0
  /\ UNCHANGED <<pc, pool, left, node, outcome, state, selected>>
  /\ UNCHANGED <<tunVars, listVars, refreshVars>> /\ Others

MonitorProbeFailed ==
  /\ pc = "monitor"
  /\ IF failed + 1 >= HealthMaxFails
       THEN GiveUp("clear") /\ UNCHANGED failed
       ELSE failed' = failed + 1 /\ UNCHANGED <<pc, outcome>>
  /\ UNCHANGED <<pool, left, node, state, selected>>
  /\ UNCHANGED <<tunVars, listVars, refreshVars>> /\ Others

MonitorExit ==
  /\ pc = "monitor" /\ exitQueued
  /\ exitQueued' = FALSE
  /\ GiveUp("clear")
  /\ UNCHANGED <<pool, left, node, failed, state, selected, tun, ready>>
  /\ UNCHANGED <<listVars, refreshVars>> /\ Others

\* ctx.Done: an error like any other to connectLoop.
MonitorCancelled ==
  /\ pc = "monitor" /\ ctxDone
  /\ GiveUp("clear")
  /\ UNCHANGED <<pool, left, node, failed, state, selected>>
  /\ UNCHANGED <<tunVars, listVars, refreshVars>> /\ Others

\* A token of modeCh: errModeChanged.
MonitorModeChanged ==
  /\ pc = "monitor" /\ modeCh
  /\ modeCh' = FALSE
  /\ Goto("clear") /\ outcome' = "mode"
  /\ UNCHANGED <<pool, left, node, failed, state, selected, route, diskRoute, setter>>
  /\ UNCHANGED <<tunVars, listVars, refreshVars, procVars>>

\* stopTunnel, first half: egress.Clear.
ClearEgress ==
  /\ pc = "clear"
  /\ ready' = ~HostMode
  /\ Goto("stop")
  /\ UNCHANGED <<pool, left, node, outcome, failed, state, selected, tun, exitQueued>>
  /\ UNCHANGED <<listVars, refreshVars>> /\ Others

\* Mutants: a route change blacklists too; or goes on with the old candidates.
AfterStop_Blacklist == "mark"
AfterStop_Continue == IF outcome = "mode" THEN "next" ELSE "mark"

\* connectLoop blacklists, or returns errModeChanged to Run.
AfterStop == IF outcome = "mode" THEN "top" ELSE "mark"

\* Second half: tun.Stop waits for the process to be reaped.
StopTunnel ==
  /\ pc = "stop"
  /\ tun' = "none" /\ exitQueued' = FALSE
  /\ Goto(AfterStop)
  /\ UNCHANGED <<pool, left, node, outcome, failed, state, selected, ready>>
  /\ UNCHANGED <<listVars, refreshVars>> /\ Others

Monitor ==
  \/ MonitorProbeOk \/ MonitorProbeFailed \/ MonitorExit
  \/ MonitorCancelled \/ MonitorModeChanged \/ ClearEgress \/ StopTunnel

-----------------------------------------------------------------------------
(* The goroutines around the supervisor                                     *)

\* The openvpn process exits on its own; its EventExit is dropped if the
\* tunnel's event queue is full.
TunnelExits ==
  /\ Alive /\ tun = "up"
  /\ tun' = "exited" /\ exitQueued' \in BOOLEAN
  /\ UNCHANGED <<loopVars, ready, listVars, routeVars, refreshVars, procVars>>

\* SetRouteConfig(r): memory under modeMu, ...
SetRoute(s) ==
  /\ Alive /\ setter[s].at = "idle"
  /\ \E r \in Routes :
       /\ route' = r
       /\ setter' = [setter EXCEPT ![s] = [at |-> "save", to |-> r]]
  /\ UNCHANGED <<diskRoute, modeCh>>
  /\ UNCHANGED <<loopVars, tunVars, listVars, refreshVars, procVars>>

\* ... SaveRoute outside of it (a failure is only logged), ...
SaveRoute(s) ==
  /\ Alive /\ setter[s].at = "save"
  /\ \E saved \in SaveOutcomes :
       diskRoute' = IF saved THEN setter[s].to ELSE diskRoute
  /\ setter' = [setter EXCEPT ![s].at = "wake"]
  /\ UNCHANGED <<route, modeCh>>
  /\ UNCHANGED <<loopVars, tunVars, listVars, refreshVars, procVars>>

\* Mutant: the supervisor is only woken when it looks connected.
WakeSupervisor_IfConnected(s) ==
  /\ Alive /\ setter[s].at = "wake"
  /\ modeCh' = (modeCh \/ state = "connected")
  /\ setter' = [setter EXCEPT ![s] = NoCall]
  /\ UNCHANGED <<route, diskRoute>>
  /\ UNCHANGED <<loopVars, tunVars, listVars, refreshVars, procVars>>

\* ... and a non-blocking send on modeCh.
WakeSupervisor(s) ==
  /\ Alive /\ setter[s].at = "wake"
  /\ modeCh' = TRUE
  /\ setter' = [setter EXCEPT ![s] = NoCall]
  /\ UNCHANGED <<route, diskRoute>>
  /\ UNCHANGED <<loopVars, tunVars, listVars, refreshVars, procVars>>

\* TriggerFetch: refreshReq.Swap(true); whoever finds it false sends.
RequestRefresh(r) ==
  /\ Alive /\ refresher[r] = "idle" /\ ~refreshReq
  /\ refreshReq' = TRUE
  /\ refresher' = [refresher EXCEPT ![r] = "send"]
  /\ UNCHANGED refreshCh
  /\ UNCHANGED <<loopVars, tunVars, listVars, routeVars, procVars>>

\* Mutant: a served node is not interrupted, so nobody is woken.
SendRefresh_IfIdle(r) ==
  /\ Alive /\ refresher[r] = "send"
  /\ refreshCh' = (refreshCh \/ state # "connected")
  /\ refresher' = [refresher EXCEPT ![r] = "idle"]
  /\ UNCHANGED refreshReq
  /\ UNCHANGED <<loopVars, tunVars, listVars, routeVars, procVars>>

\* ... The send: it drops the token if one is there already.
SendRefresh(r) ==
  /\ Alive /\ refresher[r] = "send"
  /\ refreshCh' = TRUE
  /\ refresher' = [refresher EXCEPT ![r] = "idle"]
  /\ UNCHANGED refreshReq
  /\ UNCHANGED <<loopVars, tunVars, listVars, routeVars, procVars>>

\* Mutant: memory is updated whatever became of the save.
Restore_MemoryFirst ==
  /\ Alive
  /\ \E R \in SUBSET blacklist, saved \in SaveOutcomes :
       /\ R # {}
       /\ blacklist' = blacklist \ R
       /\ diskBlacklist' = IF saved THEN blacklist' ELSE diskBlacklist
  /\ UNCHANGED <<loopVars, tunVars, routeVars, refreshVars, procVars>>

\* RestoreAvailableBlacklist takes the nodes in R off the list: the disk first,
\* and memory only if that reported success.  writeJSON can report an error
\* after its rename, so a failed save may have reached the disk.
Restore ==
  /\ Alive
  /\ \E R \in SUBSET blacklist, saved \in SaveOutcomes, renamed \in BOOLEAN :
       /\ R # {}
       /\ diskBlacklist' = IF saved \/ renamed THEN blacklist \ R ELSE diskBlacklist
       /\ blacklist' = IF saved THEN blacklist \ R ELSE blacklist
  /\ UNCHANGED <<loopVars, tunVars, routeVars, refreshVars, procVars>>

WebUI ==
  \/ \E s \in Setters : SetRoute(s) \/ SaveRoute(s) \/ WakeSupervisor(s)
  \/ \E r \in Refreshers : RequestRefresh(r) \/ SendRefresh(r)
  \/ Restore

\* Run has returned and so has main.
Terminated == ~Alive /\ UNCHANGED vars

RunNext == Run \/ ConnectLoop \/ Monitor

Next == RunNext \/ WebUI \/ TunnelExits \/ Shutdown \/ Restart \/ Terminated

Spec == Init /\ [][Next]_vars
-----------------------------------------------------------------------------
(* Properties                                                               *)

Attempting == {"attempt", "handshake", "configure", "settle", "probe", "retry"}
Leaving == {"clear", "stop", "mark"}

Working == Attempting \cup Leaving \cup {"locked", "monitor"}

FlagsOK ==
  /\ exitQueued \in BOOLEAN /\ ready \in BOOLEAN /\ ctxDone \in BOOLEAN
  /\ modeCh \in BOOLEAN /\ refreshReq \in BOOLEAN /\ refreshCh \in BOOLEAN

\* Types; a node is at hand wherever connectLoop works on one.
TypeOK ==
  /\ FlagsOK
  /\ pc \in {"boot", "top", "fetch", "select", "wait", "done", "next"} \cup Working
  /\ pool \in Pools \cup {<<>>} /\ left \in SUBSET Nodes
  /\ node \in Nodes \cup {None} /\ (pc \in Working => node \in Nodes)
  /\ outcome \in {"failed", "mode"} /\ failed \in Nat
  /\ state \in {"idle", "fetching", "connecting", "connected", "drifting"}
  /\ tun \in {"none", "up", "exited"}
  /\ blacklist \in SUBSET Nodes /\ diskBlacklist \in SUBSET Nodes
  /\ route \in AllRoutes /\ selected \in AllRoutes
  /\ diskRoute \in Routes \cup {None}
  /\ setter \in [Setters -> [at : {"idle", "save", "wake"}, to : Routes \cup {None}]]
  /\ \A s \in Setters : setter[s].at # "idle" => setter[s].to \in Routes
  /\ refresher \in [Refreshers -> {"idle", "send"}]
  /\ restarts \in 0..MaxRestarts

\* Every way out of an attempt or of monitor stops the openvpn process before
\* connectLoop looks at another candidate: StartTunnel, which overwrites m.tun,
\* never abandons a running process (manager.go:351-412).
NoAbandonedTunnel ==
  pc \notin {"handshake", "configure", "settle", "probe", "retry", "monitor",
            "clear", "stop"} => tun = "none"

\* In host mode the egress is open exactly from Configure to stopTunnel's Clear:
\* whoever probes or monitors has it open, and it is open only while a tunnel is
\* held.  The exception is a shutdown between two initial probes.
EgressFollowsTunnel ==
  /\ pc \in {"settle", "probe", "retry", "monitor"} => ready
  /\ HostMode /\ ready /\ tun = "none" => ctxDone

\* Where Run computes new candidates before it uses the old ones again.
Reselects ==
  \/ pc \in {"boot", "top", "fetch", "select", "wait", "done"}
  \/ pc \in Leaving /\ outcome = "mode"

\* While candidates of an older route are being tried or served, a token waits in
\* modeCh or a SetRouteConfig call has yet to send one: no route change is lost,
\* however the calls interleave with the supervisor (manager.go:850-870, 431).
NoLostRouteChange ==
  route = selected \/ Reselects \/ modeCh
    \/ \E s \in Setters : setter[s].at # "idle"

\* A refresh request that makes TriggerFetch ignore later ones has its token, or is
\* about to send it: also while a node is served and nobody listens, and although
\* Run clears the flag without draining the channel (manager.go:178-190, 250, 427).
NoLostRefresh ==
  refreshReq => refreshCh \/ pc = "done" \/ \E r \in Refreshers : refresher[r] = "send"

\* The running process never leaves a ban on disk that it does not hold in memory:
\* what blacklist.json has beyond memory is only what the last start failed to read.
\* So a restart brings back no node that was restored (manager.go:634-637, 766-774).
DiskNeverRunsAhead ==
  [][restarts' = restarts =>
       diskBlacklist' \ blacklist' \subseteq diskBlacklist \ blacklist]_vars

\* The abstract service: boot, waits and the choice of a candidate are "free".
Phase ==
  CASE pc \in Attempting -> "trying"
    [] pc = "monitor" -> "serving"
    [] pc \in Leaving /\ outcome = "failed" -> "condemned"
    [] OTHER -> "free"

Service == INSTANCE NodeService
  WITH phase <- Phase,
       subject <- IF Phase = "free" THEN None ELSE node,
       banned <- blacklist,
       forgotten <- diskBlacklist \ blacklist

\* Every candidate tried ends up banned or, by a route change only, released; no
\* node banned in memory that cannot be locked is tried; a restart, which may fail to
\* read blacklist.json, adds no ban that neither memory nor the file held
\* (connectLoop, markBlacklisted, RestoreAvailableBlacklist, loadBlacklist).
ImplementsNodeService == Service!Spec

\* The tunnel at hand.  A container's egress is always open; a host's is left open
\* only if Run was cancelled between two initial probes.
Stage ==
  CASE pc = "handshake" -> "connecting"
    [] pc = "configure" -> "connected"
    [] pc \in {"settle", "probe", "retry"} -> "open"
    [] pc = "monitor" -> "serving"
    [] pc = "clear" -> "leaving"
    [] pc = "stop" -> "closing"
    [] OTHER -> IF HostMode /\ ready /\ ctxDone THEN "over" ELSE "free"

Child == CASE tun = "none" -> "none" [] tun = "up" -> "running" [] OTHER -> "dead"

Contract == INSTANCE TunnelService
  WITH Guarded <- HostMode, stage <- Stage, child <- Child, open <- ready

\* Whatever path connectAndVerify, monitor and connectLoop take, openvpn is started
\* only after the last one was reaped and the egress closed, the egress opened only
\* after the handshake and closed before openvpn is stopped (manager.go:348-456).
ImplementsTunnelService == Contract!Spec

-----------------------------------------------------------------------------
(* Liveness                                                                 *)

\* The supervisor goroutine runs, and a select that keeps finding the same
\* channel ready eventually takes it (Go picks among ready cases at random); a
\* SetRouteConfig call that has begun is completed by its goroutine.
Fairness ==
  /\ WF_vars(RunNext)
  /\ WF_vars(MonitorModeChanged) /\ WF_vars(MonitorCancelled)
  /\ \A s \in Setters : WF_vars(SaveRoute(s)) /\ WF_vars(WakeSupervisor(s))

FairSpec == Spec /\ Fairness

\* A route change takes effect: candidates are selected under it, unless it is
\* overtaken by another one, or the process ends (SetRouteConfig, 832-833).
RouteChangeHeeded ==
  \A r \in Routes : route = r ~> (selected = r \/ route # r \/ pc = "done")

\* Once ctx is cancelled Run returns, wherever it stood (227), unless the
\* process is restarted first.
ShutdownCompletes == ctxDone ~> (pc = "done" \/ ~ctxDone)

\* "A fixed node that remains unavailable is retried indefinitely": while the
\* route locks n and every pool offers it, n is tried again and again, or served
\* for good, although it is blacklisted.
LockedNodeRetried ==
  \A n \in Nodes :
    <>[](route.mode = "fixed" /\ Matches(n, route)) =>
      \/ []<>(pc = "attempt" /\ node = n)
      \/ <>[](pc = "monitor" /\ node = n)
      \/ <>(pc = "done")

-----------------------------------------------------------------------------
(* What comments and the README say, and the code does not do               *)

\* "Run is the supervisor loop. It blocks until ctx is cancelled." (227)
RunBlocksUntilCancelled == [][pc # "boot" /\ pc' = "done" => ctxDone]_vars
=============================================================================
