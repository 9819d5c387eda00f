# conduitvpn: models, checks and proofs

conduitvpn is one Go process that fetches public VPN Gate nodes, connects one of
them with openvpn, verifies it, and offers it to the outside as an HTTP/SOCKS5
proxy.  This directory holds TLA+ models of the parts of it whose correctness
depends on concurrency, failures and ordering, the TLC runs that check them, and
TLAPS proofs of what matters most.  Paths below are relative to the repository
(`manager.go` is `internal/manager/manager.go`, and so on).

    tlc  -workers 2 -config SupervisorSafety.cfg MCSupervisor.tla
    tlapm SupervisorProofs.tla

Contents: 1 the system, 2 the modules, 3 the runs, 4 fairness, 5 the proofs,
6 where code and documents disagree, 7 what is not modelled, 8 plan.

## 1. The system

### Components, their state and their operations

| Component | State | Operations | What makes it correct |
|---|---|---|---|
| Supervisor, `manager.go` 40-457, 740-885 | node pool, candidates, current tunnel, route, blacklist, channels `refreshCh` and `modeCh` of capacity 1 | `Run`, `fetchAndBench`, `connectLoop`, `connectAndVerify`, `monitor`, `stopTunnel`, `SetRouteConfig`, `TriggerFetch`, `markBlacklisted`, `wait` | no openvpn process is abandoned; the egress follows the tunnel; a route change is never lost and eventually heeded; no step writes a ban that memory does not hold; shutdown ends |
| Egress controller, `egress.go`, `egress_linux.go` | device, ready flag; in the kernel one policy rule and one table | `Configure`, `Clear`, `DialContext` | while ready, marked sockets are routed into the current tunnel; a dial leaves it only if the tunnel is torn down under it; the next tunnel finds it closed, and in the kernel only what a clean-up command failed to remove |
| Tunnel, `tunnel.go` | openvpn process, its pipes, event queue (128), handshake token | `Start`, `scan`, `wait`, `WaitHandshake`, `Stop` | the handshake is not lost in a full queue; a queued exit ends the service; `Stop` returns, with the process reaped |
| Blacklist verification, `manager.go` 513-738 | job status and results, a second openvpn, its route and files | `StartBlacklistTest`, `runBlacklistTest`, `verifyBlacklistedNode`, `RestoreAvailableBlacklist` | one job at a time; results add up; every deferred call of a verification is made; nothing is restored that was blacklisted meanwhile |
| Proxy server, `proxy/*.go` | listener, semaphore of slots, per connection: buffer, deadline, upstream, two copiers | accept loop, `handle`, SOCKS5 and HTTP handshakes, `relay`, `Close` | a slot is held exactly while its handler lives; a stalled client is cut off, a healthy stream is not; an end of stream never overtakes data |
| sing-box runner, `upstream/singbox.go` (also used by `hy2/hy2.go`) | command, context | `StartRunner`, `StartRunnerUDP`, `spawn`, `waitReady`, `watch`, `Stop` | at most one process; a failed start leaves none; an exit is noticed; `Stop` returns |
| State store, `state/store.go` | `nodes.json`, `blacklist.json`, `route.json`, `ui_auth.json` | `writeJSON` and its callers, `EnsureAuthConfigured`, `SecretPath` | no half-written file; the console's password and path survive every restart |
| Process, `cmd/conduitvpn/main.go` | signal context, order of start and end | `main` | no listener beyond loopback that the configuration and the stored login do not guard; a signal ends it; it leaves no sing-box behind |
| Configuration, `config/config.go` | none | `Validate` | what it refuses is never served |
| Upstream of node fetching, `upstream/upstream.go`, `subscription.go` | the sing-box of the fetch | `Start`, `Stop` | the upstream is resolved as configured or not at all |
| Node pool, `vpngate/`, `node/`, `benchmark/`, `manager.go` 287-317 | candidates, `nodes.json` | `fetchAndBench`, `Parse`, `ValidateOpenVPNProfile`, `benchmark.Run` | offered nodes are measured and pass the second validation; a fetch ends |
| Log bus, `logx/logx.go` | ring, subscribers | `emit`, `Subscribe`, `Recent` | a slow reader never blocks the daemon; it sees lines in order and misses one only after its channel was full |
| Web console, `webui/webui.go` | sessions, login throttle, slots for log streams | `apiLogin`, `apiLogout`, `isAuthorized`, `apiLogStream`, handlers over the manager | room is refused only while all sessions are in use; slots and subscriptions come back; its other calls are the callers in Supervisor and BlacklistTest |
| Container routing, `netfix/netfix.go` | none | one fixed sequence of commands | sequential |

### Interaction

`main` validates the configuration, starts the hysteria2 inbound, the proxy and the
console, and blocks in `Manager.Run`, which starts the upstream of node fetching; when
that returns the deferred calls undo the start and the process ends, whatever other
goroutines are doing.  A start that fails ends with `os.Exit`, which undoes nothing.  The supervisor drives one `Tunnel` and
the `Egress` controller strictly in sequence: start, handshake, `Configure`,
probes, monitor, `Clear`, `Stop`.  The proxy's handlers, the health prober and the
resolver dial through the same controller at any time.  The console's handlers
call into the manager from goroutines of their own: they change the route under
`modeMu`, save it, and put a token into `modeCh`; they put a token into
`refreshCh`; they start a verification job and restore nodes.  A verification job
uses a second `Tunnel` and a policy rule of its own beside the supervisor's.
Everybody saves through the store, which has no lock.

### Hard behaviours

Three goroutines touch a route change and one of them sleeps; channels of
capacity 1 drop a send when they are full; `connectAndVerify` has ten ways out
and a process to stop on each; the kernel's routing state outlives the program;
openvpn may ignore SIGTERM, exit at any moment, or write faster than anyone
reads; a verification runs while the list it verifies changes; a relay has four
half-streams ending in any order; clean-up commands fail and nobody looks; a log stream's browser stalls or
vanishes while everybody logs; a respawn races with `Stop`; a signal meets any step of
the start; a start may be killed between any two writes of the credentials; workers
measure nodes that are cancelled under them and saved after them.  `PROJECT.json` lists these
hazards at their lines, with the properties aimed at each.

## 2. The modules

| Module | Models | MC module | Proofs |
|---|---|---|---|
| `NodeService` | abstract: what the supervisor promises about nodes | via `Supervisor` | |
| `TunnelService` | abstract: what is promised about one tunnel after another and its egress | via `Supervisor` and `Gateway` | |
| `Supervisor` | the supervisor loop and the goroutines around it; implements `NodeService` and `TunnelService` | `MCSupervisor` | `SupervisorProofs` |
| `Tunnel` | one openvpn process with scanner, reaper and owner | via `Gateway` | |
| `Egress` | controller, kernel routing, concurrent dials | via `Gateway` | |
| `Gateway` | `Tunnel` and `Egress` composed: one tunnel after another under the supervisor's calls; implements `TunnelService` | `MCGateway` | `GatewayProofs` |
| `BlacklistTest` | verification jobs and restoring | `MCBlacklistTest` | `BlacklistTestProofs` |
| `ProxyServer` | accept loop, handlers, relays | `MCProxyServer` | `ProxyServerProofs` |
| `Runner` | sing-box with watch and `Stop` | via `Daemon` | |
| `Daemon` | `Runner` composed with `main`, the configuration and the upstream: one life of the program after another | `MCDaemon` | `DaemonProofs` |
| `StateFiles` | `writeJSON` and the credentials at start-up | `MCStateFiles` | `StateFilesProofs` |
| `NodePool` | fetch, profile validation, benchmark, `nodes.json` | `MCNodePool` | `NodePoolProofs` |
| `Console` | the console's logins, sessions and log streams, with the log bus | `MCConsole` | `ConsoleProofs` |

Each component has a program counter per goroutine and one action per stretch of
code between two points where another goroutine can see or change something: a
lock section, a channel operation, a system call with an outcome of its own.  The
tables of `PROJECT.json` ("map") give the lines of every definition.  Definitions
named `Action_Something` beside an action are plausible bugs of it; they are not
part of the specification and serve to show that each property can fail.

**Supervisor.**  `pc` is the place in `Run`: `LoopHead`, `FetchDone`, `Select`,
the waits (`WaitElapsed`, `WaitAborted`), `connectLoop` (`TakeCandidate`,
`AskFixed`, `Mark`, `GiveUp`), `connectAndVerify` (`StartTunnel` to
`RetryCancelled`), `monitor` (`Monitor*`) and the two halves of `stopTunnel`.
`modeCh` and `refreshCh` are Booleans: channels of capacity 1 with a non-blocking
send.  `SetRouteConfig` is three actions (memory, file, token), since the code
releases `modeMu` between them.  The pool of a fetch, the outcome of a handshake, a probe or a save, an
exit of openvpn, a signal and a restart are choices, and so is what a start can read of route
and blacklist: an unreadable route falls back to the environment, an unreadable blacklist leaves
memory empty while the file keeps its bans.  A node is a model value with
the names a fixed route may use and a country; latency ordering is the order of
the pool.  In `NodeService` a node is tried, served, condemned, banned or
released; the mapping reads `pc`, `node` and the blacklist, and takes for `forgotten` what the file
holds beyond memory.

**Egress.**  `Configure` is device check, `clearHostRoute` (`DeleteRule`, `FlushTable`), table, rule,
publication of `ready`; `Clear` is unreadiness and `clearHostRoute`.  Each `ip` command may fail;
the errors of those that clear are ignored, as in the code, and the history variable `leftover` remembers
what such a command left in place.  A dial reads `ready` and the device in
`control` and connects in a later step.  The kernel is external: a marked socket
is looked up in the table if the rule is there and the table has a route, in the
main table otherwise, and a device that disappears takes its routes with it.

**Tunnel.**  The scanner classifies lines into the bounded queue and the
handshake channel; the reaper waits, publishes the exit and closes `exitCh`; the
owner follows `connectAndVerify`, and may stop at every step, as
`verifyBlacklistedNode` does.

**Gateway.**  Extends both and adds one variable, the failures `monitor` has counted.
Each action conjoins what `connectAndVerify`, `monitor` or `stopTunnel` does to the
one with what it does to the other.  Two choices the parts leave open are settled: a
device exists as long as its openvpn runs, and a probe may answer if openvpn runs or the
marked socket takes the main table.  An openvpn of a killed daemon may run on.

**TunnelService.**  What `Supervisor` takes for granted when a tunnel and its egress are one
step each, and what `Gateway` shows step by step: openvpn is launched only when the last one has
been reaped and the egress is closed, the egress is opened only after the handshake, only an
open one is served, and it is closed before openvpn is stopped.  `Supervisor` maps `pc` to the
stage of the tunnel at hand; `Gateway` maps the place of the egress and that of the owner,
and counts a process as over only once it is reaped and `Stop` has returned.  The stage "over" is a shutdown
between two initial probes, which skips the closing and after which nothing is launched.
A container has no egress of its own to close: there `Guarded` is false.

**BlacklistTest.**  Jobs walk over the hosts blacklisted when they were launched;
each verification takes files, process and policy rule and gives them back in the
deferred order.  Deleting the rule and the files may fail unnoticed; `litter` remembers it.  The
process may end at any step, which removes goroutines and leaves processes, rules and files.

**ProxyServer.**  A byte stream is a number of chunks; per direction `sent`, `got`
and whether the end was sent and passed on.  Reading the request buffers what
came with it.  All three kinds (SOCKS5, CONNECT, forwarding) share accept loop, slots and deadline.

**Runner.**  Processes are numbered.  `spawn` is two steps, `cmd.Start` (`Launch`) and the store into
`r.proc` (`Record`), between which the new process runs and `r.proc` is the old command; `StopRead`, `StopKill`, `StopWait` and
`WatchRead`, `WatchWait`, `WatchCheck`, `WatchSpawn`, `WatchRecord` interleave as the lock allows.  `orphan`
is a sing-box of an earlier life, which answers a TCP probe like one's own.

**Daemon.**  `main` is a place in `main()` or in `Run` up to its loop; the rest of `Run` is
`Supervisor`.  A step of the start succeeds, or fails and exits.  `Validate` is over the
settings that interact; the ports and limits it checks one by one are one Boolean.  `stored` is the
class of the console's password in the data directory, kept from life to life and changed by
`EnsureAuthConfigured` (`Login`) and a failing `SecretPath`.  A
subscription is a sequence of nodes and of what `filterNodeOutbounds` and
`parseSubscription` leave out, collected entry by entry (`Kept`).  A life with both a hysteria2 inbound and an upstream has two
sing-box processes; the runner is then the first, and the second only its outcome.

**NodePool.**  A profile is the sequence of the classes of its lines, since the decision of
`ValidateOpenVPNProfile` depends on a line's class and on the block around it (`Reading` is its
loop over the lines).  A line of a block may end in carriage returns or hold bytes that are no UTF-8:
`ReplaceAll` (`LF`) takes one of the former off, and `Save` (`InJSON`) puts the three bytes of U+FFFD for
each of the latter.  A row has what
`Parse` and `SortByScore` read.  `jobs` is unbuffered, so that a send is one step with
its receipt.  `Save` is one step: `StateFiles` has its parts.

**StateFiles.**  `writeJSON` is create, fill, rename, chmod or remove, each of
which may fail; the error of removing is dropped, so a temporary file may stay, and so may one after a
crash.  Several goroutines may write the same file.  The content of
`ui_auth.json` is path, legacy password, and the password its hash was made of.  Only
the process crashes; a machine that loses an unsynced rename is out of scope.

**Console.**  `session` is the map of tokens with time reduced to what it does: `Elapse`
expires sessions and lets blocks lapse.  A login is three critical sections
(`LoginStart`, then `LoginFails`, or `LoginPasses` and `Grant`).  `apiLogStream` is slot,
subscription, then writes and selects until the request's context is done, and the two deferred calls in
reverse order; `emit` is one action, since one lock covers all subscribers.  A log line is its number; a channel
is everything put into it and how much of that was taken.

## 3. The runs

Passing runs.  Every bound is a constant of the `.cfg`.

| Run | Shows | Bounds, and why they suffice |
|---|---|---|
| `supervisor_safety` | `DiskNeverRunsAhead`, `NoLostRouteChange`, `ImplementsNodeService`, `ImplementsTunnelService` | 2 nodes: one to fail and one to go on to; 2 concurrent route callers, enough for one to send a token between two steps of another; 3 valid routes, of all modes, and 3 invalid ones; 1 retry of the initial probe, 1 failing probe (2 in the next run); 1 shutdown and 1 restart; saves and loads may fail |
| `supervisor_liveness` | `NoLostRefresh`, `RouteChangeHeeded`, `ShutdownCompletes`, `LockedNodeRetried` | 1 caller, container mode, saves succeed; 2 failing probes, so that a node with one failure may recover for ever; refresh requests without end |
| `gateway` | `HandshakeNotLost`, `RoutedWhileReady`, `ClearedBetweenTunnels`, `DialLeavesOnlyTornDownTunnel`, `ImplementsTunnelService`, `StopReturns`, `ExitHeeded` | 2 devices, so that the next tunnel may reuse or change the device; a queue of 1 instead of 128 and 2 lines, so that it is full when the handshake or the exit comes; a pipe of 1; 1 dial; 2 failing probes; every `ip` command may fail; crashes at every step and any number of tunnels |
| `blacklist_test` | `Accounted` (with `OneJob`), `ProbeCleanedUp`, `NewcomersKept`, `JobFinishes` | 2 callers, 2 hosts, 2 jobs: a second job while hosts come and go; a pool with both hosts or with one; 1 restart; loads, saves and clean-up may fail |
| `proxy_server` | `SlotsMatchHandlers`, `EndFollowsData`, `ResponseComplete`, `NothingStuck` | 2 connections for 1 slot, so that one is rejected or admitted after a release; 2 chunks per direction |
| `daemon` | `OneProcess`, `ServesGuarded`, `ResolvesAsConfigured`, `EndsClean`, `SignalHeeded`, `StopReturns`, `ExitIsNoticed` | 3 spawns in a life: start, restart, and the restart after it while stopping; every mode, every reason to be refused, every set of sources and every class of stored login; subscriptions of none, 2 and 3 nodes; indices from -2 to 1; any number of lives |
| `state_files` | `NeverTorn`, `ServesConfigured`, `AccessKept` | 2 writers of one file beside the start; 2 passwords (stored and configured); 2 secrets; any number of crashes |
| `console` | `StreamsAccounted`, `GapsOnlyWhenFull`, `RefusedOnlyWhenFull`, `StreamEnds` | 2 handlers for 1 session and 1 slot, so that each is refused and admitted after the other; a channel of 2 and 4 lines, so that it fills up and has a gap; the code's 5 login failures |
| `node_pool` | `UsableAgain`, `Measured`, `FetchReturns` | 2 workers; one row with each profile of up to 3 lines (an in-block or blank line in every place) or one of 13 others: up to and past the size limit of 11, with one or two carriage returns (no more), with bytes that grow when saved; answers of up to 4 rows, with equal scores and more than the 2 kept; cancellation and the end of the process at every step |

Types are proved for every value of the constants (the theorems `Typing`) and are not
checked again.  Nor are `NoAbandonedTunnel`, `EgressFollowsTunnel` and `StoppedIsReaped`: a step
that breaks one of them is no step of `TunnelService`, and they are proved as invariants of their own.  Deadlock is checked everywhere except in `proxy_server` (after `Close` the
finitely many connections come to their end).

Runs that refute a documented claim: `run_returns_on_refresh`, `stop_leaves_singbox`,
`exit_unnoticed`; see section 6.

## 4. Fairness

Weak fairness, and strong fairness of one case of a `select`.

- Supervisor: the supervisor's goroutine runs (`RunNext`).  `WF` of
  `MonitorModeChanged` and `MonitorCancelled` on their own: Go's `select` chooses among
  ready cases at random, so a case that stays ready is not passed over for ever.  A
  begun `SetRouteConfig` is completed.  Nothing makes a user act, a node fail or openvpn exit.
- Gateway: scanner, reaper and `Stop` run, timers fire, `monitor` probes time and again (its ticker)
  and takes an event that is queued; a process killed with SIGKILL dies; one that got SIGTERM need not.
- BlacklistTest: the goroutine of a job runs; its waits carry timers.
- ProxyServer: goroutines run and deadlines pass; no peer has to write, close or
  accept anything.
- Daemon: `main` and the runner's goroutines run, a killed process dies, and `Run` returns once it is
  cancelled (`ShutdownCompletes` of Supervisor).  sing-box need not exit, no signal need come, and an
  uncancelled `Run` need not return.
- NodePool: the client's timeout ends a fetch and the dialer's a probe; feeder and workers run.
- Console: a streaming handler runs, its writes end once the browser is gone, and a `select`
  in which `Context().Done()` is ready, time and again, takes that case at last (`SF` of `Done`):
  ticks and lines may be ready each time too, but the choice is random.  No browser has to log in, read or leave.

StateFiles has safety properties only.

## 5. The proofs

All theorems hold for every value of the constants under the named assumption of
the module (sets of the right kind, positive capacities).  Each follows the same
argument: a strengthening is shown to hold initially and to be kept by every
action, one step per action.

- `SupervisorProofs`.  `Typing` is itself inductive: its last conjuncts say that a
  node is at hand wherever `connectLoop` works on one.  `EgressSafety`: `EgressInv`
  adds where a tunnel and a ready egress are at all possible, by `pc`.
  `RouteSafety`: `RouteInv` adds that only a failure leads to `Mark`; the route
  that candidates were selected under differs from the current one only if a token
  is in `modeCh` or a caller is still going to send it.  `RefreshSafety`: `NoLostRefresh` is
  inductive as it stands, because a token is only taken where `Run` returns.  `DiskSafety`: the saved blacklist only
  shrinks after memory did and only grows after memory did, so that no step but a restart adds to what the
  file holds beyond memory.  `ServiceRefinement`: initial states map to initial
  states and each step to a step of `NodeService` or a stutter (`ServiceStep`); a restart that cannot read the
  blacklist is the abstract `Reset` that forgets bans, and it can bring back only those.
  `TunnelRefinement`: the same for `TunnelService` (`ContractStep`); `AbandonInv` adds that a host's
  egress is left open without a tunnel only by the cancelled wait between two probes, from where
  `connectLoop` goes on to return.
- `GatewayProofs`.  `IInv` relates owner, reaper and process of the tunnel; says for each place in
  `Configure` and `Clear` what the kernel holds; and says which places of the one go with which
  of the other, without which a stopped tunnel need not have closed its controller.  From it
  `StopReaps`, `HandshakeKept`, `ReadyIsRouted`, `NextFindsCleared` and the action property
  `DialStaysInTunnel`, for any queue, output, devices and dials.  `TunnelRefinement` maps each
  step to one of `TunnelService` or a stutter; `StopAfterClear` adds that `Stop` is under way only after
  `Clear`, or beside an egress that a cancelled probing left open.  `StopNeverStuck`: past its grace period `Stop` waits
  for a process that was killed or has exited, or for a reaper that has nothing to wait for.
- `BlacklistTestProofs`.  `JobInv`: at most one job is active, and the published list
  is its list; giving `Serial`, `Accounting`, `Typing`.  `NewcomerInv`: a result can be
  "passed" only for a host of the job's snapshot; giving `NewcomersStay`.
  `HoldInv`: what a job holds at each `pc`, and that a rule without its tunnel is one a command failed to
  delete (`litter`); giving `CleanedUp`.
- `ProxyServerProofs`.  `SlotInv` counts handlers (`FS_...` theorems on
  cardinality), giving `SlotsAccounted` for any set of connections; `StreamInv` with `EndInv` per
  direction gives `StreamsComplete` for streams of any length, and with it `NobodyUntimed`: who reads from a
  client that has not made its request has a deadline, and the accept loop looks for a slot only with a
  connection in its hands.
- `DaemonProofs`.  `RunnerInv` ties process, `Runner.proc` and the places of the three
  goroutines, and every step of the program is a step of the runner (`RunnerPart`); giving
  `OneSingBox`, with the gap between `cmd.Start` and `r.proc = cmd` in view.  `MainInv`: past `validate` the
  configuration is a valid one, and past `prepare` the stored login is what `Login` left (`ConsoleGuarded`); giving `Guarded`.
  `EndInv` adds where the runner stands at each place of `main`; giving `LeavesNoSingBox`.
  `StopNeverStuck`: what `Stop` waits for has exited or was killed, also if watch spawned meanwhile, for a new
  process has a number of its own.  `FetchInv` (the fetch goes over what the first configured source
  names, and a subscription's entry is the one `Kept` has at the index) gives `ResolvedAsConfigured`.  It rests on lemmas on `Kept` for
  subscriptions of any length: what it collects are the positions of the nodes, in order (`AllCollected`), and as
  many stand before one of them as its place says (`NodesCounted`, `NodesAfter`).
- `NodePoolProofs`.  `PoolInv`: a candidate that was sent is measured or in one worker's hands, and
  a worker leaves only with empty hands and after the last job; giving `OfferedAreMeasured`, `DialledOnce` and
  `FeederNeverStuck`.  `OfferedPassAgain`, for profiles of any length, rests on two inductions over the lines: the reading
  of the kept lines ends where the reading of all lines does (`ReadKeeps`), and a change of block lines that
  leaves directives and tags alone, as `LF` and JSON make it, commutes with reading (`ReadChanged`, `EachRead`).  `BestFirst`:
  the candidates are the accepted rows with the best scores, best first, and no row twice.
- `StateFilesProofs`.  `TempInv` (what is renamed is whole, and no step writes to a file but by
  renaming) gives `FilesWhole`.  `AuthInv` says that what a start is about to write
  completes what is in the file, and holds until `SecretPath` fails to read
  (`unread`); giving `CredentialsKept`.
- `ConsoleProofs`.  `SessionInv` (a token in the map has been drawn, so that a login adds one; the map
  stays within `MaxSessions`) gives `RoomUsed`; `StreamInv` counts the handlers that hold a slot and gives
  `StreamsKept`; `LogInv` adds to the order of each channel that its last line is the latest
  unless it was full, without which the next line could open a gap, and gives `LogInOrder`.

`Typing` of each module is part of its strengthening, or is proved beside it.

Lemmas about recursive functions over data (`Kept`, `Reading`) need induction, and the library's
induction theorems take an operator as their parameter, which the provers at hand cannot
instantiate.  The two modules therefore prove induction for a set of numbers
(`LeastElement`, `Induction`, from the well-foundedness of the natural numbers) and instantiate that.
That such a function exists at all is shown the same way (`CollectsExists`, `UnrolledExists`).

Model-checked only: the liveness properties, since fairness and `ENABLED` are out of the prover's
reach: `RouteChangeHeeded`, `ShutdownCompletes`, `LockedNodeRetried`, `StopReturns` (of Gateway and of
Daemon), `ExitHeeded`, `JobFinishes`, `NothingStuck`, `SignalHeeded`, `ExitIsNoticed`, `StreamEnds` and
`FetchReturns`.  For some of them the half that is a safety property is proved: `NoLostRouteChange` and
`NoLostRefresh`, `StopNeverStuck`, `NobodyUntimed`, `FeederNeverStuck` say that whoever waits has
something to wait for.  Every invariant and every refinement the runs check is also proved.

## 6. Where code and documents disagree

Checked by a run that finds the counterexample:

1. `run_returns_on_refresh`: `manager.go`:227 "It blocks until ctx is cancelled."  A refresh
   request met in `wait` makes `Run` return, and with it the process end (257-259).
2. `stop_leaves_singbox`: `singbox.go`:156 "Stop terminates sing-box."  With `Stop` between the
   end of watch's back-off and `spawn`, watch starts another one (149).
3. `exit_unnoticed`: `manager.go`:414-415 "N consecutive failures or an unexpected openvpn exit
   drift."  The exit event is dropped when the queue is full (`tunnel.go`:319), nobody reads the queue
   between the handshake and `monitor`, and without the device the probes take the main table
   and may answer.

Known divergences that the models contain as behaviours and no run refutes:

- The fixed node is blacklisted like any other (`manager.go`:333, 343), against 321-322 "The fixed-mode
  node is never blacklisted"; it is only exempt from being skipped while the route is fixed to it.
- Any listener on its port makes a sing-box ready (`singbox.go`:113), against 29 "waits until its listener is
  ready": with one of a killed life there, its own has exited and nodes are fetched through the earlier
  configuration's node.  `ResolvesAsConfigured` is about what `Run` decided, not about who answers.
- A blacklist that cannot be read or decoded leaves memory empty while the file keeps its bans
  (`manager.go`:740-746): its nodes are tried again, and a later start that can read the file bans them again,
  unless a save has overwritten it.  `NodeService` has this as forgotten bans.
- The errors of the `ip` commands that clear (`egress_linux.go`:35-39, 97-104) and of `os.Remove`
  (`manager.go`:734-737, `store.go`:330) are dropped: a rule, a route or a file may stay, and a crash leaves
  temporary files.  `ClearedBetweenTunnels` and `ProbeCleanedUp` are stated up to commands that failed.
- A cancellation between two initial probes stops the tunnel and leaves the egress open (398).
- In auto mode the node of an earlier fixed route is still retried while blacklisted (818).
- A refresh is not heard while a node is served (427), against 178.
- Two route changes may reach memory and disk in different orders (854).
- `README.md`:89 promises a default route "protected from proxy leakage while the tunnel is
  unavailable"; a marked dial that was admitted falls through to the main table once the device or
  the rule has gone (`egress.go`:93).  `DialLeavesOnlyTornDownTunnel` says when this can happen.
- A verification's openvpn outlives the process (`manager.go`:551); its probe is only marked and
  may answer over the default route after its tunnel died (`egress_linux.go`:64); a node that failed
  again after it passed is restored by the old result (`manager.go`:622).
- What a client wrote behind its request may stay in the request's buffer and is then not relayed
  (`http.go`:47, `socks5.go`:84).
- A relay lingers for as long as its target is silent (`relay.go`:28).
- Watch ends when one respawn fails (`singbox.go`:151), and a UDP inbound that already exited counts as
  ready (107), against 51-53.
- Demo mode serves the console with a short password, "demo" if none is set (`main.go`:66), and a short
  password of an older release is migrated as it is (`store.go`:202).  `ServesGuarded` is stated without the two.
- `Runner.Stop` waits with `Process.Wait` beside watch's `Cmd.Wait` (`singbox.go`:137, 164).  That both
  return when the process has gone is taken from the os package; the models do not look inside it.
- An answer that is not a list, or has no usable row, leaves no candidates; the second also
  overwrites `nodes.json`; only a failed fetch falls back to it (`manager.go`:302-316).
- A cancelled benchmark saves the remaining nodes as tested and unreachable (`benchmark.go`:48).
- A validated profile may be too long for the second validation: the line feed at its end may be the
  one byte too many (`vpngate/parse.go`:91, 148), and JSON has three bytes for each byte of a block that is no
  UTF-8 (`store.go`:314), so that a large one cached in `nodes.json` may be refused (`manager.go`:483).  A block line that
  ends in two carriage returns loses one at each validation (97, 112).  `UsableAgain` is stated up to these.
- A record of failed logins starts again with every failure, for the zero time of a record without a
  limit lies in the past (`webui.go`:402): with a limit above 1 the count stays at 1.
- One failing read in `SecretPath` replaces the stored credentials (`store.go`:255).  The
  credential properties are therefore stated up to such a failure.

Outside the models: nothing is synced before a rename (`store.go`:342); `MaxScanRows` is not
validated, so that 0 empties the pool and a negative number panics (`manager.go`:308); a share link's
TLS and port follow `upstream/parse.go` (350: "trojan implies TLS", unless the link names no security and no sni);
the SOCKS5 client of the fetch reads without a deadline (`vpngate/upstream.go`:98-114, 150-177); each
fetch's client may keep an idle connection (28).

## 7. Not modelled

Share links (`upstream/parse.go`), rendering of configurations and certificates, TLS and HTTP,
the SOCKS5 client of the fetch, CSV columns and the address a node is dialled at, hashing, logging text and
the browser code: sequential, and their results enter the models as choices.  The measured
latency does not influence the choice of nodes (`TopByLatency` is not called).  Demo mode ends at
the console in Daemon.  macOS egress binds sockets and keeps no routing state.  Reuse of process numbers
and the race detector's view of `m.current` (355) are below the granularity of
the models.  `netfix` runs a fixed list of commands once; its failure is only logged.

## 8. Plan

Order so far: Supervisor with NodeService, Egress and Tunnel, BlacklistTest, ProxyServer,
Runner, StateFiles, Console, the compositions Gateway and Daemon, the node pool, and TunnelService,
each with its proofs.  Next:

1. `Console` against an abstract lossy, ordered log; the ring behind `Recent` beside the subscription.
2. `StateFiles` against an atomic register per file, which Supervisor and NodePool assume when they save in one step.
3. `BlacklistTest` against `TunnelService` for the verification's own tunnel.
4. The SOCKS5 client of the fetch with its missing deadline, composed with NodePool.
5. Share links as pure operators, where a rule relates several of their fields.
