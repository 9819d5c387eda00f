--------------------------------- MODULE Runner ---------------------------------
(***************************************************************************)
(* The supervisor of a sing-box subprocess (internal/upstream/singbox.go),   *)
(* as the upstream of node fetching and the hysteria2 inbound use it:        *)
(* StartRunner / StartRunnerUDP, the watch goroutine that restarts sing-box, *)
(* and Stop, which runs when the owner gives up or the program ends.  Who    *)
(* calls them, and when, is in Daemon.                                       *)
(*                                                                          *)
(* External: a spawned process runs until it exits by itself or is killed.   *)
(***************************************************************************)
EXTENDS Naturals, FiniteSets

CONSTANT MaxSpawns   \* bound: processes spawned in one life of the runner

ASSUME RunnerAssumption == MaxSpawns \in Nat \ {0}

VARIABLES
  udp,     \* Runner.udp
  ctx,     \* Runner.ctx is cancelled
  owner,   \* the goroutine in StartRunner and later in Stop
  proc,    \* Runner.proc: the number of a process, 0 for nil
  spawned, \* processes spawned so far
  up,      \* numbers of the processes that run
  killed,  \* numbers of the processes that were sent SIGKILL
  waited,  \* numbers of the commands whose ProcessState is set, by Cmd.Wait
  watch,   \* where the watch goroutine stands, and the process it read
  target,  \* the process Stop read
  orphan   \* a sing-box of an earlier life of the program has the listener's port

runnerVars == <<udp, ctx, owner, proc, spawned, up, killed, waited, watch, target, orphan>>

Procs == 1 .. MaxSpawns
Watcher(s, p) == [step |-> s, proc |-> p]

RunnerInit ==
  /\ udp \in BOOLEAN /\ ctx = FALSE /\ owner = "check"
  /\ proc = 0 /\ spawned = 0 /\ up = {} /\ killed = {} /\ waited = {}
  /\ watch = Watcher("none", 0) /\ target = 0 /\ orphan \in BOOLEAN

-----------------------------------------------------------------------------
\* spawn: cmd.Start has made a process, of which r.proc knows nothing yet, or an
\* error is returned.
Launch ==
  /\ spawned < MaxSpawns /\ spawned' = spawned + 1
  /\ up' = up \cup {spawned + 1} /\ proc' = proc

NoSpawn == UNCHANGED <<spawned, up, proc>>

\* Then the command is stored in r.proc, under the lock.
Record == proc' = spawned /\ UNCHANGED <<spawned, up>>

(* StartRunner and StartRunnerUDP                                           *)

\* `sing-box check` accepts the configuration, or Start returns its error.
CheckConfig ==
  /\ owner = "check" /\ owner' \in {"spawn", "failed"}
  /\ UNCHANGED <<udp, ctx, proc, spawned, up, killed, waited, watch, target, orphan>>

StartSpawn ==
  /\ owner = "spawn"
  /\ \/ Launch /\ owner' = "record"
     \/ NoSpawn /\ owner' = "failed"
  /\ UNCHANGED <<udp, ctx, killed, waited, watch, target, orphan>>

StartRecord ==
  /\ owner = "record" /\ Record /\ owner' = "await"
  /\ UNCHANGED <<udp, ctx, killed, waited, watch, target, orphan>>

\* One probe of waitReady succeeds: somebody's TCP listener answers, or, for a UDP
\* inbound, r.proc has no ProcessState.
Alive == IF udp THEN proc # 0 /\ proc \notin waited ELSE proc \in up \/ orphan

\* Start returns the runner and leaves the watch goroutine behind.
Ready ==
  /\ owner = "await" /\ Alive
  /\ owner' = "up" /\ watch' = Watcher("read", 0)
  /\ UNCHANGED <<udp, ctx, proc, spawned, up, killed, waited, target, orphan>>

\* Mutant: the error path of waitReady forgets r.Stop.
NotReady_NoStop ==
  /\ owner = "await" /\ owner' = "failed"
  /\ UNCHANGED <<udp, ctx, proc, spawned, up, killed, waited, watch, target, orphan>>

\* waitReady ran into its timeout, or the context was cancelled: r.Stop, then
\* the error.
NotReady ==
  /\ owner = "await" /\ owner' = "undo"
  /\ UNCHANGED <<udp, ctx, proc, spawned, up, killed, waited, watch, target, orphan>>

(* watch                                                                    *)

\* Read r.proc under the lock.
WatchRead ==
  /\ watch.step = "read"
  /\ watch' = IF proc = 0 THEN Watcher("ended", 0) ELSE Watcher("wait", proc)
  /\ UNCHANGED <<udp, ctx, owner, proc, spawned, up, killed, waited, target, orphan>>

\* Mutant: watch leaves after the first exit.
WatchWait_Once ==
  /\ watch.step = "wait" /\ watch.proc \notin up
  /\ waited' = waited \cup {watch.proc}
  /\ watch' = Watcher("ended", 0)
  /\ UNCHANGED <<udp, ctx, owner, proc, spawned, up, killed, target, orphan>>

\* Cmd.Wait returns once the process has exited; a second Wait on the same
\* command returns at once.
WatchWait ==
  /\ watch.step = "wait" /\ (watch.proc \notin up \/ watch.proc \in waited)
  /\ waited' = waited \cup {watch.proc}
  /\ watch' = Watcher("check", 0)
  /\ UNCHANGED <<udp, ctx, owner, proc, spawned, up, killed, target, orphan>>

\* Cancelled: watch returns.  Otherwise it sleeps for 3 s.
WatchCheck ==
  /\ watch.step = "check"
  /\ watch' = Watcher(IF ctx THEN "ended" ELSE "backoff", 0)
  /\ UNCHANGED <<udp, ctx, owner, proc, spawned, up, killed, waited, target, orphan>>

\* The sleep ends: the timer fired, or the context was cancelled; a select with
\* both ready takes either.
WatchBackoff ==
  /\ watch.step = "backoff"
  /\ \/ watch' = Watcher("spawn", 0)
     \/ ctx /\ watch' = Watcher("ended", 0)
  /\ UNCHANGED <<udp, ctx, owner, proc, spawned, up, killed, waited, target, orphan>>

\* A spawn that fails ends watch.
WatchSpawn ==
  /\ watch.step = "spawn"
  /\ \/ Launch /\ watch' = Watcher("record", 0)
     \/ NoSpawn /\ watch' = Watcher("failed", 0)
  /\ UNCHANGED <<udp, ctx, owner, killed, waited, target, orphan>>

WatchRecord ==
  /\ watch.step = "record" /\ Record /\ watch' = Watcher("read", 0)
  /\ UNCHANGED <<udp, ctx, owner, killed, waited, target, orphan>>

(* Stop                                                                     *)

\* The owner of a running sing-box calls Stop: Manager.Run and main defer it.
Stop ==
  /\ owner = "up" /\ owner' = "stop"
  /\ UNCHANGED <<udp, ctx, proc, spawned, up, killed, waited, watch, target, orphan>>

\* A signal cancels the context the runner's was derived from.
Signal ==
  /\ ~ctx /\ ctx' = TRUE
  /\ UNCHANGED <<udp, owner, proc, spawned, up, killed, waited, watch, target, orphan>>

\* r.cancel, then r.proc under the lock.
StopCancel ==
  /\ owner \in {"undo", "stop"} /\ ctx' = TRUE
  /\ owner' = IF owner = "undo" THEN "undoRead" ELSE "stopRead"
  /\ UNCHANGED <<udp, proc, spawned, up, killed, waited, watch, target, orphan>>

StopRead ==
  /\ owner \in {"undoRead", "stopRead"} /\ target' = proc
  /\ owner' = IF owner = "undoRead" THEN "undoKill" ELSE "stopKill"
  /\ UNCHANGED <<udp, ctx, proc, spawned, up, killed, waited, watch, orphan>>

\* Mutant: Stop only waits for the process.
StopKill_WaitOnly ==
  /\ owner \in {"undoKill", "stopKill"}
  /\ owner' = IF owner = "undoKill" THEN "undoWait" ELSE "stopWait"
  /\ UNCHANGED <<udp, ctx, proc, spawned, up, killed, waited, watch, target, orphan>>

\* Process.Kill: no effect on a process that has exited.
StopKill ==
  /\ owner \in {"undoKill", "stopKill"} /\ killed' = killed \cup ({target} \cap up)
  /\ owner' = IF owner = "undoKill" THEN "undoWait" ELSE "stopWait"
  /\ UNCHANGED <<udp, ctx, proc, spawned, up, waited, watch, target, orphan>>

\* Process.Wait returns once the process has exited.
StopWait ==
  /\ owner \in {"undoWait", "stopWait"} /\ target \notin up
  /\ owner' = IF owner = "undoWait" THEN "failed" ELSE "stopped"
  /\ UNCHANGED <<udp, ctx, proc, spawned, up, killed, waited, watch, target, orphan>>

(* The processes                                                            *)

ProcExits(p) ==
  /\ p \in up /\ up' = up \ {p}
  /\ UNCHANGED <<udp, ctx, owner, proc, spawned, killed, waited, watch, target, orphan>>

OrphanExits ==
  /\ orphan /\ orphan' = FALSE
  /\ UNCHANGED <<udp, ctx, owner, proc, spawned, up, killed, waited, watch, target>>

\* The first process of a container ends, and every other one with it.
AllDie ==
  /\ up' = {}
  /\ UNCHANGED <<udp, ctx, owner, proc, spawned, killed, waited, watch, target, orphan>>

\* The program starts again.  On a host, what it did not stop may run on.
Renew ==
  /\ udp' \in BOOLEAN /\ ctx' = FALSE /\ owner' = "check"
  /\ proc' = 0 /\ spawned' = 0 /\ up' = {} /\ killed' = {} /\ waited' = {}
  /\ watch' = Watcher("none", 0) /\ target' = 0
  /\ orphan' \in {FALSE, orphan \/ up # {}}

Start == CheckConfig \/ StartSpawn \/ StartRecord \/ Ready \/ NotReady
Watch ==
  WatchRead \/ WatchWait \/ WatchCheck \/ WatchBackoff \/ WatchSpawn \/ WatchRecord
StopRunner == StopCancel \/ StopRead \/ StopKill \/ StopWait

RunnerNext ==
  \/ Start \/ Watch \/ Stop \/ StopRunner \/ Signal \/ OrphanExits \/ AllDie \/ Renew
  \/ \E p \in Procs : ProcExits(p)

RunnerSpec == RunnerInit /\ [][RunnerNext]_runnerVars

-----------------------------------------------------------------------------
RunnerTypeOK ==
  /\ udp \in BOOLEAN /\ ctx \in BOOLEAN /\ orphan \in BOOLEAN
  /\ owner \in {"check", "spawn", "record", "await", "up", "failed", "stopped",
                "undo", "undoRead", "undoKill", "undoWait",
                "stop", "stopRead", "stopKill", "stopWait"}
  /\ proc \in 0 .. MaxSpawns /\ spawned \in 0 .. MaxSpawns /\ target \in 0 .. MaxSpawns
  /\ up \subseteq 1 .. spawned /\ killed \subseteq 1 .. spawned
  /\ waited \subseteq 1 .. spawned
  /\ watch \in [step : {"none", "read", "wait", "check", "backoff", "spawn", "record",
                        "failed", "ended"},
                proc : 0 .. MaxSpawns]

\* A process runs that r.proc does not name yet.
Recording == owner = "record" \/ watch.step = "record"

\* Two processes of a runner never compete for the listener: whatever exits, is
\* killed or is restarted when, at most one sing-box runs, the last one launched.
\* But for the moment between cmd.Start and r.proc = cmd it is the one that Stop and
\* watch find in r.proc.  A start that returned an error has left none (spawn, watch,
\* StartRunner).
OneProcess ==
  /\ up \subseteq {spawned}
  /\ ~Recording => up \subseteq {proc}
  /\ owner = "failed" => up = {}

\* Documented, and refuted: "Stop terminates sing-box".
StoppedIsDown == owner = "stopped" => up = {}
=============================================================================
