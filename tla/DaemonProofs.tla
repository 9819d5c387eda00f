------------------------------ MODULE DaemonProofs ------------------------------
(***************************************************************************)
(* Proofs about Daemon for any configurations, any number of lives and any   *)
(* number of restarts of sing-box in each.  First the runner on its own,     *)
(* then what main adds to it, then the node that is picked from a             *)
(* subscription of any length.                                               *)
(***************************************************************************)
EXTENDS Daemon, FiniteSetTheorems, WellFoundedInduction, TLAPS

-----------------------------------------------------------------------------
(* The runner                                                               *)

Undoing == {"undo", "undoRead", "undoKill", "undoWait"}

\* What StopReturns rests on: Stop has sent SIGKILL to the process it waits for, if
\* that still runs.
StopAdvances == owner \in {"undoWait", "stopWait"} => target \notin up \/ target \in killed

\* What the safety properties rest on.  The watch goroutine spawns only after
\* the process it waited for is gone, r.proc is one process behind while a new one is
\* being recorded and else names the last, a new process gets a number no command was
\* waited for, and while a failed start is undone there is no watch goroutine
\* yet that could spawn.
RunnerInv ==
  /\ RunnerTypeOK
  /\ proc = IF Recording THEN spawned - 1 ELSE spawned
  /\ OneProcess
  /\ owner \in {"check", "spawn"} => up = {}
  /\ owner \in {"check", "spawn", "record", "await", "failed"} \cup Undoing =>
       watch.step = "none" /\ waited = {}
  /\ watch.step = "none" => owner \in {"check", "spawn", "record", "await", "failed"} \cup Undoing
  /\ watch.step \in {"check", "backoff", "spawn"} => up = {}
  /\ watch.step \in {"record", "read"} => spawned \notin waited
  /\ watch.step = "wait" => watch.proc = proc /\ proc # 0 /\ proc \notin waited
  /\ owner \in {"undoKill", "undoWait"} => target = spawned
  /\ owner \in {"stopKill", "stopWait", "stopped"} => target <= spawned
  /\ owner = "stopped" => target \notin up
  /\ StopAdvances

\* A process that is spawned gets a number of its own.
LEMMA SpawnIsFresh ==
  ASSUME RunnerInv, Launch
  PROVE  /\ spawned' \in 1 .. MaxSpawns /\ up' = up \cup {spawned'}
         /\ up' \subseteq 1 .. spawned' /\ spawned' \notin waited
         /\ spawned' - 1 = spawned /\ proc' = proc
         /\ killed \subseteq 1 .. spawned' /\ waited \subseteq 1 .. spawned'
<1> USE RunnerAssumption DEF RunnerAssumption, RunnerInv, RunnerTypeOK, Launch
<1>1. spawned \in Nat /\ spawned' = spawned + 1 /\ spawned' - 1 = spawned /\ proc' = proc
  OBVIOUS
<1>2. \A x : x \in 1 .. spawned => x \in 1 .. spawned' /\ x # spawned'
  BY <1>1
<1>3. spawned' \in 1 .. spawned'
  BY <1>1
<1> QED
  BY <1>1, <1>2, <1>3

\* RunnerInv is inductive.
LEMMA RunnerInductive == RunnerInv /\ [RunnerNext]_runnerVars => RunnerInv'
<1> USE RunnerAssumption DEF RunnerAssumption
<1> SUFFICES ASSUME RunnerInv, [RunnerNext]_runnerVars PROVE RunnerInv'
  OBVIOUS
<1> USE DEF RunnerInv, RunnerTypeOK, OneProcess, Recording, StopAdvances, Undoing, Watcher
<1>1. CASE CheckConfig  BY <1>1 DEF CheckConfig
<1>2. CASE StartSpawn
  <2>1. CASE Launch /\ owner' = "record"
    <3>1. RunnerTypeOK'
      BY <1>2, <2>1, SpawnIsFresh DEF StartSpawn
    <3> QED
      BY <1>2, <2>1, <3>1, SpawnIsFresh DEF StartSpawn
  <2>2. CASE NoSpawn /\ owner' = "failed"
    BY <1>2, <2>2 DEF StartSpawn, NoSpawn
  <2> QED
    BY <1>2, <2>1, <2>2 DEF StartSpawn
<1>3. CASE Ready  BY <1>3 DEF Ready
<1>4. CASE NotReady  BY <1>4 DEF NotReady
<1>5. CASE WatchRead  BY <1>5 DEF WatchRead
<1>6. CASE WatchWait
  <2>1. watch.proc = spawned /\ spawned \in 1 .. spawned /\ up = {}
    BY <1>6 DEF WatchWait
  <2>2. waited' \subseteq 1 .. spawned
    BY <1>6, <2>1 DEF WatchWait
  <2> QED
    BY <1>6, <2>1, <2>2 DEF WatchWait
<1>7. CASE WatchCheck  BY <1>7 DEF WatchCheck
<1>8. CASE WatchBackoff  BY <1>8 DEF WatchBackoff
<1>9. CASE WatchSpawn
  <2>1. CASE Launch /\ watch' = Watcher("record", 0)
    <3>1. RunnerTypeOK'
      BY <1>9, <2>1, SpawnIsFresh DEF WatchSpawn
    <3>2. target \in Nat /\ spawned \in Nat /\ spawned' = spawned + 1
      BY <2>1 DEF Launch
    <3>3. target <= spawned => target <= spawned' /\ target # spawned'
      BY <3>2
    <3>4. owner' = owner /\ target' = target
      BY <1>9 DEF WatchSpawn
    <3> QED
      BY <1>9, <2>1, <3>1, <3>3, <3>4, SpawnIsFresh DEF WatchSpawn
  <2>2. CASE NoSpawn /\ watch' = Watcher("failed", 0)
    BY <1>9, <2>2 DEF WatchSpawn, NoSpawn
  <2> QED
    BY <1>9, <2>1, <2>2 DEF WatchSpawn
<1>10. CASE Stop  BY <1>10 DEF Stop
<1>11. CASE StopCancel  BY <1>11 DEF StopCancel
<1>12. CASE StopRead  BY <1>12 DEF StopRead
<1>13. CASE StopKill  BY <1>13 DEF StopKill
<1>14. CASE StopWait  BY <1>14 DEF StopWait
<1>15. CASE Signal  BY <1>15 DEF Signal
<1>16. ASSUME NEW p \in Procs, ProcExits(p) PROVE RunnerInv'
  BY <1>16 DEF ProcExits
<1>17. CASE UNCHANGED runnerVars  BY <1>17 DEF runnerVars
<1>18. CASE OrphanExits
  <2>1. orphan' \in BOOLEAN
    BY <1>18, Zenon DEF OrphanExits
  <2> QED
    BY <1>18, <2>1 DEF OrphanExits
<1>19. CASE AllDie  BY <1>19 DEF AllDie
<1>20. CASE Renew
  <2>1. udp' \in BOOLEAN /\ ctx' \in BOOLEAN /\ orphan' \in BOOLEAN  BY <1>20, Zenon DEF Renew
  <2> QED
    BY <1>20, <2>1 DEF Renew
<1>21. CASE StartRecord  BY <1>21 DEF StartRecord, Record
<1>22. CASE WatchRecord  BY <1>22 DEF WatchRecord, Record
<1> QED
  BY <1>1, <1>2, <1>3, <1>4, <1>5, <1>6, <1>7, <1>8, <1>9, <1>10, <1>11, <1>12, <1>13,
     <1>14, <1>15, <1>16, <1>17, <1>18, <1>19, <1>20, <1>21, <1>22 DEF RunnerNext, Start, Watch, StopRunner

-----------------------------------------------------------------------------
(* main                                                                     *)

\* A step of the program is a step of its runner or leaves it alone.
LEMMA RunnerPart == [Next]_vars => [RunnerNext]_runnerVars
<1> SUFFICES ASSUME [Next]_vars PROVE [RunnerNext]_runnerVars
  OBVIOUS
<1> USE DEF RunnerNext, Pass, Go, Exit, End
<1>1. CASE Starting
  BY <1>1 DEF Starting, Validate, Prepare, StartsRunner, HY2Started, StartProxy, StartConsole
<1>2. CASE Running
  BY <1>2 DEF Running, ResolveUpstream, UpstreamStarted, RunFailed, RunReturns, DemoEnds
<1>3. CASE Ending
  BY <1>3 DEF Ending, CallStop, UpstreamStopped, CloseConsole, CloseProxy, Return
<1>4. CASE Background  BY <1>4 DEF Background
<1>5. CASE Signaled  BY <1>5 DEF Signaled
<1>6. CASE SingBoxExits  BY <1>6 DEF SingBoxExits
<1>7. CASE Kill  BY <1>7 DEF Kill
<1>8. CASE Restart  BY <1>8 DEF Restart
<1>9. CASE UNCHANGED vars  BY <1>9 DEF vars
<1> QED
  BY <1>1, <1>2, <1>3, <1>4, <1>5, <1>6, <1>7, <1>8, <1>9 DEF Next

\* What EnsureAuthConfigured sees to; until the console is up nothing undoes it.
ConsoleGuarded ==
  cfg.mode # "demo" => cfg.ui # "weak" /\ (cfg.ui = "strong" => stored # "weak")

\* The types of main's own variables, and what they say about the configuration.
MainInv ==
  /\ cfg \in Configs /\ main \in Places /\ code \in {0, 1, 2, 137}
  /\ signal \in BOOLEAN /\ proxyUp \in BOOLEAN /\ consoleUp \in BOOLEAN
  /\ udp <=> HasHY2(cfg)
  /\ main \notin {"validate", "exited"} => Valid(cfg)
  /\ main = "validate" => owner = "check"
  /\ main \in {"validate", "exited"} => ~proxyUp
  /\ udp /\ main = "exited" => up = {}
  /\ stored \in {"none", "weak", "strong"}
  /\ main \notin {"validate", "prepare", "exited"} => ConsoleGuarded
  /\ main \in {"validate", "prepare", "exited"} => ~consoleUp

LEMMA MainInductive == MainInv /\ RunnerInv /\ RunnerInv' /\ [Next]_vars => MainInv'
<1> SUFFICES ASSUME MainInv, RunnerInv, RunnerInv', [Next]_vars PROVE MainInv'
  OBVIOUS
<1> USE DEF MainInv, Places, listeners
<1>0. ASSUME NEW c \in {0, 1, 2, 137}, End(c), stored' \in {"none", "weak", "strong"}
      PROVE  MainInv'
  <2>1. udp' = udp /\ cfg' = cfg /\ (cfg.mode = "container" => up' = {})
    BY <1>0 DEF End, AllDie, runnerVars
  <2>2. udp => cfg.mode = "container"
    BY DEF HasHY2
  <2> QED
    BY <1>0, <2>1, <2>2 DEF End, HasHY2
<1>1. ASSUME NEW c \in {0, 1, 2, 137}, Exit(c) PROVE MainInv'
  BY <1>0, <1>1 DEF Exit
<1>2. ASSUME NEW p \in Places \ {"validate", "prepare", "exited"}, Go(p),
             main \notin {"validate", "exited"}, proxyUp' \in BOOLEAN, consoleUp' \in BOOLEAN,
             stored' \in {"none", "weak", "strong"}, ConsoleGuarded'
      PROVE  MainInv'
  BY <1>2 DEF Go, runnerVars, HasHY2
<1>3. ASSUME NEW p \in Places \ {"validate", "prepare", "exited"}, Pass(p),
             main \notin {"validate", "prepare", "exited"}
      PROVE  MainInv'
  BY <1>2, <1>3 DEF Pass, Go, ConsoleGuarded
<1>13. cfg.ui \in {"none", "weak", "strong"}
  BY DaemonAssumption DEF DaemonAssumption, Configurations
<1>4. CASE Starting
  <2>1. CASE Validate
    BY <2>1, <1>1 DEF Validate, Pass, Go, runnerVars, HasHY2
  <2>2. CASE Prepare
    <3>1. Login(cfg) \in {"none", "weak", "strong"}
      BY <1>13 DEF Login, Password
    <3>2. CASE End(1)  BY <2>2, <3>1, <3>2, <1>0 DEF Prepare
    <3>3. CASE \E p \in {"console", "hy2", "proxy"} : Go(p) /\ UNCHANGED listeners
               /\ Login(cfg) # "none" /\ stored' = Login(cfg)
      <4>1. ConsoleGuarded'
        BY <3>3, <1>13 DEF Go, Login, Password, ConsoleGuarded
      <4> QED
        BY <2>2, <3>1, <3>3, <4>1, <1>2 DEF Prepare
    <3> QED
      BY <2>2, <3>2, <3>3 DEF Prepare
  <2>3. CASE StartsRunner
    <3>1. udp' = udp
      BY <2>3 DEF StartsRunner, Start, CheckConfig, StartSpawn, StartRecord, Ready, NotReady
    <3> QED
      BY <2>3, <3>1 DEF StartsRunner, HasHY2, ConsoleGuarded
  <2>4. CASE HY2Started  BY <2>4, <1>1, <1>3 DEF HY2Started
  <2>5. CASE StartProxy
    <3>1. CASE Exit(1)  BY <2>5, <3>1, <1>1 DEF StartProxy
    <3>2. CASE Go("console") /\ proxyUp' = TRUE /\ UNCHANGED <<consoleUp, stored, fetch>>
      <4>1. ConsoleGuarded' /\ proxyUp' \in BOOLEAN /\ consoleUp' \in BOOLEAN
        BY <2>5, <3>2 DEF StartProxy, Go, ConsoleGuarded
      <4> QED
        BY <2>5, <3>2, <4>1, <1>2 DEF StartProxy
    <3> QED
      BY <2>5, <3>1, <3>2 DEF StartProxy
  <2>6. CASE StartConsole
    <3>1. CASE End(1)  BY <2>6, <3>1, <1>0 DEF StartConsole
    <3>2. CASE \E p \in {"demo", "resolve"} : Go(p) /\ consoleUp' = TRUE /\ UNCHANGED proxyUp
      <4>1. ConsoleGuarded' /\ stored' \in {"none", "weak", "strong"}
        BY <2>6, <3>2 DEF StartConsole, Go, ConsoleGuarded
      <4> QED
        BY <2>6, <3>2, <4>1, <1>2 DEF StartConsole
    <3> QED
      BY <2>6, <3>1, <3>2 DEF StartConsole
  <2> QED
    BY <1>4, <2>1, <2>2, <2>3, <2>4, <2>5, <2>6 DEF Starting
<1>5. CASE Running
  <2>1. CASE ResolveUpstream
    BY <2>1, <1>2 DEF ResolveUpstream, Go, ConsoleGuarded
  <2>2. CASE UpstreamStarted  BY <2>2 DEF UpstreamStarted, runnerVars, HasHY2, ConsoleGuarded
  <2>3. CASE RunFailed  BY <2>3, <1>1, <1>3 DEF RunFailed
  <2>4. CASE RunReturns  BY <2>4, <1>3 DEF RunReturns
  <2>5. CASE DemoEnds  BY <2>5, <1>3 DEF DemoEnds
  <2> QED
    BY <1>5, <2>1, <2>2, <2>3, <2>4, <2>5 DEF Running
<1>6. CASE Ending
  <2>1. CASE CallStop
    <3>1. udp' = udp
      BY <2>1 DEF CallStop, Stop, StopRunner, StopCancel, StopRead, StopKill, StopWait
    <3> QED
      BY <2>1, <3>1 DEF CallStop, HasHY2, ConsoleGuarded
  <2>2. CASE UpstreamStopped  BY <2>2, <1>3 DEF UpstreamStopped
  <2>3. CASE CloseConsole
    <3>1. ConsoleGuarded' /\ proxyUp' \in BOOLEAN /\ consoleUp' \in BOOLEAN
      BY <2>3 DEF CloseConsole, Go, ConsoleGuarded
    <3> QED
      BY <2>3, <3>1, <1>2 DEF CloseConsole
  <2>4. CASE CloseProxy
    <3>1. ConsoleGuarded' /\ proxyUp' \in BOOLEAN /\ consoleUp' \in BOOLEAN
      BY <2>4 DEF CloseProxy, Go, ConsoleGuarded
    <3> QED
      BY <2>4, <3>1, <1>2 DEF CloseProxy
  <2>5. CASE Return  BY <2>5, <1>1 DEF Return
  <2> QED
    BY <1>6, <2>1, <2>2, <2>3, <2>4, <2>5 DEF Ending
<1>7. CASE Background
  <2>1. udp' = udp /\ (owner = "check" => owner' = owner) /\ main # "exited"
    BY <1>7 DEF Background, Watch, WatchRead, WatchWait, WatchCheck, WatchBackoff, WatchSpawn,
                WatchRecord, StopRunner, StopCancel, StopRead, StopKill, StopWait
  <2> QED
    BY <1>7, <2>1 DEF Background, HasHY2, ConsoleGuarded
<1>8. CASE Signaled  BY <1>8 DEF Signaled, Signal, runnerVars, HasHY2, ConsoleGuarded
<1>9. CASE SingBoxExits  BY <1>9 DEF SingBoxExits, OrphanExits, ProcExits, HasHY2, ConsoleGuarded
<1>10. CASE Kill  BY <1>10, <1>1 DEF Kill
<1>11. CASE Restart
  <2>1. proxyUp' \in BOOLEAN /\ consoleUp' \in BOOLEAN /\ signal' \in BOOLEAN
    BY <1>11 DEF Restart
  <2>2. udp' <=> HasHY2(cfg')
    BY <1>11, Zenon DEF Restart
  <2> QED
    BY <1>11, <2>1, <2>2 DEF Restart, Renew, HasHY2, ConsoleGuarded
<1>12. CASE UNCHANGED vars  BY <1>12 DEF vars, runnerVars, HasHY2, ConsoleGuarded
<1> QED
  BY <1>4, <1>5, <1>6, <1>7, <1>8, <1>9, <1>10, <1>11, <1>12 DEF Next

\* Where the upstream's runner stands at each place of main.
Standing ==
  /\ main \in {"prepare", "proxy", "console", "resolve", "demo"} => owner = "check"
  /\ main = "upstream" => owner \in {"check", "spawn", "record", "await", "up", "failed"} \cup Undoing
  /\ main = "run" => owner \in {"check", "up"}
  /\ main = "runFailed" => owner \in {"check", "failed"}
  /\ main \in {"unwind", "closeProxy", "done"} => owner \in {"check", "failed", "stopped"}
  /\ main = "stopUpstream" =>
       owner \in {"up", "stop", "stopRead", "stopKill", "stopWait", "stopped"}
  /\ main \notin {"hy2", "stopHY2"}

\* For the hysteria2 inbound main need not be followed: it ends with its container.
EndInv == (~udp => Standing) /\ EndsClean

LEMMA EndInductive ==
  EndInv /\ MainInv /\ MainInv' /\ RunnerInv /\ RunnerInv' /\ [Next]_vars => EndInv'
<1> SUFFICES ASSUME EndInv, MainInv, MainInv', RunnerInv, RunnerInv', [Next]_vars
             PROVE  EndInv'
  OBVIOUS
<1> USE DEF Exit
<1>a. cfg.mode # "container" => ~udp
  BY DEF MainInv, HasHY2
<1>b. ~udp => ~HasHY2(cfg)
  BY DEF MainInv
<1>1. owner = "stopped" => \A p \in up : p > target
  BY RunnerAssumption DEF RunnerInv, RunnerTypeOK, OneProcess, RunnerAssumption
<1>2. owner \in {"check", "failed"} => up = {}
  BY DEF RunnerInv, OneProcess
<1>3. ASSUME NEW c, End(c),
             ~udp => \/ owner \in {"check", "failed", "stopped"} /\ (c # 0 => owner # "stopped")
                     \/ c = 137
      PROVE  EndInv'
  <2>1. udp' = udp /\ cfg' = cfg /\ main' = "exited" /\ code' = c /\ owner' = owner
        /\ target' = target
    BY <1>3 DEF End, AllDie, runnerVars
  <2>2. cfg.mode # "container" => up' = up
    BY <1>3 DEF End, runnerVars
  <2>3. EndsClean'
    BY <1>a, <1>1, <1>2, <1>3, <2>1, <2>2 DEF EndsClean
  <2> QED
    BY <2>1, <2>3 DEF EndInv, Standing
<1>4. ASSUME NEW p, Go(p), p # "exited",
             ~udp => \/ owner = "check" /\ p \in {"prepare", "proxy", "console", "resolve",
                                     "demo", "upstream", "run", "runFailed", "unwind",
                                     "closeProxy", "done"}
                     \/ owner \in {"failed", "stopped"} /\ p \in {"unwind", "closeProxy", "done"}
                     \/ owner = "up" /\ p = "stopUpstream"
      PROVE  EndInv'
  BY <1>4 DEF Go, runnerVars, EndInv, Standing, EndsClean
<1>5. CASE Starting
  <2>0. ~udp => main \notin {"hy2"} /\ (main = "validate" => owner = "check")
    BY DEF EndInv, Standing, MainInv
  <2>1. CASE Validate  BY <2>0, <2>1, <1>3, <1>4 DEF Validate, Pass
  <2>2. CASE Prepare
    BY <1>b, <2>2, <1>3, <1>4 DEF Prepare, Pass, EndInv, Standing
  <2>3. CASE StartsRunner
    <3>1. udp' = udp /\ main' = main /\ main \in {"hy2", "upstream"}
      BY <2>3 DEF StartsRunner, Start, CheckConfig, StartSpawn, StartRecord, Ready, NotReady
    <3>2. owner' \in {"check", "spawn", "record", "await", "up", "failed"} \cup Undoing
      BY <2>3 DEF StartsRunner, Start, CheckConfig, StartSpawn, StartRecord, Ready, NotReady, Undoing
    <3> QED
      BY <3>1, <3>2 DEF EndInv, Standing, EndsClean
  <2>4. CASE HY2Started
    <3>1. CASE Pass("proxy")  BY <2>0, <2>4, <3>1, <1>4 DEF HY2Started, Pass
    <3>2. CASE Exit(1)  BY <2>0, <2>4, <3>2, <1>3 DEF HY2Started
    <3> QED
      BY <2>4, <3>1, <3>2 DEF HY2Started
  <2>5. CASE StartProxy
    BY <2>5, <1>3, <1>4 DEF StartProxy, EndInv, Standing
  <2>6. CASE StartConsole
    BY <2>6, <1>3, <1>4 DEF StartConsole, EndInv, Standing
  <2> QED
    BY <1>5, <2>1, <2>2, <2>3, <2>4, <2>5, <2>6 DEF Starting
<1>6. CASE Running
  <2>1. CASE ResolveUpstream
    BY <2>1, <1>4 DEF ResolveUpstream, EndInv, Standing
  <2>2. CASE UpstreamStarted
    BY <1>b, <2>2 DEF UpstreamStarted, runnerVars, EndInv, Standing, EndsClean
  <2>3. CASE RunFailed
    BY <2>3, <1>3, <1>4 DEF RunFailed, Pass, EndInv, Standing
  <2>4. CASE RunReturns
    BY <2>4, <1>4 DEF RunReturns, Pass, EndInv, Standing
  <2>5. CASE DemoEnds
    BY <2>5, <1>4 DEF DemoEnds, Pass, EndInv, Standing
  <2> QED
    BY <1>6, <2>1, <2>2, <2>3, <2>4, <2>5 DEF Running
<1>7. CASE Ending
  <2>1. CASE CallStop
    <3>1. udp' = udp /\ main' = main /\ main \in {"stopUpstream", "stopHY2"}
      BY <2>1 DEF CallStop, Stop, StopRunner, StopCancel, StopRead, StopKill, StopWait
    <3>2. ~udp => main = "stopUpstream" /\
            owner' \in {"up", "stop", "stopRead", "stopKill", "stopWait", "stopped"}
      BY <2>1 DEF CallStop, Stop, StopRunner, StopCancel, StopRead, StopKill, StopWait,
                  EndInv, Standing
    <3> QED
      BY <3>1, <3>2 DEF EndInv, Standing, EndsClean
  <2>2. CASE UpstreamStopped  BY <2>2, <1>4 DEF UpstreamStopped, Pass
  <2>3. CASE CloseConsole
    BY <2>3, <1>4 DEF CloseConsole, EndInv, Standing
  <2>4. CASE CloseProxy
    BY <1>b, <2>4, <1>4 DEF CloseProxy, EndInv, Standing
  <2>5. CASE Return
    BY <2>5, <1>3 DEF Return, EndInv, Standing
  <2> QED
    BY <1>7, <2>1, <2>2, <2>3, <2>4, <2>5 DEF Ending
<1>8. CASE Background
  <2>1. udp' = udp /\ main' = main /\ main # "exited"
    BY <1>8 DEF Background, Watch, WatchRead, WatchWait, WatchCheck, WatchBackoff, WatchSpawn,
                WatchRecord, StopRunner, StopCancel, StopRead, StopKill, StopWait
  <2>2. \/ owner' = owner
        \/ owner \in Undoing /\ owner' \in Undoing \cup {"failed"}
    BY <1>8 DEF Background, Watch, WatchRead, WatchWait, WatchCheck, WatchBackoff, WatchSpawn,
                WatchRecord, StopRunner, StopCancel, StopRead, StopKill, StopWait, Undoing
  <2> QED
    BY <2>1, <2>2 DEF EndInv, Standing, EndsClean, Undoing
<1>9. CASE Signaled
  BY <1>9 DEF Signaled, Signal, runnerVars, EndInv, Standing, EndsClean
<1>10. CASE SingBoxExits
  <2>1. up' \subseteq up /\ UNCHANGED <<udp, cfg, main, code, owner, target>>
    BY <1>10 DEF SingBoxExits, OrphanExits, ProcExits
  <2> QED
    BY <2>1 DEF EndInv, Standing, EndsClean
<1>11. CASE Kill  BY <1>11, <1>3 DEF Kill
<1>12. CASE Restart  BY <1>12 DEF Restart, EndInv, Standing, EndsClean
<1>13. CASE UNCHANGED vars
  BY <1>13 DEF vars, runnerVars, EndInv, Standing, EndsClean
<1> QED
  BY <1>5, <1>6, <1>7, <1>8, <1>9, <1>10, <1>11, <1>12, <1>13 DEF Next

-----------------------------------------------------------------------------
(* The node of a subscription.  Induction is stated of a set, the form in     *)
(* which the provers can use it.                                             *)

\* A set of numbers has a least element.
LEMMA LeastElement ==
  ASSUME NEW T, T \subseteq Nat, T # {}
  PROVE  \E m \in T : \A k \in T : m <= k
<1> DEFINE R == {pair \in Nat \X Nat : pair[1] < pair[2]}
<1>1. IsWellFoundedOn(R, Nat)
  <2>1. R = OpToRel(<, Nat)
    BY DEF OpToRel
  <2> QED
    BY <2>1, NatLessThanWellFounded
<1>2. \A x, y \in Nat : <<y, x>> \in R <=> y < x
  OBVIOUS
<1> HIDE DEF R
<1>3. PICK m \in T : \A k \in T : <<k, m>> \notin R
  BY <1>1, WFMin
<1>4. \A k \in T : k \in Nat /\ ~ (k < m)
  BY <1>2, <1>3
<1> QED
  BY <1>4

\* What holds of 0, and of i + 1 if of i, holds of all numbers up to n.
LEMMA Induction ==
  ASSUME NEW n \in Nat, NEW S, 0 \in S, \A i \in 0 .. n - 1 : i \in S => i + 1 \in S
  PROVE  \A i \in 0 .. n : i \in S
<1> DEFINE T == {i \in 0 .. n : i \notin S}
<1> SUFFICES ASSUME T # {} PROVE FALSE
  OBVIOUS
<1>1. T \subseteq Nat
  OBVIOUS
<1> HIDE DEF T
<1>2. PICK m \in T : \A k \in T : m <= k
  BY <1>1, LeastElement
<1> USE DEF T
<1>3. m \in 0 .. n /\ m \notin S /\ m # 0
  BY <1>2
<1>4. m - 1 \in 0 .. n - 1 /\ m - 1 \notin T
  BY <1>2, <1>3
<1> QED
  BY <1>3, <1>4

\* g is what is kept of each of the first n prefixes of the content.
Collects(g, content, n) ==
  g = [i \in 0 .. n |-> IF i = 0 THEN <<>>
                        ELSE IF content[i] = "node" THEN Append(g[i - 1], i) ELSE g[i - 1]]

\* There is such a function for every number of entries ...
LEMMA CollectsExists ==
  ASSUME NEW content, NEW n \in Nat
  PROVE  \E g : Collects(g, content, n)
<1> DEFINE S == {m \in Nat : \E g : Collects(g, content, m)}
           More(s, i) == IF content[i] = "node" THEN Append(s, i) ELSE s
<1>1. 0 \in S
  <2>1. Collects([i \in 0 .. 0 |-> <<>>], content, 0)
    BY DEF Collects
  <2> QED
    BY <2>1
<1>2. ASSUME NEW m \in 0 .. n - 1, m \in S PROVE m + 1 \in S
  <2>1. PICK g : Collects(g, content, m)
    BY <1>2
  <2> DEFINE h == [i \in 0 .. m + 1 |-> IF i = m + 1 THEN More(g[m], m + 1) ELSE g[i]]
  <2>2. m \in Nat
    OBVIOUS
  <2>3. \A i \in 0 .. m : g[i] = IF i = 0 THEN <<>> ELSE More(g[i - 1], i)
    BY <2>1 DEF Collects
  <2> HIDE DEF More
  <2>4. \A i \in 0 .. m + 1 : h[i] = IF i = 0 THEN <<>> ELSE More(h[i - 1], i)
    <3> SUFFICES ASSUME NEW i \in 0 .. m + 1
                 PROVE  h[i] = IF i = 0 THEN <<>> ELSE More(h[i - 1], i)
      OBVIOUS
    <3>1. CASE i = m + 1
      <4>1. h[i] = More(g[m], i) /\ i - 1 = m /\ h[m] = g[m]
        BY <3>1, <2>2
      <4> QED
        BY <4>1, <3>1, <2>2
    <3>2. CASE i # m + 1
      <4>1. i \in 0 .. m
        BY <3>2, <2>2
      <4>2. h[i] = g[i] /\ (i # 0 => h[i - 1] = g[i - 1])
        BY <4>1, <2>2
      <4> QED
        BY <4>1, <4>2, <2>3
    <3> QED
      BY <3>1, <3>2
  <2>5. Collects(h, content, m + 1)
    BY <2>4 DEF Collects, More
  <2> QED
    BY <2>5, <2>2
<1> HIDE DEF S
<1>3. n \in S
  BY <1>1, <1>2, Induction
<1> QED
  BY <1>3 DEF S

\* ... and Kept is the one for all of them.
LEMMA KeptCollects ==
  ASSUME NEW content, Len(content) \in Nat
  PROVE  Collects(Kept(content), content, Len(content))
<1>1. \E g : g = [i \in 0 .. Len(content) |->
                    IF i = 0 THEN <<>>
                    ELSE IF content[i] = "node" THEN Append(g[i - 1], i) ELSE g[i - 1]]
  <2>1. \E g : Collects(g, content, Len(content))
    BY CollectsExists
  <2> QED
    BY <2>1, Zenon DEF Collects
<1>2. Kept(content) = CHOOSE g : g = [i \in 0 .. Len(content) |->
                    IF i = 0 THEN <<>>
                    ELSE IF content[i] = "node" THEN Append(g[i - 1], i) ELSE g[i - 1]]
  BY DEF Kept
<1> QED
  BY <1>1, <1>2, Zenon DEF Collects

\* How many of the first n entries are nodes.
NodesIn(content, n) == Cardinality({j \in 1 .. n : content[j] = "node"})

\* They are counted entry by entry.
LEMMA NodesCounted ==
  ASSUME NEW content, NEW n \in Nat
  PROVE  /\ NodesIn(content, n) \in Nat
         /\ NodesIn(content, n + 1) = NodesIn(content, n) + IF content[n + 1] = "node" THEN 1 ELSE 0
<1> DEFINE N(m) == {j \in 1 .. m : content[j] = "node"}
<1>1. IsFiniteSet(N(n)) /\ Cardinality(N(n)) \in Nat
  <2>1. IsFiniteSet(1 .. n) /\ N(n) \in SUBSET (1 .. n)
    BY FS_Interval, 1 \in Int
  <2>2. IsFiniteSet(N(n))
    BY <2>1, FS_Subset
  <2> QED
    BY <2>2, FS_CardinalityType
<1>2. CASE content[n + 1] # "node"
  <2>1. N(n + 1) = N(n)
    BY <1>2
  <2> QED
    BY <1>1, <1>2, <2>1 DEF NodesIn
<1>3. CASE content[n + 1] = "node"
  <2>1. N(n + 1) = N(n) \cup {n + 1} /\ n + 1 \notin N(n)
    BY <1>3
  <2> HIDE DEF N
  <2>2. Cardinality(N(n + 1)) = Cardinality(N(n)) + 1
    BY <1>1, <2>1, FS_AddElement
  <2> QED
    BY <1>1, <1>3, <2>2 DEF NodesIn, N
<1> QED
  BY <1>2, <1>3

\* The nodes after the n-th entry are all but those up to it.
LEMMA NodesAfter ==
  ASSUME NEW content, NEW m \in Nat, NEW n \in 0 .. m
  PROVE  Cardinality({j \in (n + 1) .. m : content[j] = "node"}) =
           NodesIn(content, m) - NodesIn(content, n)
<1> DEFINE A == {j \in 1 .. n : content[j] = "node"}
           B == {j \in (n + 1) .. m : content[j] = "node"}
           C == {j \in 1 .. m : content[j] = "node"}
<1>1. IsFiniteSet(1 .. m) /\ A \in SUBSET (1 .. m) /\ B \in SUBSET (1 .. m)
  BY FS_Interval, 1 \in Int
<1>2. C = A \cup B /\ A \cap B = {}
  OBVIOUS
<1> HIDE DEF A, B, C
<1>3. IsFiniteSet(A) /\ IsFiniteSet(B)
  BY <1>1, FS_Subset
<1>4. Cardinality(A) \in Nat /\ Cardinality(B) \in Nat /\ Cardinality(A \cap B) = 0
  BY <1>2, <1>3, FS_CardinalityType, FS_EmptySet
<1>5. Cardinality(C) = Cardinality(A) + Cardinality(B) - Cardinality(A \cap B)
  BY <1>2, <1>3, FS_Union
<1> QED
  BY <1>4, <1>5 DEF NodesIn, A, B, C

\* The k-th that is collected is a node with k - 1 nodes before it.
Collected(content, i) ==
  LET s == Kept(content)[i]
  IN  /\ s \in Seq(1 .. i) /\ Len(s) = NodesIn(content, i)
      /\ \A k \in 1 .. Len(s) : content[s[k]] = "node" /\ NodesIn(content, s[k] - 1) = k - 1

\* By induction over the entries.
LEMMA AllCollected ==
  ASSUME NEW content \in Seq({"node", "noise"})
  PROVE  Collected(content, Len(content))
<1> DEFINE S == {i \in Nat : Collected(content, i)}
           n == Len(content)
<1>1. Collects(Kept(content), content, n) /\ n \in Nat
  BY KeptCollects
<1>2. 0 \in S
  <2>1. Kept(content)[0] = <<>>
    BY <1>1 DEF Collects
  <2>2. {j \in 1 .. 0 : content[j] = "node"} = {}
    OBVIOUS
  <2>3. NodesIn(content, 0) = 0
    BY <2>2, FS_EmptySet DEF NodesIn
  <2>4. <<>> \in Seq(1 .. 0) /\ Len(<<>>) = 0 /\ 1 .. 0 = {}
    OBVIOUS
  <2>5. Collected(content, 0)
    BY <2>1, <2>3, <2>4, Zenon DEF Collected
  <2> QED
    BY <2>5
<1>3. \A i \in 0 .. n - 1 : i \in S => i + 1 \in S
  <2> SUFFICES ASSUME NEW i \in 0 .. n - 1, i \in S PROVE i + 1 \in S
    OBVIOUS
  <2> DEFINE s == Kept(content)[i]
             t == Kept(content)[i + 1]
  <2>1. i \in Nat /\ i + 1 \in 0 .. n /\ i + 1 # 0 /\ (i + 1) - 1 = i
    BY <1>1
  <2>2. t = IF content[i + 1] = "node" THEN Append(s, i + 1) ELSE s
    BY <1>1, <2>1 DEF Collects
  <2>3. /\ s \in Seq(1 .. i) /\ Len(s) = NodesIn(content, i)
        /\ \A k \in 1 .. Len(s) : content[s[k]] = "node" /\ NodesIn(content, s[k] - 1) = k - 1
    BY DEF Collected
  <2>4. /\ NodesIn(content, i) \in Nat
        /\ NodesIn(content, i + 1) = NodesIn(content, i) + IF content[i + 1] = "node" THEN 1 ELSE 0
    BY <2>1, NodesCounted
  <2> HIDE DEF s, t
  <2>5. s \in Seq(1 .. (i + 1))
    BY <2>1, <2>3
  <2>6. /\ t \in Seq(1 .. (i + 1)) /\ Len(t) = NodesIn(content, i + 1)
        /\ \A k \in 1 .. Len(t) : content[t[k]] = "node" /\ NodesIn(content, t[k] - 1) = k - 1
    <3>1. CASE content[i + 1] # "node"
      BY <3>1, <2>2, <2>3, <2>4, <2>5
    <3>2. CASE content[i + 1] = "node"
      <4>1. t = Append(s, i + 1) /\ i + 1 \in 1 .. (i + 1)
        BY <3>2, <2>1, <2>2
      <4>2. /\ t \in Seq(1 .. (i + 1)) /\ Len(t) = Len(s) + 1 /\ t[Len(s) + 1] = i + 1
            /\ \A k \in 1 .. Len(s) : t[k] = s[k]
        BY <4>1, <2>5
      <4>3. \A k \in 1 .. Len(t) : content[t[k]] = "node" /\ NodesIn(content, t[k] - 1) = k - 1
        <5> SUFFICES ASSUME NEW k \in 1 .. Len(t)
                     PROVE  content[t[k]] = "node" /\ NodesIn(content, t[k] - 1) = k - 1
          OBVIOUS
        <5>1. CASE k = Len(s) + 1
          BY <5>1, <3>2, <4>2, <2>1, <2>3, <2>4
        <5>2. CASE k # Len(s) + 1
          <6>1. k \in 1 .. Len(s) /\ t[k] = s[k]
            BY <5>2, <4>2, <2>3, <2>4
          <6> QED
            BY <6>1, <2>3
        <5> QED
          BY <5>1, <5>2
      <4> QED
        BY <3>2, <4>2, <4>3, <2>3, <2>4
    <3> QED
      BY <3>1, <3>2
  <2> QED
    BY <2>1, <2>6 DEF Collected, t
<1> HIDE DEF S
<1>4. \A i \in 0 .. n : i \in S
  BY <1>1, <1>2, <1>3, Induction
<1> QED
  BY <1>1, <1>4 DEF S

\* The position that is picked is that of a node with as many nodes before it, or
\* after it, as the index says.
LEMMA PickedNode ==
  ASSUME NEW content \in Seq({"node", "noise"}), NEW index \in Int, NEW pos,
         pos = PickNode(content, index), pos # 0
  PROVE  /\ pos \in 1 .. Len(content) /\ content[pos] = "node"
         /\ index >= 0 => NodesIn(content, pos - 1) = index
         /\ index < 0 =>
              Cardinality({i \in (pos + 1) .. Len(content) : content[i] = "node"}) = -index - 1
<1> DEFINE s == Nodes(content)
           k == (IF index < 0 THEN index + Len(s) ELSE index) + 1
<1>1. /\ s \in Seq(1 .. Len(content)) /\ Len(s) = NodesIn(content, Len(content))
      /\ \A j \in 1 .. Len(s) : content[s[j]] = "node" /\ NodesIn(content, s[j] - 1) = j - 1
  BY AllCollected DEF Collected, Nodes
<1>2. k \in DOMAIN s /\ pos = s[k]
  BY DEF PickNode
<1> HIDE DEF s
<1>3. k \in 1 .. Len(s) /\ Len(s) \in Nat
  BY <1>1, <1>2
<1>4. pos \in 1 .. Len(content) /\ content[pos] = "node" /\ NodesIn(content, pos - 1) = k - 1
  BY <1>1, <1>2, <1>3
<1>5. NodesIn(content, pos) = k
  <2>1. pos - 1 \in Nat /\ (pos - 1) + 1 = pos
    BY <1>4
  <2>2. NodesIn(content, pos) = NodesIn(content, pos - 1) + 1
    BY <1>4, <2>1, NodesCounted
  <2> QED
    BY <1>3, <1>4, <2>2
<1>6. Cardinality({i \in (pos + 1) .. Len(content) : content[i] = "node"}) = Len(s) - k
  <2>1. pos \in 0 .. Len(content) /\ Len(content) \in Nat
    BY <1>4
  <2> QED
    BY <1>1, <1>5, <2>1, NodesAfter
<1> QED
  BY <1>3, <1>4, <1>6

\* The node that the index asks for.
Asked(content, pos, index) ==
  LET at(S) == Cardinality({i \in S : content[i] = "node"})
  IN  /\ content[pos] = "node"
      /\ index >= 0 => at(1 .. (pos - 1)) = index
      /\ index < 0 => at((pos + 1) .. Len(content)) = -index - 1

\* Once a source is resolved it stays the first configured one, and its node the one
\* that was picked.
FetchInv ==
  main \in {"upstream", "run"} =>
    IF cfg.sources = {}
    THEN fetch.via = IF cfg.legacy THEN "legacy" ELSE "direct"
    ELSE /\ fetch.via = "singbox" /\ fetch.source = Preferred(cfg.sources)
         /\ fetch.source = "subscription" => Asked(fetch.content, fetch.pos, cfg.index)

LEMMA FetchInductive == MainInv /\ FetchInv /\ [Next]_vars => FetchInv'
<1> SUFFICES ASSUME MainInv, FetchInv, [Next]_vars PROVE FetchInv'
  OBVIOUS
<1> USE DEF FetchInv, Go, Pass, Exit, End
<1>1. CASE Starting
  BY <1>1 DEF Starting, Validate, Prepare, StartsRunner, HY2Started, StartProxy, StartConsole
<1>2. CASE ResolveUpstream
  <2>1. cfg' = cfg /\ cfg.index \in Int
    BY <1>2, DaemonAssumption DEF ResolveUpstream, MainInv, DaemonAssumption, Configurations
  <2>2. \A v, t, c, p : /\ Fetch(v, t, c, p).via = v /\ Fetch(v, t, c, p).source = t
                        /\ Fetch(v, t, c, p).content = c /\ Fetch(v, t, c, p).pos = p
    BY DEF Fetch
  <2>3. CASE cfg.sources = {} /\
             fetch' = Fetch(IF cfg.legacy THEN "legacy" ELSE "direct", "none", <<>>, 0)
    BY <2>1, <2>2, <2>3
  <2>4. CASE main' = "runFailed"
    BY <2>4
  <2>5. CASE /\ cfg.sources # {} /\ Preferred(cfg.sources) # "subscription"
             /\ fetch' = Fetch("singbox", Preferred(cfg.sources), <<>>, 1)
    BY <2>1, <2>2, <2>5
  <2>6. CASE /\ cfg.sources # {} /\ Preferred(cfg.sources) = "subscription"
             /\ \E content \in Subscriptions :
                  /\ PickNode(content, cfg.index) # 0
                  /\ fetch' = Fetch("singbox", "subscription", content,
                                    PickNode(content, cfg.index))
    <3>1. PICK content \in Subscriptions :
             /\ PickNode(content, cfg.index) # 0
             /\ fetch' = Fetch("singbox", "subscription", content, PickNode(content, cfg.index))
      BY <2>6
    <3>2. content \in Seq({"node", "noise"})
      BY DaemonAssumption DEF DaemonAssumption
    <3>3. Asked(content, PickNode(content, cfg.index), cfg.index)
      BY <2>1, <3>1, <3>2, PickedNode DEF Asked, NodesIn
    <3> QED
      BY <2>1, <2>2, <2>6, <3>1, <3>3
  <2> QED
    BY <1>2, <2>3, <2>4, <2>5, <2>6, Zenon DEF ResolveUpstream
<1>3. CASE UpstreamStarted  BY <1>3 DEF UpstreamStarted
<1>4. CASE RunFailed \/ RunReturns \/ DemoEnds
  BY <1>4 DEF RunFailed, RunReturns, DemoEnds
<1>5. CASE Ending
  BY <1>5 DEF Ending, CallStop, UpstreamStopped, CloseConsole, CloseProxy, Return
<1>6. CASE Background  BY <1>6 DEF Background
<1>7. CASE Signaled  BY <1>7 DEF Signaled
<1>8. CASE SingBoxExits  BY <1>8 DEF SingBoxExits
<1>9. CASE Kill  BY <1>9 DEF Kill
<1>10. CASE Restart  BY <1>10 DEF Restart
<1>11. CASE UNCHANGED vars  BY <1>11 DEF vars
<1> QED
  BY <1>1, <1>2, <1>3, <1>4, <1>5, <1>6, <1>7, <1>8, <1>9, <1>10, <1>11 DEF Next, Running

-----------------------------------------------------------------------------
(* Theorems                                                                 *)

LEMMA Start0 == Init => RunnerInv /\ MainInv /\ EndInv
<1> SUFFICES ASSUME Init PROVE RunnerInv /\ MainInv /\ EndInv
  OBVIOUS
<1>1. udp \in BOOLEAN /\ ctx \in BOOLEAN /\ orphan \in BOOLEAN
  BY Zenon DEF Init, RunnerInit
<1>2. RunnerTypeOK
  <2>1. /\ owner = "check" /\ proc = 0 /\ spawned = 0 /\ target = 0
        /\ up = {} /\ killed = {} /\ waited = {} /\ watch = [step |-> "none", proc |-> 0]
    BY Zenon DEF Init, RunnerInit, Watcher
  <2>2. 0 \in 0 .. MaxSpawns
    BY RunnerAssumption DEF RunnerAssumption
  <2> QED
    BY <1>1, <2>1, <2>2 DEF RunnerTypeOK
<1>6. RunnerInv
  BY <1>2 DEF Init, RunnerInit, RunnerInv, OneProcess, Recording, StopAdvances, Undoing, Watcher
<1>3. udp <=> HasHY2(cfg)  BY Zenon DEF Init
<1>4. MainInv  BY <1>3 DEF Init, RunnerInit, MainInv, Places
<1>5. EndInv  BY DEF Init, RunnerInit, EndInv, Standing, EndsClean
<1> QED
  BY <1>4, <1>5, <1>6

LEMMA Invariance == Spec => [](RunnerInv /\ MainInv /\ EndInv)
<1>1. Init => RunnerInv /\ MainInv /\ EndInv
  BY Start0
<1>2. RunnerInv /\ MainInv /\ EndInv /\ [Next]_vars => (RunnerInv /\ MainInv /\ EndInv)'
  BY RunnerInductive, RunnerPart, MainInductive, EndInductive
<1> QED
  BY <1>1, <1>2, PTL DEF Spec

\* The types of the program's and its runner's state.
THEOREM Typing == Spec => []TypeOK
<1>1. RunnerInv /\ MainInv => TypeOK
  BY DEF RunnerInv, MainInv, TypeOK
<1> QED
  BY <1>1, Invariance, PTL

\* At most one sing-box of a runner runs in a life of the program, whatever exits, is
\* killed or restarted when, for any number of restarts: the last one launched, which
\* r.proc names except between cmd.Start and r.proc = cmd.
THEOREM OneSingBox == Spec => []OneProcess
<1>1. RunnerInv => OneProcess
  BY DEF RunnerInv
<1> QED
  BY <1>1, Invariance, PTL

\* Stop never waits for a sing-box that nobody has killed, also if watch starts
\* another one between its steps (singbox.go:157-170).
THEOREM StopNeverStuck == Spec => []StopAdvances
<1>1. RunnerInv => StopAdvances
  BY DEF RunnerInv
<1> QED
  BY <1>1, Invariance, PTL

\* Whatever the configurations and their order, and whatever the data directory held
\* at first: a proxy beyond loopback and a hysteria2 inbound have a proper password,
\* and outside demo mode the console has no short one unless none is configured.
THEOREM Guarded == Spec => []ServesGuarded
<1>1. RunnerInv /\ MainInv => ServesGuarded
  <2> SUFFICES ASSUME RunnerInv, MainInv PROVE ServesGuarded
    OBVIOUS
  <2>1. proxyUp => Valid(cfg)
    BY DEF MainInv
  <2>2. udp /\ up # {} => Valid(cfg) /\ cfg.hy2 # "off"
    BY DEF MainInv, RunnerInv, HasHY2
  <2>3. cfg.hy2 \in {"off", "weak", "strong"}
    BY DaemonAssumption DEF MainInv, DaemonAssumption, Configurations
  <2>4. consoleUp => ConsoleGuarded
    BY DEF MainInv
  <2> QED
    BY <2>1, <2>2, <2>3, <2>4 DEF ServesGuarded, Valid, ConsoleGuarded
<1> QED
  BY <1>1, Invariance, PTL

\* A program that ends by itself leaves at most the sing-box that watch started
\* behind Stop's back, and none if it ends with an error.
THEOREM LeavesNoSingBox == Spec => []EndsClean
<1>1. EndInv => EndsClean
  BY DEF EndInv
<1> QED
  BY <1>1, Invariance, PTL

\* Whatever sources are configured and whatever a subscription holds, the upstream
\* that Run goes on with is that of the first configured source and the node that the
\* index asks for; a configured source never gives way to the legacy proxy or a direct
\* fetch.  Not that the sing-box which answers is the one that was started.
THEOREM ResolvedAsConfigured == Spec => []ResolvesAsConfigured
<1>1. Init => FetchInv
  BY DEF Init, FetchInv
<1>2. MainInv /\ FetchInv => ResolvesAsConfigured
  <2> SUFFICES ASSUME MainInv, FetchInv, main = "run" PROVE ResolvesAsConfigured
    BY DEF ResolvesAsConfigured
  <2>1. cfg.sources \subseteq {"uri", "subscription", "config"}
    BY DaemonAssumption DEF DaemonAssumption, Configurations, MainInv
  <2>2. CASE cfg.sources = {}
    BY <2>2 DEF ResolvesAsConfigured, FetchInv
  <2>3. CASE cfg.sources # {}
    <3>1. /\ fetch.via = "singbox" /\ fetch.source = Preferred(cfg.sources)
          /\ fetch.source = "subscription" => Asked(fetch.content, fetch.pos, cfg.index)
      BY <2>3 DEF FetchInv
    <3>2. /\ fetch.source \in cfg.sources
          /\ "uri" \in cfg.sources => fetch.source = "uri"
          /\ fetch.source = "config" => cfg.sources = {"config"}
      BY <2>1, <2>3, <3>1 DEF Preferred
    <3> QED
      BY <2>3, <3>1, <3>2 DEF ResolvesAsConfigured, Asked
  <2> QED
    BY <2>2, <2>3
<1> QED
  BY <1>1, <1>2, Invariance, FetchInductive, PTL DEF Spec
=============================================================================
