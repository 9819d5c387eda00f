----------------------------- MODULE BlacklistTest -----------------------------
(***************************************************************************)
(* The verification job of the blacklist (internal/manager/manager.go):     *)
(* StartBlacklistTest launches at most one goroutine that verifies, one     *)
(* after the other, the hosts blacklisted at that moment, each through an   *)
(* openvpn process and a policy route of its own, and                       *)
(* RestoreAvailableBlacklist takes those that passed off the list.          *)
(*                                                                          *)
(* The supervisor goes on marking nodes meanwhile, and saving new pools.    *)
(* The process may end at any step; openvpn, the policy rule and the        *)
(* temporary files outlive the goroutines.  What cleans them up ignores the *)
(* errors of ip and of os.Remove.                                           *)
(***************************************************************************)
EXTENDS Naturals, Sequences

CONSTANTS
  Hosts,         \* hosts that may be blacklisted
  Sorted,        \* [SUBSET Hosts -> Seq(Hosts)]: sort.Strings
  Starters,      \* goroutines serving POST test-blacklist
  Pools,         \* what nodes.json may hold: the pools, by the hosts in them
  SaveOutcomes,  \* {TRUE} if every save succeeds, BOOLEAN if one may fail
  MayExit,       \* whether the process may end
  MaxJobs,       \* bound: jobs launched
  MaxRestarts    \* bound: restarts of the process

Jobs == 1..MaxJobs
Listed(s) == {s[k] : k \in DOMAIN s}

ASSUME BlacklistTestAssumption ==
  /\ Pools \subseteq SUBSET Hosts
  /\ MaxJobs \in Nat /\ MaxRestarts \in Nat
  /\ SaveOutcomes \subseteq BOOLEAN /\ SaveOutcomes # {}
  /\ MayExit \in BOOLEAN
  /\ \A S \in SUBSET Hosts : Sorted[S] \in Seq(Hosts) /\ Listed(Sorted[S]) = S

VARIABLES
  blacklist,  \* m.blacklist
  disk,       \* blacklist.json
  status,     \* m.blacklistTest; Total is the length of results
  starter,    \* [Starters -> a StartBlacklistTest call]
  launched,   \* jobs launched so far
  job,        \* [Jobs -> a runBlacklistTest goroutine]
  openvpn,    \* [Jobs -> "none", "up" or "exited"]: its verification tunnel
  rule,       \* the job whose policy rule is in the kernel, or 0
  files,      \* jobs whose temporary profile and credentials are in use
  litter,     \* what a clean-up left because removing it failed: "rule", "files"
  up,         \* the process is running
  restarts,   \* restarts so far
  newcomers   \* history: hosts that entered the blacklist while the job runs

listVars == <<blacklist, disk>>
tunVars == <<openvpn, rule, files, litter>>
vars == <<listVars, status, starter, launched, job, tunVars, up, restarts, newcomers>>

NoTest == [running |-> FALSE, completed |-> 0, results |-> <<>>]
NoCall == [at |-> "idle", known |-> {}]
Goroutine(pc, hosts, known) ==
  [pc |-> pc, hosts |-> hosts, known |-> known, i |-> 1, verdict |-> "failed"]
NoJob == Goroutine("idle", <<>>, {})

Verdicts == {"passed", "failed", "skipped"}

Init ==
  /\ disk \in SUBSET Hosts /\ blacklist \in {disk, {}}
  /\ status = NoTest
  /\ starter = [s \in Starters |-> NoCall]
  /\ launched = 0 /\ job = [j \in Jobs |-> NoJob]
  /\ openvpn = [j \in Jobs |-> "none"] /\ rule = 0
  /\ files = {} /\ litter = {}
  /\ up = TRUE /\ restarts = 0
  /\ newcomers = {}

-----------------------------------------------------------------------------
(* The supervisor and the process                                           *)

\* markBlacklisted.
Mark(h) ==
  /\ up
  /\ blacklist' = blacklist \cup {h}
  /\ \E saved \in SaveOutcomes : disk' = IF saved THEN blacklist' ELSE disk
  /\ newcomers' = IF status.running THEN newcomers \cup ({h} \ blacklist) ELSE newcomers
  /\ UNCHANGED <<status, starter, launched, job, tunVars, up, restarts>>

\* main returns, or the process is killed: every goroutine is gone, openvpn
\* (in a process group of its own), rules and files stay.
ProcessEnds ==
  /\ MayExit /\ up
  /\ up' = FALSE
  /\ job' = [j \in Jobs |-> NoJob]
  /\ starter' = [s \in Starters |-> NoCall]
  /\ status' = NoTest
  /\ UNCHANGED <<listVars, launched, tunVars, restarts, newcomers>>

\* A new process: what survives of the blacklist is what disk holds, if it can be
\* read.
Restart ==
  /\ ~up /\ restarts < MaxRestarts
  /\ up' = TRUE /\ restarts' = restarts + 1
  /\ blacklist' \in {disk, {}}
  /\ newcomers' = {}
  /\ UNCHANGED <<disk, status, starter, launched, job, tunVars>>

-----------------------------------------------------------------------------
(* StartBlacklistTest                                                       *)

\* LoadNodes, without the lock: the hosts of whatever pool was saved last; an
\* unreadable file counts as an empty pool.
LoadNodes(s) ==
  /\ up /\ starter[s].at = "idle"
  /\ \E known \in Pools :
       starter' = [starter EXCEPT ![s] = [at |-> "load", known |-> known]]
  /\ UNCHANGED <<listVars, status, launched, job, tunVars, up, restarts, newcomers>>

Refuse(s) ==
  /\ starter[s].at = "load" /\ status.running
  /\ starter' = [starter EXCEPT ![s] = NoCall]
  /\ UNCHANGED <<listVars, status, launched, job, tunVars, up, restarts, newcomers>>

\* The snapshot of the blacklist becomes the list of pending results.
Pending(hosts) == [k \in DOMAIN hosts |-> [host |-> hosts[k], status |-> "pending"]]

\* Under the lock: no job is running, so this call's job starts.
Launch(s) ==
  /\ starter[s].at = "load" /\ ~status.running /\ launched < MaxJobs
  /\ starter' = [starter EXCEPT ![s] = NoCall]
  /\ status' = [running |-> TRUE, completed |-> 0, results |-> Pending(Sorted[blacklist])]
  /\ launched' = launched + 1
  /\ job' = [job EXCEPT ![launched'] = Goroutine("loop", Sorted[blacklist], starter[s].known)]
  /\ newcomers' = {}
  /\ UNCHANGED <<listVars, tunVars, up, restarts>>

-----------------------------------------------------------------------------
(* RestoreAvailableBlacklist, one critical section                          *)

Passed == {status.results[k].host :
             k \in {l \in DOMAIN status.results : status.results[l].status = "passed"}}

\* Mutant: a running job does not keep it from restoring.
Restore_WhileRunning ==
  /\ up /\ Passed \cap blacklist # {}
  /\ \/ disk' = blacklist \ Passed /\ blacklist' = blacklist \ Passed
     \/ FALSE \in SaveOutcomes /\ disk' \in {disk, blacklist \ Passed} /\ UNCHANGED blacklist
  /\ UNCHANGED <<status, starter, launched, job, tunVars, up, restarts, newcomers>>

\* The file is written before memory; a failed save may have replaced it.
Restore ==
  /\ up /\ ~status.running
  /\ Passed \cap blacklist # {}
  /\ \/ disk' = blacklist \ Passed /\ blacklist' = blacklist \ Passed
     \/ FALSE \in SaveOutcomes /\ disk' \in {disk, blacklist \ Passed} /\ UNCHANGED blacklist
  /\ UNCHANGED <<status, starter, launched, job, tunVars, up, restarts, newcomers>>

-----------------------------------------------------------------------------
(* runBlacklistTest and verifyBlacklistedNode                               *)

\* What the steps of job j leave alone.
Aside == UNCHANGED <<listVars, starter, launched, up, restarts, newcomers>>

Goto(j, l) == job' = [job EXCEPT ![j].pc = l]
Fail(j, l) == job' = [job EXCEPT ![j].pc = l, ![j].verdict = "failed"]
At(j, l) == job[j].pc = l
Host(j) == job[j].hosts[job[j].i]

\* setBlacklistTestResult.
SetResult(k, h, verdict, completed) ==
  status' = IF k > Len(status.results) THEN status
            ELSE [status EXCEPT !.results[k] = [host |-> h, status |-> verdict],
                                !.completed = @ + completed]

\* The next host is "running"; one that was not in the pool is skipped.
Announce(j) ==
  /\ At(j, "loop") /\ job[j].i <= Len(job[j].hosts)
  /\ SetResult(job[j].i, Host(j), "running", 0)
  /\ IF Host(j) \in job[j].known
       THEN Goto(j, "files")
       ELSE job' = [job EXCEPT ![j].pc = "report", ![j].verdict = "skipped"]
  /\ UNCHANGED tunVars /\ Aside

\* prepareProbeFiles, which tries to remove what it created when it fails.
PrepareFiles(j) ==
  /\ At(j, "files")
  /\ \/ Goto(j, "start") /\ files' = files \cup {j} /\ UNCHANGED litter
     \/ /\ Fail(j, "report") /\ UNCHANGED files
        /\ litter' \in {litter, litter \cup {"files"}}
  /\ UNCHANGED <<status, openvpn, rule>> /\ Aside

StartProbe(j) ==
  /\ At(j, "start")
  /\ \/ Goto(j, "handshake") /\ openvpn' = [openvpn EXCEPT ![j] = "up"]
     \/ Fail(j, "unfile") /\ UNCHANGED openvpn
  /\ UNCHANGED <<status, rule, files, litter>> /\ Aside

\* Mutant: a failed handshake returns without the deferred Stop.
Handshake_NoStop(j) ==
  /\ At(j, "handshake")
  /\ Goto(j, "settle") \/ Fail(j, "unfile")
  /\ UNCHANGED <<status, tunVars>> /\ Aside

\* WaitHandshakeContext: the token, or an event, the timer or ctx.
Handshake(j) ==
  /\ At(j, "handshake")
  /\ Goto(j, "settle") \/ Fail(j, "stop")
  /\ UNCHANGED <<status, tunVars>> /\ Aside

\* Mutant: the pause is only ended by the exit of the process.
Settle_UntilExit(j) ==
  /\ At(j, "settle") /\ openvpn[j] = "exited"
  /\ Goto(j, "route") \/ Fail(j, "stop")
  /\ UNCHANGED <<status, tunVars>> /\ Aside

\* sleepCtx, cut short by ctx, and Device, which may be unknown.
Settle(j) ==
  /\ At(j, "settle")
  /\ Goto(j, "route") \/ Fail(j, "stop")
  /\ UNCHANGED <<status, tunVars>> /\ Aside

\* clearDeviceRoute: the rule, then the table, both ignoring errors.  A route goes
\* with its device at the latest; a rule that could not be deleted stays.
ClearDeviceRoute ==
  /\ rule' \in {rule, 0}
  /\ litter' = IF rule' # 0 THEN litter \cup {"rule"} ELSE litter \ {"rule"}

\* setupDeviceRoute: clears any rule first, then installs this one; ip may fail.
InstallRoute(j) ==
  /\ At(j, "route")
  /\ \/ /\ openvpn[j] = "up" /\ Goto(j, "probe")
        /\ rule' = j /\ litter' = litter \ {"rule"}
     \/ Fail(j, "stop") /\ ClearDeviceRoute
  /\ UNCHANGED <<status, openvpn, files>> /\ Aside

\* The tries of prober.Check, as one step with one result.  The rule's table is
\* empty once the device is gone: the request then takes the default route.
Probe(j) ==
  /\ At(j, "probe")
  /\ \E v \in {"passed", "failed"} :
       job' = [job EXCEPT ![j].pc = "unroute", ![j].verdict = v]
  /\ UNCHANGED <<status, tunVars>> /\ Aside

\* The deferred calls, last first: cleanupRoute, tun.Stop, cleanup.
ClearRoute(j) ==
  /\ At(j, "unroute")
  /\ Goto(j, "stop") /\ ClearDeviceRoute
  /\ UNCHANGED <<status, openvpn, files>> /\ Aside

StopProbe(j) ==
  /\ At(j, "stop")
  /\ Goto(j, "unfile") /\ openvpn' = [openvpn EXCEPT ![j] = "none"]
  /\ UNCHANGED <<status, rule, files, litter>> /\ Aside

RemoveFiles(j) ==
  /\ At(j, "unfile")
  /\ Goto(j, "report") /\ files' = files \ {j}
  /\ litter' \in {litter, litter \cup {"files"}}
  /\ UNCHANGED <<status, openvpn, rule>> /\ Aside

\* The verdict is published and counted.
Report(j) ==
  /\ At(j, "report")
  /\ SetResult(job[j].i, Host(j), job[j].verdict, 1)
  /\ job' = [job EXCEPT ![j].pc = "loop", ![j].i = @ + 1]
  /\ UNCHANGED tunVars /\ Aside

\* Mutant: the job ends one host early.
FinishJob_Early(j) ==
  /\ At(j, "loop") /\ job[j].i >= Len(job[j].hosts)
  /\ job' = [job EXCEPT ![j] = Goroutine("over", <<>>, {})]
  /\ status' = [status EXCEPT !.running = FALSE]
  /\ UNCHANGED tunVars /\ Aside

FinishJob(j) ==
  /\ At(j, "loop") /\ job[j].i > Len(job[j].hosts)
  /\ job' = [job EXCEPT ![j] = Goroutine("over", <<>>, {})]
  /\ status' = [status EXCEPT !.running = FALSE]
  /\ UNCHANGED tunVars /\ Aside

\* openvpn exits by itself; its device is gone.
ProbeExits(j) ==
  /\ openvpn[j] = "up"
  /\ openvpn' = [openvpn EXCEPT ![j] = "exited"]
  /\ UNCHANGED <<listVars, status, starter, launched, job, rule, files, litter>>
  /\ UNCHANGED <<up, restarts, newcomers>>

-----------------------------------------------------------------------------

Verify(j) ==
  \/ PrepareFiles(j) \/ StartProbe(j) \/ Handshake(j) \/ Settle(j) \/ InstallRoute(j)
  \/ Probe(j) \/ ClearRoute(j) \/ StopProbe(j) \/ RemoveFiles(j)

\* The process has ended for good.
Ended == ~up /\ restarts = MaxRestarts /\ UNCHANGED vars

JobStep(j) == Announce(j) \/ Verify(j) \/ Report(j) \/ FinishJob(j)

Next ==
  \/ \E h \in Hosts : Mark(h)
  \/ ProcessEnds \/ Restart \/ Ended \/ Restore
  \/ \E s \in Starters : LoadNodes(s) \/ Refuse(s) \/ Launch(s)
  \/ \E j \in Jobs : JobStep(j) \/ ProbeExits(j)

Spec == Init /\ [][Next]_vars

\* A job's goroutine is scheduled; its waits have timers, Stop returns.
FairSpec == Spec /\ \A j \in Jobs : WF_vars(JobStep(j))

-----------------------------------------------------------------------------
(* Properties                                                               *)

Active(j) == job[j].pc \notin {"idle", "over"}

TypeOK ==
  /\ blacklist \subseteq Hosts /\ disk \subseteq Hosts
  /\ status \in [running : BOOLEAN, completed : Nat,
                 results : Seq([host : Hosts, status : Verdicts \cup {"pending", "running"}])]
  /\ status.completed <= Len(status.results)
  /\ starter \in [Starters -> [at : {"idle", "load"}, known : SUBSET Hosts]]
  /\ launched \in 0..MaxJobs
  /\ job \in [Jobs -> [pc : {"idle", "loop", "files", "start", "handshake", "settle", "route",
                             "probe", "unroute", "stop", "unfile", "report", "over"},
                       hosts : Seq(Hosts), known : SUBSET Hosts, i : Nat \ {0},
                       verdict : Verdicts]]
  /\ openvpn \in [Jobs -> {"none", "up", "exited"}]
  /\ rule \in Jobs \cup {0} /\ files \subseteq Jobs /\ litter \subseteq {"rule", "files"}
  /\ up \in BOOLEAN /\ restarts \in 0..MaxRestarts
  /\ newcomers \subseteq Hosts

\* "one serial validation job": however calls overlap, at most one goroutine is
\* at work, and Running says whether one is (manager.go:510-551).
OneJob ==
  /\ \A j, k \in Jobs : Active(j) /\ Active(k) => j = k
  /\ status.running <=> \E j \in Jobs : Active(j)

\* What BlacklistTestStatus shows: the results before the job's position are
\* final and counted, those after it pending, and a job that is not running has
\* a verdict for every host of its snapshot; and the job is the only one
\* (manager.go:520-597).
Accounted ==
  LET Final(k) == status.results[k].status \in Verdicts IN
  /\ OneJob
  /\ \A j \in Jobs : Active(j) =>
       /\ status.completed = job[j].i - 1
       /\ \A k \in DOMAIN status.results :
            /\ status.results[k].host = job[j].hosts[k]
            /\ k < job[j].i => Final(k)
            /\ k > job[j].i => status.results[k].status = "pending"
  /\ ~status.running =>
       /\ status.completed = Len(status.results)
       /\ \A k \in DOMAIN status.results : Final(k)

\* Between two hosts, and after the job, every deferred call has been made, whatever
\* failed: no openvpn is left, the files were given to os.Remove; and the rule
\* outlives the tunnel it leads to only if deleting it failed (manager.go:642-690).
\* A job that is cut off by the end of the process makes none of these calls.
ProbeCleanedUp ==
  \A j \in Jobs :
    /\ job[j].pc \in {"loop", "report", "over"} => openvpn[j] = "none" /\ j \notin files
    /\ job[j].pc # "idle" /\ openvpn[j] = "none" /\ rule = j => "rule" \in litter

\* "nodes newly blacklisted while it runs are not restored by a result they did
\* not participate in" (manager.go:511-512).
NewcomersKept == [][blacklist' # blacklist /\ up' = up => newcomers \cap blacklist \subseteq blacklist']_vars

\* A job comes to its end, whatever fails on the way, unless the process ends first.
JobFinishes == status.running ~> (~status.running \/ ~up)
=============================================================================
