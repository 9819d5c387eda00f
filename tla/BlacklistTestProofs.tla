-------------------------- MODULE BlacklistTestProofs --------------------------
(***************************************************************************)
(* Proofs about BlacklistTest, for any hosts, callers and numbers of jobs.   *)
(*                                                                          *)
(* That one job runs at a time, and that what it publishes adds up, is one   *)
(* inductive invariant: the results are written by position, so the job's    *)
(* position has to stay within the list of its own snapshot (JobView), which *)
(* no other job may replace while it runs (OneJob).                          *)
(***************************************************************************)
EXTENDS BlacklistTest, TLAPS

USE BlacklistTestAssumption DEF BlacklistTestAssumption

Working == {"files", "start", "handshake", "settle", "route", "probe", "unroute", "stop",
            "unfile", "report"}

Result == [host : Hosts, status : Verdicts \cup {"pending", "running"}]

JobType == [pc : Working \cup {"idle", "loop", "over"}, hosts : Seq(Hosts),
            known : SUBSET Hosts, i : Nat \ {0}, verdict : Verdicts]

\* The part of the types that the jobs and their results need.
Types ==
  /\ blacklist \subseteq Hosts /\ disk \subseteq Hosts
  /\ status \in [running : BOOLEAN, completed : Nat, results : Seq(Result)]
  /\ starter \in [Starters -> [at : {"idle", "load"}, known : SUBSET Hosts]]
  /\ launched \in 0..MaxJobs
  /\ job \in [Jobs -> JobType]

\* A job at work and the results it is filling in.
JobView(j) ==
  /\ Len(status.results) = Len(job[j].hosts)
  /\ job[j].i <= Len(job[j].hosts) + 1
  /\ job[j].pc # "loop" => job[j].i <= Len(job[j].hosts)
  /\ status.completed = job[j].i - 1
  /\ \A k \in 1..Len(status.results) :
       /\ status.results[k].host = job[j].hosts[k]
       /\ k < job[j].i => status.results[k].status \in Verdicts
       /\ k > job[j].i => status.results[k].status = "pending"

\* The results of a job that is over, or of none.
Closed ==
  /\ status.completed = Len(status.results)
  /\ \A k \in 1..Len(status.results) : status.results[k].status \in Verdicts

JobInv ==
  /\ Types
  /\ OneJob
  /\ \A j \in Jobs : Active(j) => JobView(j)
  /\ ~status.running => Closed

-----------------------------------------------------------------------------

\* A step inside a verification moves its own job on and touches no result.
LEMMA VerifyMoves ==
  ASSUME Types, NEW j \in Jobs, Verify(j)
  PROVE  /\ UNCHANGED <<blacklist, disk, status, starter, launched, newcomers, up>>
         /\ job[j].pc \in Working
         /\ \E l \in Working, v \in Verdicts :
              job' = [job EXCEPT ![j].pc = l, ![j].verdict = v]
<1>1. job[j].verdict \in Verdicts
  BY DEF Types, JobType
<1>2. job[j] \in JobType /\ job \in [Jobs -> JobType]
  BY DEF Types
<1>3. \A l \in Working : Goto(j, l) => job' = [job EXCEPT ![j].pc = l, ![j].verdict = job[j].verdict]
  BY <1>2 DEF Goto, JobType
<1>4. \A l \in Working : Fail(j, l) => job' = [job EXCEPT ![j].pc = l, ![j].verdict = "failed"]
  BY DEF Fail
<1>5. \E l \in Working : Goto(j, l) \/ Fail(j, l) \/ \E v \in {"passed", "failed"} :
        job' = [job EXCEPT ![j].pc = l, ![j].verdict = v]
  BY DEF Verify, PrepareFiles, StartProbe, Handshake, Settle, InstallRoute, Probe, ClearRoute,
         StopProbe, RemoveFiles, Working
<1>6. "failed" \in Verdicts /\ {"passed", "failed"} \subseteq Verdicts
  BY DEF Verdicts
<1>7. UNCHANGED <<blacklist, disk, status, starter, launched, newcomers, up>> /\ job[j].pc \in Working
  BY DEF Verify, PrepareFiles, StartProbe, Handshake, Settle, InstallRoute, Probe, ClearRoute,
         StopProbe, RemoveFiles, Working, Aside, At, listVars
<1> QED
  BY <1>1, <1>3, <1>4, <1>5, <1>6, <1>7

\* Moving a job on inside a verification keeps the invariant.
LEMMA MovePreserves ==
  ASSUME JobInv, NEW j \in Jobs, Active(j),
         job[j].i <= Len(job[j].hosts),
         NEW l \in Working, NEW v \in Verdicts,
         job' = [job EXCEPT ![j].pc = l, ![j].verdict = v],
         UNCHANGED <<blacklist, disk, starter, launched>>,
         status'.running = status.running,
         status' \in [running : BOOLEAN, completed : Nat, results : Seq(Result)],
         Len(status'.results) = Len(status.results),
         status'.completed = status.completed,
         \A k \in 1..Len(status.results) :
           /\ status'.results[k].host = status.results[k].host
           /\ k # job[j].i => status'.results[k] = status.results[k]
  PROVE  JobInv'
<1>1. job \in [Jobs -> JobType] /\ job[j] \in JobType
  BY DEF JobInv, Types
<1>2. /\ job' \in [Jobs -> JobType]
      /\ job'[j].pc = l /\ job'[j].i = job[j].i /\ job'[j].hosts = job[j].hosts
      /\ \A k \in Jobs : k # j => job'[k] = job[k]
  BY <1>1 DEF JobType
<1>3. \A k \in Jobs : Active(k)' <=> Active(k)
  BY <1>2 DEF Active, Working
<1>4. Types'
  BY <1>2 DEF JobInv, Types
<1>5. OneJob' /\ status'.running
  BY <1>3 DEF JobInv, OneJob
<1>6. ASSUME NEW k \in Jobs, Active(k)' PROVE JobView(k)'
  <2>1. k = j
    BY <1>3, <1>6 DEF JobInv, OneJob
  <2>2. JobView(j)
    BY DEF JobInv
  <2>3. job[j].i \in Nat /\ Len(status.results) \in Nat
    BY <1>1 DEF JobInv, Types, JobType
  <2>4. /\ Len(status'.results) = Len(job'[j].hosts)
        /\ job'[j].i <= Len(job'[j].hosts)
        /\ status'.completed = job'[j].i - 1
    BY <1>2, <2>2 DEF JobView
  <2>5. ASSUME NEW m \in 1..Len(status'.results)
        PROVE  /\ status'.results[m].host = job'[j].hosts[m]
               /\ m < job'[j].i => status'.results[m].status \in Verdicts
               /\ m > job'[j].i => status'.results[m].status = "pending"
    <3>1. m \in 1..Len(status.results) /\ m \in Nat
      BY <2>3
    <3>2. m < job[j].i \/ m > job[j].i => status'.results[m] = status.results[m]
      BY <2>3, <3>1
    <3> QED
      BY <1>2, <2>2, <2>3, <3>1, <3>2 DEF JobView
  <2>6. JobView(j)'
    BY <1>2, <2>3, <2>4, <2>5 DEF JobView
  <2> QED
    BY <2>1, <2>6
<1> QED
  BY <1>4, <1>5, <1>6 DEF JobInv

\* A caller that finds no job running starts one on a fresh list of results.
LEMMA LaunchPreserves ==
  ASSUME JobInv, NEW s \in Starters, Launch(s)
  PROVE  JobInv'
<1> DEFINE hosts == Sorted[blacklist]
           new == Goroutine("loop", hosts, starter[s].known)
<1>1. hosts \in Seq(Hosts) /\ starter[s].known \in SUBSET Hosts
  BY DEF JobInv, Types
<1>2. launched' \in Jobs /\ launched' \in 0..MaxJobs /\ job' = [job EXCEPT ![launched'] = new]
  BY DEF JobInv, Types, Launch, Jobs
<1> PICK n \in Jobs : n = launched' /\ job' = [job EXCEPT ![n] = new]
  BY <1>2
<1>3. /\ new \in JobType
      /\ new.pc = "loop" /\ new.hosts = hosts /\ new.i = 1
  BY <1>1 DEF Goroutine, JobType, Verdicts
<1> HIDE DEF new
<1>4. /\ job' \in [Jobs -> JobType] /\ job'[n] = new
      /\ \A k \in Jobs : k # n => job'[k] = job[k]
  BY <1>2, <1>3 DEF JobInv, Types
<1>5. \A k \in Jobs : ~Active(k)
  BY DEF JobInv, OneJob, Launch
<1>6. \A k \in Jobs : Active(k)' <=> k = n
  BY <1>2, <1>3, <1>4, <1>5 DEF Active
<1>7. /\ Pending(hosts) \in Seq(Result) /\ Len(Pending(hosts)) = Len(hosts)
      /\ \A k \in 1..Len(hosts) :
           Pending(hosts)[k].host = hosts[k] /\ Pending(hosts)[k].status = "pending"
  <2> DEFINE cell(k) == [host |-> hosts[k], status |-> "pending"]
  <2>1. DOMAIN hosts = 1..Len(hosts) /\ Len(hosts) \in Nat
    BY <1>1
  <2>2. \A k \in 1..Len(hosts) : cell(k) \in Result
    BY <1>1 DEF Result
  <2>3. Pending(hosts) = [k \in 1..Len(hosts) |-> cell(k)]
    BY <2>1 DEF Pending
  <2>4. Pending(hosts) \in [1..Len(hosts) -> Result]
    BY <2>2, <2>3
  <2>5. Pending(hosts) \in Seq(Result)
    BY <2>1, <2>4
  <2>6. Len(Pending(hosts)) = Len(hosts)
    BY <2>1, <2>4, <2>5
  <2> QED
    BY <2>3, <2>5, <2>6
<1>8. status' = [running |-> TRUE, completed |-> 0, results |-> Pending(hosts)]
  BY DEF Launch
<1>9. Types'
  <2>1. blacklist' \subseteq Hosts /\ disk' \subseteq Hosts
    BY DEF JobInv, Types, Launch, listVars
  <2>3. status' \in [running : BOOLEAN, completed : Nat, results : Seq(Result)]
    BY <1>7, <1>8
  <2>2. starter' \in [Starters -> [at : {"idle", "load"}, known : SUBSET Hosts]]
    BY DEF JobInv, Types, Launch, NoCall
  <2> QED
    BY <1>2, <1>4, <2>1, <2>2, <2>3 DEF Types
<1>10. OneJob' /\ status'.running
  BY <1>2, <1>6, <1>8 DEF OneJob
<1>11. JobView(n)'
  BY <1>1, <1>3, <1>4, <1>7, <1>8 DEF JobView
<1> QED
  BY <1>6, <1>9, <1>10, <1>11 DEF JobInv

LEMMA AnnouncePreserves ==
  ASSUME JobInv, NEW j \in Jobs, Announce(j)
  PROVE  JobInv'
<1> DEFINE i == job[j].i
           cell == [host |-> Host(j), status |-> "running"]
<1>1. /\ job[j] \in JobType /\ job \in [Jobs -> JobType] /\ i \in Nat \ {0}
      /\ status \in [running : BOOLEAN, completed : Nat, results : Seq(Result)]
  BY DEF JobInv, Types, JobType
<1>2. Active(j) /\ JobView(j)
  BY DEF JobInv, Announce, At, Active
<1>3. i \in 1..Len(job[j].hosts) /\ i <= Len(status.results) /\ Len(status.results) \in Nat
  BY <1>1, <1>2 DEF Announce, JobView
<1>4. Host(j) \in Hosts /\ cell \in Result /\ cell.host = status.results[i].host
  BY <1>1, <1>2, <1>3 DEF Host, Result, JobType, JobView
<1>5. status' = [status EXCEPT !.results[i] = cell, !.completed = @ + 0]
  BY <1>1, <1>3 DEF Announce, SetResult
<1>6. /\ status'.running = status.running /\ status'.completed = status.completed
      /\ status'.results = [status.results EXCEPT ![i] = cell]
  BY <1>1, <1>5
<1>7. /\ status'.results \in Seq(Result) /\ Len(status'.results) = Len(status.results)
      /\ status'.results[i] = cell
      /\ \A k \in 1..Len(status.results) : k # i => status'.results[k] = status.results[k]
  BY <1>1, <1>3, <1>4, <1>6
<1>8. status' \in [running : BOOLEAN, completed : Nat, results : Seq(Result)]
  BY <1>1, <1>5, <1>6, <1>7
<1>9. \E l \in Working, v \in Verdicts : job' = [job EXCEPT ![j].pc = l, ![j].verdict = v]
  <2>1. job[j].verdict \in Verdicts
    BY <1>1 DEF JobType
  <2>2. Goto(j, "files") => job' = [job EXCEPT ![j].pc = "files", ![j].verdict = job[j].verdict]
    BY <1>1 DEF Goto, JobType
  <2> QED
    BY <2>1, <2>2 DEF Announce, Working, Verdicts
<1>10. UNCHANGED <<blacklist, disk, starter, launched>>
  BY DEF Announce, Aside, listVars
<1>11. \A k \in 1..Len(status.results) :
         /\ status'.results[k].host = status.results[k].host
         /\ k # i => status'.results[k] = status.results[k]
  BY <1>4, <1>7
<1> HIDE DEF cell
<1>12. PICK l \in Working, v \in Verdicts : job' = [job EXCEPT ![j].pc = l, ![j].verdict = v]
  BY <1>9
<1>13. job[j].i <= Len(job[j].hosts)
  BY <1>1, <1>3
<1>14. \A k \in 1..Len(status.results) :
         /\ status'.results[k].host = status.results[k].host
         /\ k # job[j].i => status'.results[k] = status.results[k]
  BY <1>11
<1> HIDE DEF i
<1> QED
  BY <1>2, <1>6, <1>7, <1>8, <1>10, <1>12, <1>13, <1>14, MovePreserves

\* The verdict is stored at the job's position, which it then leaves.
LEMMA ReportPreserves ==
  ASSUME JobInv, NEW j \in Jobs, Report(j)
  PROVE  JobInv'
<1> DEFINE i == job[j].i
           cell == [host |-> Host(j), status |-> job[j].verdict]
<1>1. /\ job[j] \in JobType /\ job \in [Jobs -> JobType] /\ i \in Nat \ {0}
      /\ status \in [running : BOOLEAN, completed : Nat, results : Seq(Result)]
  BY DEF JobInv, Types, JobType
<1>2. Active(j) /\ JobView(j)
  BY DEF JobInv, Report, At, Active
<1>3. i \in 1..Len(job[j].hosts) /\ i <= Len(status.results) /\ Len(status.results) \in Nat
  BY <1>1, <1>2 DEF Report, At, JobView
<1>4. Host(j) \in Hosts /\ cell \in Result /\ cell.host = status.results[i].host
  BY <1>1, <1>2, <1>3 DEF Host, Result, JobType, JobView
<1>5. status' = [status EXCEPT !.results[i] = cell, !.completed = @ + 1]
  BY <1>1, <1>3 DEF Report, SetResult
<1>6. /\ status'.running = status.running /\ status'.completed = status.completed + 1
      /\ status'.results = [status.results EXCEPT ![i] = cell]
  BY <1>1, <1>5
<1>7. /\ status'.results \in Seq(Result) /\ Len(status'.results) = Len(status.results)
      /\ status'.results[i] = cell
      /\ \A k \in 1..Len(status.results) : k # i => status'.results[k] = status.results[k]
  BY <1>1, <1>3, <1>4, <1>6
<1>8. status' \in [running : BOOLEAN, completed : Nat, results : Seq(Result)]
  <2>1. PICK n \in Nat : n = status.completed + 1
    BY <1>1
  <2>2. status' = [status EXCEPT !.results = status'.results, !.completed = n]
    BY <1>1, <1>5, <1>6, <2>1
  <2> QED
    BY <1>1, <1>7, <2>2
<1>9. /\ job' \in [Jobs -> JobType]
      /\ job'[j].pc = "loop" /\ job'[j].i = i + 1 /\ job'[j].hosts = job[j].hosts
      /\ \A k \in Jobs : k # j => job'[k] = job[k]
  <2>1. PICK n \in Nat \ {0} : n = i + 1
    BY <1>1
  <2>2. job' = [job EXCEPT ![j].pc = "loop", ![j].i = n]
    BY <2>1 DEF Report
  <2> HIDE DEF i
  <2> QED
    BY <1>1, <2>1, <2>2 DEF JobType
<1>10. Types'
  BY <1>8, <1>9 DEF JobInv, Types, Report, Aside, listVars
<1>11. \A k \in Jobs : Active(k)' <=> Active(k)
  BY <1>2, <1>9 DEF Active
<1>12. OneJob' /\ status'.running
  BY <1>2, <1>6, <1>11 DEF JobInv, OneJob
<1>13. JobView(j)'
  <2>1. /\ Len(status'.results) = Len(job'[j].hosts)
        /\ job'[j].i <= Len(job'[j].hosts) + 1
        /\ status'.completed = job'[j].i - 1
    BY <1>1, <1>2, <1>3, <1>6, <1>7, <1>9 DEF JobView
  <2>2. ASSUME NEW m \in 1..Len(status'.results)
        PROVE  /\ status'.results[m].host = job'[j].hosts[m]
               /\ m < job'[j].i => status'.results[m].status \in Verdicts
               /\ m > job'[j].i => status'.results[m].status = "pending"
    <3>1. m \in 1..Len(status.results) /\ m \in Nat
      BY <1>3, <1>7
    <3>2. CASE m = i
      BY <1>1, <1>2, <1>4, <1>7, <1>9, <3>1, <3>2 DEF JobView, JobType
    <3>3. CASE m # i
      <4>1. status'.results[m] = status.results[m]
        BY <1>7, <3>1, <3>3
      <4> QED
        BY <1>1, <1>2, <1>9, <3>1, <3>3, <4>1 DEF JobView
    <3> QED
      BY <3>2, <3>3
  <2> QED
    BY <1>9, <2>1, <2>2 DEF JobView
<1> HIDE DEF cell
<1> QED
  BY <1>2, <1>10, <1>11, <1>12, <1>13 DEF JobInv, OneJob

LEMMA FinishPreserves ==
  ASSUME JobInv, NEW j \in Jobs, FinishJob(j)
  PROVE  JobInv'
<1>1. /\ job[j] \in JobType /\ job \in [Jobs -> JobType] /\ job[j].i \in Nat \ {0}
      /\ status \in [running : BOOLEAN, completed : Nat, results : Seq(Result)]
      /\ Len(status.results) \in Nat
  BY DEF JobInv, Types, JobType
<1>2. Active(j) /\ JobView(j)
  BY DEF JobInv, FinishJob, At, Active
<1>3. Goroutine("over", <<>>, {}) \in JobType /\ Goroutine("over", <<>>, {}).pc = "over"
  BY DEF Goroutine, JobType, Verdicts
<1>4. job' \in [Jobs -> JobType] /\ \A k \in Jobs : ~Active(k)'
  BY <1>1, <1>2, <1>3 DEF FinishJob, Active, JobInv, OneJob
<1>5. /\ status' \in [running : BOOLEAN, completed : Nat, results : Seq(Result)]
      /\ status'.running = FALSE /\ status'.completed = status.completed
      /\ status'.results = status.results
  BY <1>1 DEF FinishJob
<1>6. Types'
  BY <1>4, <1>5 DEF JobInv, Types, FinishJob, Aside, listVars
<1>7. Closed'
  BY <1>1, <1>2, <1>5 DEF FinishJob, JobView, Closed
<1> QED
  BY <1>4, <1>5, <1>6, <1>7 DEF JobInv, OneJob

\* Nothing else touches the jobs, unless the process ends and takes all of them.
LEMMA JobInductive == JobInv /\ [Next]_vars => JobInv'
<1> SUFFICES ASSUME JobInv, [Next]_vars PROVE JobInv'
  OBVIOUS
<1> USE DEF listVars, tunVars
<1>1. ASSUME UNCHANGED <<status, job, launched>>, blacklist' \subseteq Hosts,
             disk' \subseteq Hosts,
             starter' \in [Starters -> [at : {"idle", "load"}, known : SUBSET Hosts]]
      PROVE  JobInv'
  BY <1>1 DEF JobInv, Types, OneJob, Active, JobView, Closed
<1>2. /\ blacklist \subseteq Hosts /\ disk \subseteq Hosts
      /\ starter \in [Starters -> [at : {"idle", "load"}, known : SUBSET Hosts]]
  BY DEF JobInv, Types
<1>3. ASSUME NEW h \in Hosts, Mark(h) PROVE JobInv'
  BY <1>1, <1>2, <1>3 DEF Mark
<1>4. CASE ProcessEnds
  <2>1. /\ job' = [j \in Jobs |-> NoJob] /\ NoJob \in JobType /\ NoJob.pc = "idle"
    BY <1>4 DEF ProcessEnds, NoJob, Goroutine, JobType, Verdicts
  <2>2. \A j \in Jobs : ~Active(j)'
    BY <2>1 DEF Active
  <2>3. /\ status' \in [running : BOOLEAN, completed : Nat, results : Seq(Result)]
        /\ status'.running = FALSE /\ status'.completed = 0 /\ status'.results = <<>>
    BY <1>4 DEF ProcessEnds, NoTest
  <2>4. Types'
    BY <1>2, <1>4, <2>1, <2>3 DEF ProcessEnds, NoCall, JobInv, Types
  <2> QED
    BY <2>2, <2>3, <2>4 DEF JobInv, OneJob, Closed
<1>5. CASE Restart \/ Ended \/ UNCHANGED vars
  <2>1. CASE Restart
    BY <1>1, <1>2, <2>1 DEF Restart
  <2> QED
    BY <1>1, <1>2, <1>5, <2>1 DEF Ended, vars
<1>6. CASE Restore
  BY <1>1, <1>2, <1>6 DEF Restore
<1>7. ASSUME NEW s \in Starters, LoadNodes(s) PROVE JobInv'
  BY <1>1, <1>2, <1>7 DEF LoadNodes
<1>8. ASSUME NEW s \in Starters, Refuse(s) PROVE JobInv'
  BY <1>1, <1>2, <1>8 DEF Refuse, NoCall
<1>9. ASSUME NEW s \in Starters, Launch(s) PROVE JobInv'
  BY <1>9, LaunchPreserves
<1>10. ASSUME NEW j \in Jobs, Verify(j) PROVE JobInv'
  <2>1. /\ UNCHANGED <<blacklist, disk, status, starter, launched>> /\ job[j].pc \in Working
        /\ \E l \in Working, v \in Verdicts :
             job' = [job EXCEPT ![j].pc = l, ![j].verdict = v]
    BY <1>10, VerifyMoves DEF JobInv
  <2>2. PICK l \in Working, v \in Verdicts : job' = [job EXCEPT ![j].pc = l, ![j].verdict = v]
    BY <2>1
  <2>3. Active(j) /\ job[j].i <= Len(job[j].hosts)
    BY <2>1 DEF Active, Working, JobInv, JobView
  <2>4. status' \in [running : BOOLEAN, completed : Nat, results : Seq(Result)]
    BY <2>1 DEF JobInv, Types
  <2> QED
    BY <2>1, <2>2, <2>3, <2>4, MovePreserves
<1>11. ASSUME NEW j \in Jobs, Announce(j) PROVE JobInv'
  BY <1>11, AnnouncePreserves
<1>12. ASSUME NEW j \in Jobs, Report(j) PROVE JobInv'
  BY <1>12, ReportPreserves
<1>13. ASSUME NEW j \in Jobs, FinishJob(j) PROVE JobInv'
  BY <1>13, FinishPreserves
<1>14. ASSUME NEW j \in Jobs, ProbeExits(j) PROVE JobInv'
  BY <1>1, <1>2, <1>14 DEF ProbeExits
<1> QED
  BY <1>3, <1>4, <1>5, <1>6, <1>7, <1>8, <1>9, <1>10, <1>11, <1>12, <1>13, <1>14
     DEF Next, JobStep

LEMMA JobInitially == Init => JobInv
<1> SUFFICES ASSUME Init PROVE JobInv
  OBVIOUS
<1>1. job = [j \in Jobs |-> NoJob] /\ NoJob \in JobType /\ NoJob.pc = "idle"
  BY DEF Init, NoJob, Goroutine, JobType, Verdicts
<1>2. \A j \in Jobs : ~Active(j)
  BY <1>1 DEF Active
<1>3. /\ status \in [running : BOOLEAN, completed : Nat, results : Seq(Result)]
      /\ status.running = FALSE /\ status.completed = 0 /\ status.results = <<>>
  BY DEF Init, NoTest
<1>4. Types
  BY <1>1, <1>3 DEF Init, NoCall, Types
<1> QED
  BY <1>2, <1>3, <1>4 DEF JobInv, OneJob, Closed

LEMMA JobInvariance == Spec => []JobInv
  BY JobInitially, JobInductive, PTL DEF Spec

\* However many callers ask for a verification at once, one job runs at a time,
\* and Running tells whether one does.
THEOREM Serial == Spec => []OneJob
<1>1. JobInv => OneJob
  BY DEF JobInv
<1> QED
  BY <1>1, JobInvariance, PTL

\* The published results always belong to the running job, add up to its
\* position, and are complete once it is over.
THEOREM Accounting == Spec => []Accounted
<1>1. JobInv => Accounted
  <2> SUFFICES ASSUME JobInv PROVE Accounted
    OBVIOUS
  <2>1. DOMAIN status.results = 1..Len(status.results)
    BY DEF JobInv, Types
  <2> QED
    BY <2>1 DEF JobInv, JobView, Closed, Accounted
<1> QED
  BY <1>1, JobInvariance, PTL

-----------------------------------------------------------------------------
(* Newcomers: while a job runs Restore is refused, so nothing of the job's   *)
(* snapshot leaves the blacklist, and no host of it can be a newcomer.       *)

Snapshot == {status.results[k].host : k \in 1..Len(status.results)}

\* Nothing of a job is left when the process has ended.
Down == ~up => ~status.running /\ \A s \in Starters : starter[s].at = "idle"

NewcomerInv ==
  /\ up \in BOOLEAN
  /\ Down
  /\ newcomers \cap Snapshot = {}
  /\ status.running => Snapshot \subseteq blacklist

\* A job changes the verdicts of its results, not the hosts they are about.
LEMMA SnapshotKept ==
  ASSUME JobInv, NEW j \in Jobs, JobStep(j)
  PROVE  Snapshot' = Snapshot /\ status.running /\ UNCHANGED <<blacklist, newcomers, up, starter>>
<1>1. Active(j) /\ JobView(j) /\ status.running
  <2>1. job[j].pc \in Working \cup {"loop"}
    BY VerifyMoves DEF JobInv, JobStep, Announce, Report, FinishJob, At, Working
  <2>2. Active(j)
    BY <2>1 DEF Active, Working
  <2> QED
    BY <2>2 DEF JobInv, OneJob
<1>2. CASE Verify(j)
  BY <1>1, <1>2, VerifyMoves DEF JobInv, Snapshot
<1>3. CASE FinishJob(j)
  <2>1. status'.results = status.results
    BY <1>3 DEF FinishJob, JobInv, Types
  <2> QED
    BY <1>1, <1>3, <2>1 DEF FinishJob, Aside, listVars, Snapshot
<1>4. CASE Announce(j) \/ Report(j)
  <2>1. JobInv'
    BY <1>4, AnnouncePreserves, ReportPreserves
  <2>2. job \in [Jobs -> JobType] /\ job[j].verdict \in Verdicts
    BY DEF JobInv, Types, JobType
  <2>3. job'[j].hosts = job[j].hosts /\ job'[j].pc \in Working \cup {"loop"}
    BY <1>4, <2>2 DEF Announce, Report, Goto, Working, JobType
  <2>4. JobView(j)'
    BY <2>1, <2>3 DEF JobInv, Active, Working
  <2>5. /\ Len(status'.results) = Len(status.results)
        /\ \A k \in 1..Len(status.results) : status'.results[k].host = status.results[k].host
    BY <1>1, <2>3, <2>4 DEF JobView
  <2>6. Snapshot' = Snapshot
    BY <2>5 DEF Snapshot
  <2> QED
    BY <1>1, <1>4, <2>6 DEF Announce, Report, Aside, listVars
<1> QED
  BY <1>2, <1>3, <1>4 DEF JobStep

LEMMA NewcomerInductive == JobInv /\ NewcomerInv /\ [Next]_vars => NewcomerInv'
<1> SUFFICES ASSUME JobInv, NewcomerInv, [Next]_vars PROVE NewcomerInv'
  OBVIOUS
<1>1. ASSUME UNCHANGED <<up, status, newcomers>>,
             \A s \in Starters : up \/ starter'[s].at = "idle",
             status.running => blacklist \subseteq blacklist'
      PROVE  NewcomerInv'
  BY <1>1 DEF NewcomerInv, Down, Snapshot
<1>2. \A s \in Starters : up \/ starter[s].at = "idle"
  BY DEF NewcomerInv, Down
<1>3. starter \in [Starters -> [at : {"idle", "load"}, known : SUBSET Hosts]]
  BY DEF JobInv, Types
<1>4. ASSUME NEW h \in Hosts, Mark(h) PROVE NewcomerInv'
  BY <1>4 DEF Mark, NewcomerInv, Down, Snapshot
<1>5. CASE ProcessEnds
  <2>1. Snapshot' = {} /\ ~status'.running
    BY <1>5 DEF ProcessEnds, NoTest, Snapshot
  <2>2. \A s \in Starters : starter'[s].at = "idle"
    BY <1>5 DEF ProcessEnds, NoCall
  <2>3. up' \in BOOLEAN
    BY <1>5 DEF ProcessEnds
  <2> QED
    BY <2>1, <2>2, <2>3 DEF NewcomerInv, Down
<1>6. CASE Restart
  <2>1. ~up /\ up' = TRUE /\ newcomers' = {} /\ UNCHANGED status
    BY <1>6 DEF Restart
  <2>2. ~status'.running
    BY <2>1 DEF NewcomerInv, Down
  <2> QED
    BY <2>1, <2>2 DEF NewcomerInv, Down
<1>7. CASE Ended \/ UNCHANGED vars
  BY <1>1, <1>2, <1>7 DEF Ended, vars, listVars
<1>8. CASE Restore
  BY <1>1, <1>2, <1>8 DEF Restore
<1>9. ASSUME NEW s \in Starters, LoadNodes(s) \/ Refuse(s) PROVE NewcomerInv'
  <2>1. \A t \in Starters : up \/ starter'[t].at = "idle"
    BY <1>2, <1>3, <1>9 DEF LoadNodes, Refuse, NoCall
  <2> QED
    BY <1>1, <1>9, <2>1 DEF LoadNodes, Refuse, listVars
<1>10. ASSUME NEW s \in Starters, Launch(s) PROVE NewcomerInv'
  <2>1. up /\ newcomers' = {} /\ UNCHANGED <<up, blacklist>>
    BY <1>2, <1>10 DEF Launch, listVars
  <2> DEFINE hosts == Sorted[blacklist]
  <2>2. hosts \in Seq(Hosts) /\ Listed(hosts) = blacklist
    BY DEF JobInv, Types
  <2>3. status'.results = Pending(hosts)
    BY <1>10 DEF Launch
  <2>4. /\ DOMAIN hosts = 1..Len(hosts) /\ Len(hosts) \in Nat
        /\ \A k \in 1..Len(hosts) : hosts[k] \in blacklist
    BY <2>2 DEF Listed
  <2> HIDE DEF hosts
  <2>5. Len(Pending(hosts)) = Len(hosts)
        /\ \A k \in 1..Len(hosts) : Pending(hosts)[k].host = hosts[k]
    <3>1. Pending(hosts) = [k \in 1..Len(hosts) |-> [host |-> hosts[k], status |-> "pending"]]
      BY <2>4 DEF Pending
    <3> QED
      BY <2>4, <3>1
  <2>6. Snapshot' \subseteq blacklist
    BY <2>3, <2>4, <2>5 DEF Snapshot
  <2> QED
    BY <2>1, <2>6 DEF NewcomerInv, Down
<1>11. ASSUME NEW j \in Jobs, JobStep(j) PROVE NewcomerInv'
  BY <1>11, SnapshotKept DEF NewcomerInv, Down
<1>12. ASSUME NEW j \in Jobs, ProbeExits(j) PROVE NewcomerInv'
  BY <1>1, <1>2, <1>12 DEF ProbeExits, listVars
<1> QED
  BY <1>4, <1>5, <1>6, <1>7, <1>8, <1>9, <1>10, <1>11, <1>12 DEF Next

\* A host that is blacklisted while a job runs stays blacklisted until another
\* job has looked at it: what Restore removes was in the job's snapshot.
THEOREM NewcomersStay == Spec => NewcomersKept
<1>1. Init => NewcomerInv
  BY DEF Init, NewcomerInv, Down, NoTest, NoCall, Snapshot
<1>2. JobInv /\ NewcomerInv /\ [Next]_vars =>
        (blacklist' # blacklist /\ up' = up => newcomers \cap blacklist \subseteq blacklist')
  <2> SUFFICES ASSUME JobInv, NewcomerInv, [Next]_vars, blacklist' # blacklist, up' = up
               PROVE  newcomers \cap blacklist \subseteq blacklist'
    OBVIOUS
  <2>1. CASE Restore
    <3>1. Passed \subseteq Snapshot
      BY DEF Passed, Snapshot, JobInv, Types
    <3> QED
      BY <2>1, <3>1 DEF Restore, NewcomerInv
  <2>2. CASE \E h \in Hosts : Mark(h)
    BY <2>2 DEF Mark
  <2>3. ~Restart
    BY DEF Restart, NewcomerInv
  <2>4. \A j \in Jobs : ~JobStep(j)
    BY SnapshotKept
  <2> QED
    BY <2>1, <2>2, <2>3, <2>4
       DEF Next, ProcessEnds, Ended, LoadNodes, Refuse, Launch, ProbeExits, listVars, vars
<1> QED
  BY <1>1, <1>2, NewcomerInductive, JobInvariance, PTL DEF Spec, NewcomersKept

-----------------------------------------------------------------------------
(* Resources: what a job holds, but for what could not be removed, follows   *)
(* from where it stands.                                                    *)

ResourceTypes ==
  /\ openvpn \in [Jobs -> {"none", "up", "exited"}]
  /\ rule \in Jobs \cup {0} /\ files \subseteq Jobs /\ litter \subseteq {"rule", "files"}

Holds(j) ==
  /\ openvpn[j] # "none" =>
       job[j].pc \in {"handshake", "settle", "route", "probe", "unroute", "stop", "idle"}
  /\ j \in files =>
       job[j].pc \in Working \ {"files", "report"} \/ job[j].pc = "idle"
  /\ rule = j =>
       \/ job[j].pc \in {"probe", "unroute", "idle"} /\ openvpn[j] # "none"
       \/ "rule" \in litter
  /\ j > launched =>
       job[j].pc = "idle" /\ openvpn[j] = "none" /\ j \notin files /\ rule # j

HoldInv == ResourceTypes /\ \A j \in Jobs : Holds(j)

\* A step inside a verification takes and gives back in the right order.
LEMMA VerifyHolds ==
  ASSUME JobInv, HoldInv, NEW j \in Jobs, Verify(j)
  PROVE  HoldInv'
<1> USE DEF Jobs
<1>1. /\ UNCHANGED launched
      /\ \E l \in Working, v \in Verdicts : job' = [job EXCEPT ![j].pc = l, ![j].verdict = v]
  BY VerifyMoves DEF JobInv
<1>2. job \in [Jobs -> JobType] /\ launched \in Nat
  BY DEF JobInv, Types
<1>3. \A k \in Jobs : k # j => job'[k] = job[k]
  BY <1>1, <1>2
<1>4. /\ \A l \in Working : Goto(j, l) => job'[j].pc = l
      /\ \A l \in Working : Fail(j, l) => job'[j].pc = l
  BY <1>2 DEF Goto, Fail, JobType
<1> USE DEF HoldInv, ResourceTypes, Holds, At, Working
<1>5. CASE PrepareFiles(j)
  BY <1>1, <1>2, <1>3, <1>4, <1>5 DEF PrepareFiles
<1>6. CASE StartProbe(j)
  <2>1. UNCHANGED <<rule, files, litter>> /\ job[j].pc = "start"
    BY <1>6 DEF StartProbe
  <2>2. CASE Goto(j, "handshake") /\ openvpn' = [openvpn EXCEPT ![j] = "up"]
    <3>1. job'[j].pc = "handshake"
      BY <1>4, <2>2
    <3> QED
      BY <1>1, <1>2, <1>3, <2>1, <2>2, <3>1
  <2>3. CASE Fail(j, "unfile") /\ UNCHANGED openvpn
    <3>1. job'[j].pc = "unfile"
      BY <1>4, <2>3
    <3> QED
      BY <1>1, <1>2, <1>3, <2>1, <2>3, <3>1
  <2> QED
    BY <1>6, <2>2, <2>3 DEF StartProbe
<1>7. CASE Handshake(j)
  BY <1>1, <1>2, <1>3, <1>4, <1>7 DEF Handshake, tunVars
<1>8. CASE Settle(j)
  BY <1>1, <1>2, <1>3, <1>4, <1>8 DEF Settle, tunVars
<1>9. CASE InstallRoute(j)
  BY <1>1, <1>2, <1>3, <1>4, <1>9 DEF InstallRoute, ClearDeviceRoute
<1>10. CASE Probe(j)
  <2>1. job'[j].pc = "unroute"
    BY <1>2, <1>10 DEF Probe, JobType
  <2> QED
    BY <1>1, <1>2, <1>3, <1>10, <2>1 DEF Probe, tunVars
<1>11. CASE ClearRoute(j)
  BY <1>1, <1>2, <1>3, <1>4, <1>11 DEF ClearRoute, ClearDeviceRoute
<1>12. CASE StopProbe(j)
  BY <1>1, <1>2, <1>3, <1>4, <1>12 DEF StopProbe
<1>13. CASE RemoveFiles(j)
  <2>1. litter' \subseteq {"rule", "files"} /\ ("rule" \in litter => "rule" \in litter')
    BY <1>13 DEF RemoveFiles
  <2> QED
    BY <1>1, <1>2, <1>3, <1>4, <1>13, <2>1 DEF RemoveFiles
<1> QED
  BY <1>5, <1>6, <1>7, <1>8, <1>9, <1>10, <1>11, <1>12, <1>13 DEF Verify

LEMMA HoldInductive == JobInv /\ HoldInv /\ [Next]_vars => HoldInv'
<1> SUFFICES ASSUME JobInv, HoldInv, [Next]_vars PROVE HoldInv'
  OBVIOUS
<1> USE DEF Jobs, tunVars, listVars
<1>1. job \in [Jobs -> JobType] /\ launched \in Nat /\ MaxJobs \in Nat
  BY DEF JobInv, Types
<1>2. ASSUME UNCHANGED <<job, launched, openvpn, rule, files, litter>> PROVE HoldInv'
  BY <1>2 DEF HoldInv, ResourceTypes, Holds
<1>3. CASE (\E h \in Hosts : Mark(h)) \/ Restart \/ Ended \/ Restore \/ UNCHANGED vars
  BY <1>2, <1>3 DEF Mark, Restart, Ended, Restore, vars
<1>4. CASE ProcessEnds
  <2>1. \A j \in Jobs : job'[j].pc = "idle"
    BY <1>4 DEF ProcessEnds, NoJob, Goroutine
  <2> QED
    BY <1>1, <1>4, <2>1 DEF ProcessEnds, HoldInv, ResourceTypes, Holds
<1>5. ASSUME NEW s \in Starters, LoadNodes(s) \/ Refuse(s) PROVE HoldInv'
  BY <1>2, <1>5 DEF LoadNodes, Refuse
<1>6. ASSUME NEW s \in Starters, Launch(s) PROVE HoldInv'
  <2>1. launched' = launched + 1 /\ UNCHANGED tunVars
    BY <1>6 DEF Launch
  <2>2. \A j \in Jobs : j # launched' => job'[j] = job[j]
    BY <1>1, <1>6 DEF Launch
  <2>3. \A j \in Jobs : j = launched' => job'[j].pc = "loop" /\ j > launched
    BY <1>1, <1>6, <2>1 DEF Launch, Goroutine
  <2> QED
    BY <1>1, <2>1, <2>2, <2>3 DEF HoldInv, ResourceTypes, Holds, Working
<1>7. ASSUME NEW j \in Jobs, Verify(j) PROVE HoldInv'
  BY <1>7, VerifyHolds
<1>8. ASSUME NEW j \in Jobs, Announce(j) \/ Report(j) \/ FinishJob(j) PROVE HoldInv'
  <2>1. /\ UNCHANGED <<launched, openvpn, rule, files, litter>>
        /\ job[j].pc \in {"loop", "report"}
    BY <1>8 DEF Announce, Report, FinishJob, At, Aside
  <2>2. \A k \in Jobs : k # j => job'[k] = job[k]
    BY <1>1, <1>8 DEF Announce, Report, FinishJob, Goto
  <2>3. openvpn[j] = "none" /\ j \notin files /\ (rule = j => "rule" \in litter) /\ ~(j > launched)
    BY <2>1 DEF HoldInv, Holds, Working
  <2> QED
    BY <1>1, <2>1, <2>2, <2>3 DEF HoldInv, ResourceTypes, Holds
<1>9. ASSUME NEW j \in Jobs, ProbeExits(j) PROVE HoldInv'
  BY <1>1, <1>9 DEF ProbeExits, HoldInv, ResourceTypes, Holds
<1> QED
  BY <1>3, <1>4, <1>5, <1>6, <1>7, <1>8, <1>9 DEF Next, JobStep

LEMMA HoldInvariance == Spec => []HoldInv
<1>1. Init => HoldInv
  BY DEF Init, HoldInv, ResourceTypes, Holds, NoJob, Goroutine, Jobs
<1> QED
  BY <1>1, HoldInductive, JobInvariance, PTL DEF Spec

\* Before the next host is looked at, and when the job is over, every clean-up of the
\* last verification has been made, whichever of its steps failed; and the rule is
\* there without its tunnel only if the command to delete it failed.
THEOREM CleanedUp == Spec => []ProbeCleanedUp
<1>1. JobInv /\ HoldInv => ProbeCleanedUp
  BY DEF JobInv, HoldInv, Holds, ProbeCleanedUp, Working
<1> QED
  BY <1>1, JobInvariance, HoldInvariance, PTL

\* Types, with a counter that never passes the number of results.
THEOREM Typing == Spec => []TypeOK
<1> DEFINE Rest ==
      up \in BOOLEAN /\ restarts \in 0..MaxRestarts /\ newcomers \subseteq Hosts
<1>1. JobInv => status.completed <= Len(status.results)
  <2> SUFFICES ASSUME JobInv PROVE status.completed <= Len(status.results)
    OBVIOUS
  <2>1. CASE status.running
    <3>1. PICK j \in Jobs : Active(j) /\ JobView(j)
      BY <2>1 DEF JobInv, OneJob
    <3>2. job[j].i \in Nat /\ Len(job[j].hosts) \in Nat
      BY DEF JobInv, Types, JobType
    <3> QED
      BY <3>1, <3>2 DEF JobView
  <2>2. CASE ~status.running
    BY <2>2 DEF JobInv, Closed, Types
  <2> QED
    BY <2>1, <2>2
<1>2. JobInv /\ HoldInv /\ Rest => TypeOK
  <2> SUFFICES ASSUME JobInv, HoldInv, Rest PROVE TypeOK
    OBVIOUS
  <2>1. status.completed <= Len(status.results)
    BY <1>1
  <2>2. Working \cup {"idle", "loop", "over"} =
          {"idle", "loop", "files", "start", "handshake", "settle", "route", "probe", "unroute",
           "stop", "unfile", "report", "over"}
    BY DEF Working
  <2> QED
    BY <2>1, <2>2 DEF JobInv, Types, JobType, Result, HoldInv, ResourceTypes, TypeOK
<1>3. Init => Rest
  BY DEF Init
<1>4. JobInv /\ Rest /\ [Next]_vars => Rest'
  <2> SUFFICES ASSUME JobInv, Rest, [Next]_vars PROVE Rest'
    OBVIOUS
  <2> USE DEF listVars
  <2>1. ASSUME NEW j \in Jobs, JobStep(j) PROVE Rest'
    <3>1. UNCHANGED <<up, restarts, newcomers>>
      BY <2>1 DEF JobStep, Announce, Report, FinishJob, Verify, PrepareFiles, StartProbe,
             Handshake, Settle, InstallRoute, Probe, ClearRoute, StopProbe, RemoveFiles, Aside
    <3> QED
      BY <3>1
  <2>2. CASE Restart
    BY <2>2 DEF Restart
  <2>3. CASE ProcessEnds
    BY <2>3 DEF ProcessEnds
  <2>4. ASSUME NEW h \in Hosts, Mark(h) PROVE Rest'
    BY <2>4 DEF Mark
  <2>5. CASE Ended \/ Restore \/ UNCHANGED vars
    BY <2>5 DEF Ended, Restore, vars
  <2>6. ASSUME NEW s \in Starters, LoadNodes(s) \/ Refuse(s) \/ Launch(s) PROVE Rest'
    BY <2>6 DEF LoadNodes, Refuse, Launch
  <2>7. ASSUME NEW j \in Jobs, ProbeExits(j) PROVE Rest'
    BY <2>7 DEF ProbeExits
  <2> QED
    BY <2>1, <2>2, <2>3, <2>4, <2>5, <2>6, <2>7 DEF Next
<1>5. Spec => []Rest
  BY <1>3, <1>4, JobInvariance, PTL DEF Spec
<1> QED
  BY <1>2, <1>5, JobInvariance, HoldInvariance, PTL
=============================================================================
