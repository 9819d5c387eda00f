---------------------------- MODULE StateFilesProofs ----------------------------
(***************************************************************************)
(* Proofs about StateFiles for any number of concurrent writers, files,      *)
(* passwords and restarts.                                                   *)
(***************************************************************************)
EXTENDS StateFiles, TLAPS

-----------------------------------------------------------------------------
(* writeJSON                                                                *)

\* A temporary file is complete when it is renamed.
TempInv ==
  /\ job \in [Tasks -> [step : {"idle", "create", "fill", "rename", "chmod", "remove",
                                "done", "failed"},
                        file : Files, value : AuthRecords,
                        tmp : {"none", "empty", "torn", "whole"}]]
  /\ auth \in AuthRecords /\ drawn \subseteq Secrets
  /\ \A t \in Tasks : job[t].step = "rename" => job[t].tmp = "whole"

Steps == {"idle", "create", "fill", "rename", "chmod", "remove", "done", "failed"}
Temps == {"none", "empty", "torn", "whole"}

\* A step of a writeJSON keeps TempInv if it renames nothing but a complete file.
LEMMA JobMoves ==
  ASSUME TempInv, NEW t \in Tasks, NEW st \in Steps, NEW f \in Files,
         NEW v \in AuthRecords, NEW tmp \in Temps,
         job' = [job EXCEPT ![t] = Write(st, f, v, tmp)],
         st = "rename" => tmp = "whole",
         auth' \in AuthRecords, drawn' \subseteq Secrets
  PROVE  TempInv'
<1> DEFINE j == Write(st, f, v, tmp)
<1>1. j.step = st /\ j.tmp = tmp
  BY DEF Write
<1>2. j \in [step : {"idle", "create", "fill", "rename", "chmod", "remove", "done", "failed"},
             file : Files, value : AuthRecords, tmp : {"none", "empty", "torn", "whole"}]
  BY DEF Write, Steps, Temps
<1> HIDE DEF j
<1>3. job' = [job EXCEPT ![t] = j]
  BY DEF j
<1> QED
  BY <1>1, <1>2, <1>3 DEF TempInv

\* TempInv is inductive.
LEMMA TempInductive == TempInv /\ [Next]_vars => TempInv'
<1> SUFFICES ASSUME TempInv, [Next]_vars PROVE TempInv'
  OBVIOUS
<1>1. ASSUME NEW t \in Tasks, WriteJSON(t) PROVE TempInv'
  <2>1. job[t].file \in Files /\ job[t].value \in AuthRecords /\ job[t].tmp \in Temps
    BY DEF TempInv, Temps
  <2>2. auth' \in AuthRecords /\ drawn' \subseteq Secrets
    BY <1>1, <2>1 DEF TempInv, WriteJSON, CreateTemp, Fill, Rename, Chmod, Remove, Disk, Rest
  <2>3. PICK st \in Steps, tmp \in Temps :
          /\ job' = [job EXCEPT ![t] = Write(st, job[t].file, job[t].value, tmp)]
          /\ st = "rename" => tmp = "whole"
    BY <1>1, <2>1 DEF WriteJSON, CreateTemp, Fill, Rename, Chmod, Remove, Step, Steps, Temps
  <2> QED
    BY <2>1, <2>2, <2>3, JobMoves
<1>2. NoAuth \in AuthRecords /\ "auth" \in Files /\ "main" \in Tasks /\ Savers \subseteq Tasks
      /\ DataFiles \subseteq Files /\ "idle" \in Steps /\ "create" \in Steps /\ "none" \in Temps
  BY DEF NoAuth, Auth, AuthRecords, Files, Tasks, Steps, Temps
<1>6. ASSUME NEW t \in Savers, Saved(t) PROVE TempInv'
  BY <1>2, <1>6, JobMoves DEF Saved, Idle, TempInv, Disk, Rest
<1>7. ASSUME NEW t \in Savers, NEW f \in DataFiles, Save(t, f) PROVE TempInv'
  BY <1>2, <1>7, JobMoves DEF Save, Begin, TempInv, Disk, Rest
<1>8. CASE Ensure
  <2>1. CASE UNCHANGED <<job, auth, drawn>>
    BY <2>1 DEF TempInv
  <2>2. CASE \E a \in WithSecret(Configured(auth)) :
               Begin("main", "auth", a) /\ drawn' = drawn \cup {a.secret} /\ auth' = auth
    <3>1. PICK a \in WithSecret(Configured(auth)) :
            Begin("main", "auth", a) /\ drawn' = drawn \cup {a.secret} /\ auth' = auth
      BY <2>2
    <3>2. a \in AuthRecords /\ a.secret \in Secrets
      BY <1>8 DEF Ensure, TempInv, WithSecret, Configured, Login, Auth, AuthRecords
    <3>3. drawn' \subseteq Secrets /\ auth' \in AuthRecords
      BY <3>1, <3>2 DEF TempInv
    <3>4. job' = [job EXCEPT !["main"] = Write("create", "auth", a, "none")]
      BY <3>1 DEF Begin
    <3> QED
      BY <1>2, <3>2, <3>3, <3>4, JobMoves
  <2> QED
    BY <1>8, <2>1, <2>2 DEF Ensure, Disk
<1>9. CASE SecretPath
  <2>1. CASE UNCHANGED <<job, auth, drawn>>
    BY <2>1 DEF TempInv
  <2>2. ASSUME NEW s \in Secrets, Begin("main", "auth", Auth(s, None, None)),
               drawn' = drawn \cup {s}, auth' = auth
        PROVE  TempInv'
    <3>1. Auth(s, None, None) \in AuthRecords
      BY DEF Auth, AuthRecords
    <3>2. drawn' \subseteq Secrets /\ auth' \in AuthRecords
      BY <2>2 DEF TempInv
    <3>3. job' = [job EXCEPT !["main"] = Write("create", "auth", Auth(s, None, None), "none")]
      BY <2>2 DEF Begin
    <3> QED
      BY <1>2, <3>1, <3>2, <3>3, JobMoves
  <2> QED
    BY <1>9, <2>1, <2>2 DEF SecretPath, Disk
<1>10. CASE Ensured \/ SecretSaved
  BY <1>2, <1>10, JobMoves DEF Ensured, SecretSaved, Idle, TempInv, Disk
<1>11. CASE Crash
  BY <1>2, <1>11 DEF Crash, Idle, Write, TempInv, Disk
<1>12. CASE Boot
  BY <1>12 DEF Boot, TempInv, Disk
<1>14. CASE UNCHANGED vars
  BY <1>14 DEF vars, TempInv
<1> QED
  BY <1>1, <1>6, <1>7, <1>8, <1>9, <1>10, <1>11, <1>12, <1>14 DEF Next

\* TempInv holds throughout.
LEMMA TempInvariance == Spec => []TempInv
<1>1. Init => TempInv
  BY DEF Init, TempInv, AuthRecords, Idle, Write, NoAuth, Auth, Files
<1> QED
  BY <1>1, TempInductive, PTL DEF Spec

\* No state file is ever half-written by the program,
\* however writers of the same file, failures and crashes interleave.
THEOREM FilesWhole == Spec => []NeverTorn
<1> DEFINE Unwritten == content \in [Files -> {"whole"}]
<1>1. Init => Unwritten
  BY DEF Init
<1>2. Unwritten /\ TempInv /\ [Next]_vars => Unwritten'
  <2> SUFFICES ASSUME Unwritten, TempInv, [Next]_vars PROVE Unwritten'
    OBVIOUS
  <2>1. ASSUME NEW t \in Tasks, Rename(t) PROVE Unwritten'
    BY <2>1 DEF Rename, TempInv, Disk
  <2> QED
    BY <2>1 DEF Next, WriteJSON, CreateTemp, Fill, Chmod, Remove, Saved, Save, Ensure,
       SecretPath, Ensured, SecretSaved, Crash, Boot, vars, Disk
<1>3. Unwritten /\ TempInv => NeverTorn
  BY DEF NeverTorn, TempInv
<1> QED
  BY <1>1, <1>2, <1>3, TempInvariance, PTL DEF Spec

-----------------------------------------------------------------------------
(* ui_auth.json                                                             *)

\* The record a start is about to write: complete, made of the configuration or
\* else of what the file holds, and in the file once it was renamed.
Completing(a) ==
  /\ a.secret # None /\ a.plain = None /\ a.hash # None /\ env # "bad"
  /\ env \in Passwords => a.hash = env
  /\ env \notin Passwords => env = None /\ a.hash = Login(auth)
  /\ auth.secret # None => a.secret = auth.secret

\* What ServesConfigured and AccessKept rest on: only the start of
\* the program writes ui_auth.json, and it keeps what must not change.
AuthInv ==
  /\ phase \in {"down", "ensure", "saveAuth", "secret", "serving", "failed", "refused"}
  /\ env \in Passwords \cup {None, "bad"}
  /\ \A t \in Savers : job[t].step # "idle" => job[t].file # "auth"
  /\ phase = "saveAuth" <=> job["main"].step # "idle"
  /\ phase = "saveAuth" => /\ job["main"].file = "auth" /\ Completing(job["main"].value)
                           /\ job["main"].step \in {"chmod", "done"} =>
                                auth = job["main"].value
  /\ phase \in {"secret", "serving"} =>
       auth.plain = None /\ auth.hash # None /\ (env \in Passwords => auth.hash = env)
  /\ served # None => auth.secret = served

\* What Ensure writes completes the record of the file.
LEMMA EnsureCompletes ==
  ASSUME auth \in AuthRecords, env \in Passwords \cup {None, "bad"}, env # "bad",
         Configured(auth).hash # None, NEW a \in WithSecret(Configured(auth))
  PROVE  Completing(a)
<1> USE StateAssumption DEF StateAssumption
<1>1. /\ a.plain = None /\ a.secret # None
      /\ a.hash = IF env \in Passwords THEN env ELSE Login(auth)
      /\ auth.secret # None => a.secret = auth.secret
  BY DEF WithSecret, Configured, Auth, AuthRecords
<1>2. a.hash # None
  BY DEF WithSecret, Configured, Auth
<1> QED
  BY <1>1, <1>2 DEF Completing

\* AuthInv is inductive until SecretPath fails to read the file.
LEMMA AuthInductive ==
  TempInv /\ AuthInv /\ [Next]_vars => (AuthInv' \/ unread')
<1> SUFFICES ASSUME TempInv, AuthInv, [Next]_vars, ~unread' PROVE AuthInv'
  OBVIOUS
<1> USE StateAssumption DEF StateAssumption
<1>0. "main" \in Tasks /\ Savers \subseteq Tasks /\ (\A t \in Tasks : t = "main" \/ t \in Savers)
      /\ DOMAIN job = Tasks /\ job = [t \in Tasks |-> job[t]]
  BY DEF Tasks, TempInv
<1>1. ASSUME NEW t \in Savers, WriteJSON(t) PROVE AuthInv'
  <2>1. PICK st, tmp : job' = [job EXCEPT ![t] = Write(st, job[t].file, job[t].value, tmp)]
    BY <1>1 DEF WriteJSON, CreateTemp, Fill, Rename, Chmod, Remove, Step
  <2>2. job[t].step # "idle" /\ job[t].file # "auth"
    BY <1>1 DEF WriteJSON, CreateTemp, Fill, Rename, Chmod, Remove, AuthInv
  <2>3. job'[t].file = job[t].file /\ \A x \in Tasks : x # t => job'[x] = job[x]
    BY <1>0, <1>1, <2>1 DEF Write
  <2>4. UNCHANGED <<phase, env, served, auth>>
    BY <1>1, <2>2 DEF WriteJSON, CreateTemp, Fill, Rename, Chmod, Remove, Disk, Rest
  <2> QED
    BY <1>0, <2>2, <2>3, <2>4 DEF AuthInv, Completing, Login
<1>2. ASSUME WriteJSON("main") PROVE AuthInv'
  <2>1. job["main"].step # "idle"
    BY <1>2 DEF WriteJSON, CreateTemp, Fill, Rename, Chmod, Remove
  <2>2. phase = "saveAuth" /\ UNCHANGED <<phase, env, served>>
    BY <1>2, <2>1 DEF AuthInv, WriteJSON, CreateTemp, Fill, Rename, Chmod, Remove, Rest
  <2>3. PICK st, tmp :
          /\ job' = [job EXCEPT !["main"] = Write(st, job["main"].file, job["main"].value, tmp)]
          /\ st # "idle"
          /\ \/ auth' = auth /\ (st \in {"chmod", "done"} => job["main"].step = "chmod")
             \/ auth' = job["main"].value
    <3>1. CASE CreateTemp("main") \/ Fill("main")
      BY <3>1 DEF CreateTemp, Fill, Step, Disk
    <3>2. CASE Rename("main")
      BY <2>2, <3>2 DEF Rename, Step, Disk, AuthInv
    <3>3. CASE Chmod("main")
      BY <3>3 DEF Chmod, Step, Disk
    <3>4. CASE Remove("main")
      BY <3>4 DEF Remove, Step, Disk
    <3> QED
      BY <1>2, <3>1, <3>2, <3>3, <3>4 DEF WriteJSON
  <2>4. /\ job'["main"].file = "auth" /\ job'["main"].value = job["main"].value
        /\ job'["main"].step = st /\ \A x \in Savers : job'[x] = job[x]
    BY <1>0, <2>2, <2>3 DEF Write, AuthInv
  <2>5. Completing(job["main"].value)
    BY <2>2 DEF AuthInv
  <2>6. Completing(job["main"].value)'
    BY <2>2, <2>3, <2>4, <2>5 DEF Completing, Login
  <2>7. st \in {"chmod", "done"} => auth' = job'["main"].value
    BY <2>2, <2>3, <2>4 DEF AuthInv
  <2>8. served' # None => auth'.secret = served'
    BY <2>2, <2>3, <2>5 DEF AuthInv, Completing
  <2> QED
    BY <2>2, <2>3, <2>4, <2>6, <2>7, <2>8 DEF AuthInv
<1>3. ASSUME NEW t \in Savers, Saved(t) PROVE AuthInv'
  <2>1. /\ \A x \in Tasks : x # t => job'[x] = job[x]
        /\ job'[t].step = "idle" /\ UNCHANGED <<auth, phase, env, served>>
    BY <1>0, <1>3 DEF Saved, Idle, Write, Disk, Rest
  <2> QED
    BY <1>0, <2>1 DEF AuthInv, Completing, Login
<1>4. ASSUME NEW t \in Savers, NEW f \in DataFiles, Save(t, f) PROVE AuthInv'
  <2>1. /\ \A x \in Tasks : x # t => job'[x] = job[x]
        /\ job'[t].file # "auth" /\ UNCHANGED <<auth, phase, env, served>>
    BY <1>0, <1>4 DEF Save, Begin, Write, Disk, Rest
  <2> QED
    BY <1>0, <2>1 DEF AuthInv, Completing, Login
<1>5. CASE Ensure
  <2>1. CASE phase' \in {"failed", "refused"} /\ UNCHANGED <<job, auth, env, served>>
    BY <1>5, <2>1 DEF Ensure, AuthInv
  <2>2. CASE /\ phase' = "saveAuth" /\ UNCHANGED <<auth, env, served>>
             /\ env # "bad" /\ Configured(auth).hash # None
             /\ \E a \in WithSecret(Configured(auth)) : Begin("main", "auth", a)
    <3>1. PICK a \in WithSecret(Configured(auth)) : Begin("main", "auth", a)
      BY <2>2
    <3>2. /\ \A x \in Tasks : x # "main" => job'[x] = job[x]
          /\ job'["main"].file = "auth" /\ job'["main"].step = "create"
          /\ job'["main"].value = a
      BY <1>0, <3>1 DEF Begin, Write
    <3>3. Completing(a)
      BY <2>2, EnsureCompletes DEF TempInv, AuthInv
    <3>4. Completing(job["main"].value)'
      BY <2>2, <3>2, <3>3 DEF Completing, Login
    <3> QED
      BY <1>0, <2>2, <3>2, <3>4 DEF AuthInv
  <2> QED
    BY <1>5, <2>1, <2>2 DEF Ensure, Disk
<1>6. CASE Ensured
  <2>1. /\ \A x \in Tasks : x # "main" => job'[x] = job[x]
        /\ job'["main"].step = "idle" /\ UNCHANGED <<auth, env, served>>
    BY <1>0, <1>6 DEF Ensured, Idle, Write, Disk
  <2>2. phase = "saveAuth" /\ phase' \in {"secret", "failed"}
        /\ (phase' = "secret" => auth = job["main"].value)
    BY <1>6 DEF Ensured, AuthInv
  <2> QED
    BY <1>0, <2>1, <2>2 DEF AuthInv, Completing
<1>7. CASE SecretPath
  BY <1>7 DEF SecretPath, AuthInv, Disk
<1>8. CASE SecretSaved
  BY <1>8 DEF SecretSaved, AuthInv
<1>9. CASE Crash
  <2>1. phase' = "down" /\ UNCHANGED <<auth, env, served>>
        /\ \A x \in Tasks : job'[x].step = "idle"
    BY <1>9 DEF Crash, Idle, Write, Disk
  <2> QED
    BY <1>0, <2>1 DEF AuthInv
<1>10. CASE Boot
  BY <1>10 DEF Boot, AuthInv, Disk
<1>11. CASE UNCHANGED vars
  BY <1>11 DEF vars, AuthInv, Completing, Login
<1> QED
  BY <1>0, <1>1, <1>2, <1>3, <1>4, <1>5, <1>6, <1>7, <1>8, <1>9, <1>10, <1>11 DEF Next

\* Such a failure is remembered for ever.
LEMMA UnreadRemembered == unread /\ [Next]_vars => unread'
<1> SUFFICES ASSUME unread, Next PROVE unread'
  BY DEF vars
<1> QED
  BY DEF Next, WriteJSON, CreateTemp, Fill, Rename, Chmod, Remove, Saved, Save, Ensure,
     SecretPath, Ensured, SecretSaved, Crash, Boot, Rest

\* AuthInv holds until then.
LEMMA AuthInvariance == Spec => [](AuthInv \/ unread)
<1>1. Init => AuthInv
  BY DEF Init, AuthInv, Tasks, Idle, Write
<1>2. TempInv /\ (AuthInv \/ unread) /\ [Next]_vars => (AuthInv \/ unread)'
  BY AuthInductive, UnreadRemembered
<1> QED
  BY <1>1, <1>2, TempInvariance, PTL DEF Spec

\* As long as SecretPath can read what EnsureAuthConfigured wrote, the console
\* serves with the configured password, and no start, however it is cut off,
\* loses the password or changes the path.
THEOREM CredentialsKept == Spec => []ServesConfigured /\ AccessKept
<1>1. AuthInv \/ unread => ServesConfigured
  BY DEF AuthInv, ServesConfigured
<1>2. ASSUME AuthInv, Next, Login(auth)' # Login(auth)
      PROVE  Login(auth)' = env /\ env # None
  <2>1. PICK t \in Tasks : Rename(t) /\ auth' # auth
    BY <1>2 DEF Login, Next, WriteJSON, CreateTemp, Fill, Chmod, Remove, Saved, Save, Ensure,
       SecretPath, Ensured, SecretSaved, Crash, Boot, Disk, Rest
  <2>2. t = "main" /\ auth' = job["main"].value /\ phase = "saveAuth"
    <3>1. job[t].step = "rename" /\ job[t].file = "auth" /\ auth' = job[t].value
      BY <2>1 DEF Rename, Disk
    <3>2. t \notin Savers
      BY <1>2, <3>1 DEF AuthInv
    <3> QED
      BY <1>2, <3>1, <3>2 DEF AuthInv, Tasks
  <2>3. Completing(job["main"].value)
    BY <1>2, <2>2 DEF AuthInv
  <2> QED
    BY <1>2, <2>2, <2>3, StateAssumption DEF Completing, Login, StateAssumption
<1>3. ASSUME AuthInv, Next, ~unread', served' # served PROVE served = None
  <2>1. SecretPath
    BY <1>3 DEF AuthInv, Next, WriteJSON, CreateTemp, Fill, Rename, Chmod, Remove, Saved, Save,
       Ensure, Ensured, SecretSaved, Crash, Boot, Disk, Rest
  <2> QED
    BY <1>3, <2>1 DEF SecretPath, AuthInv
<1>4. (AuthInv \/ unread) /\ [Next]_vars =>
        [~unread' => /\ Login(auth)' # Login(auth) => Login(auth)' = env /\ env # None
                     /\ served' # served => served = None]_vars
  BY <1>2, <1>3, UnreadRemembered
<1> QED
  BY <1>1, <1>4, AuthInvariance, PTL DEF Spec, AccessKept

-----------------------------------------------------------------------------
(* Types                                                                    *)

\* What TempInv leaves out.
RestInv ==
  /\ phase \in {"down", "ensure", "saveAuth", "secret", "saveSecret", "serving",
                "failed", "refused"}
  /\ env \in Passwords \cup {None, "bad"}
  /\ content \in [Files -> {"empty", "torn", "whole"}]
  /\ served \in Secrets \cup {None} /\ unread \in BOOLEAN

LEMMA RestInductive == RestInv /\ TempInv /\ [Next]_vars => RestInv'
<1> SUFFICES ASSUME RestInv, TempInv, [Next]_vars PROVE RestInv'
  OBVIOUS
<1>1. ASSUME NEW t \in Tasks, WriteJSON(t) PROVE RestInv'
  BY <1>1 DEF WriteJSON, CreateTemp, Fill, Rename, Chmod, Remove, Disk, Rest, RestInv, TempInv
<1>2. ASSUME NEW t \in Savers, Saved(t) \/ \E f \in DataFiles : Save(t, f) PROVE RestInv'
  BY <1>2 DEF Saved, Save, Disk, Rest, RestInv
<1>3. CASE Boot \/ Ensure \/ Ensured \/ Crash
  BY <1>3 DEF Boot, Ensure, Ensured, Crash, Disk, RestInv
<1>4. CASE SecretPath
  <2>1. unread' \in BOOLEAN  BY <1>4, Zenon DEF SecretPath, RestInv
  <2> QED
    BY <1>4, <2>1 DEF SecretPath, Disk, RestInv, TempInv, AuthRecords
<1>5. CASE SecretSaved
  <2>1. job["main"].value \in AuthRecords  BY DEF TempInv, Tasks
  <2> QED
    BY <1>5, <2>1 DEF SecretSaved, Disk, RestInv, AuthRecords
<1>6. CASE UNCHANGED vars  BY <1>6 DEF vars, RestInv
<1> QED
  BY <1>1, <1>2, <1>3, <1>4, <1>5, <1>6 DEF Next

\* The types of the process, its goroutines and the directory.
THEOREM Typing == Spec => []TypeOK
<1>1. Init => RestInv
  <2> SUFFICES ASSUME Init PROVE RestInv
    OBVIOUS
  <2>1. unread \in BOOLEAN  BY Zenon DEF Init
  <2> QED
    BY <2>1 DEF Init, RestInv
<1>2. RestInv /\ TempInv => TypeOK
  BY DEF RestInv, TempInv, TypeOK
<1> QED
  BY <1>1, <1>2, RestInductive, TempInvariance, PTL DEF Spec
=============================================================================
