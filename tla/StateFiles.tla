------------------------------- MODULE StateFiles -------------------------------
(***************************************************************************)
(* The state directory (internal/state) across crashes and restarts: the     *)
(* write-temp-then-rename of writeJSON, performed by several goroutines, and  *)
(* what a start of the program does to ui_auth.json before the console       *)
(* serves: EnsureAuthConfigured and SecretPath.                              *)
(*                                                                          *)
(* The content of ui_auth.json is the secret path, the legacy plaintext      *)
(* password and the password its salted hash was made of; nodes.json,        *)
(* blacklist.json and route.json only matter as whole or half-written.  A    *)
(* username goes with its password.  Any system call may fail.  Only the       *)
(* process crashes: the machine, which might lose an unsynced rename, does not. *)
(***************************************************************************)

CONSTANTS
  Savers,     \* goroutines that save nodes, the blacklist or the route
  DataFiles,  \* nodes.json, blacklist.json, route.json
  Passwords,  \* passwords, configured or stored by an older release
  Secrets,    \* random secret paths: a bound on how often one is drawn
  None

ASSUME StateAssumption ==
  /\ None \notin Passwords \cup Secrets
  /\ "auth" \notin DataFiles /\ "main" \notin Savers

VARIABLES
  phase,   \* of the process
  env,     \* UI_PASSWORD of this start; None, or "bad": alone or too short
  auth,    \* content of ui_auth.json
  content, \* [Files -> "whole" (or no file); "torn": half-written]
  job,     \* [Tasks -> the writeJSON the goroutine is in]
  drawn,   \* secrets drawn so far
  served,  \* the secret path the console last served under; None is the empty one
  unread   \* history: SecretPath once failed to read ui_auth.json

vars == <<phase, env, auth, content, job, drawn, served, unread>>

Tasks == Savers \cup {"main"}
Files == DataFiles \cup {"auth"}

Auth(s, p, h) == [secret |-> s, plain |-> p, hash |-> h]
NoAuth == Auth(None, None, None)
\* The password that opens the console, in either format.
Login(a) == IF a.plain # None THEN a.plain ELSE a.hash

\* A writeJSON: its step, its target, the content and the temporary file.
Write(s, f, v, t) == [step |-> s, file |-> f, value |-> v, tmp |-> t]
Idle == Write("idle", "auth", NoAuth, "none")

\* The directory of a first run, of this release or of an older one.
Init ==
  /\ phase = "down" /\ env = None
  /\ auth \in {NoAuth} \cup {Auth(s, p, None) : s \in Secrets, p \in Passwords}
                       \cup {Auth(s, None, p) : s \in Secrets, p \in Passwords}
  /\ content = [f \in Files |-> "whole"]
  /\ job = [t \in Tasks |-> Idle]
  /\ drawn = {auth.secret} \ {None} /\ served = None /\ unread = FALSE

-----------------------------------------------------------------------------
(* writeJSON                                                                *)

Begin(t, f, v) == job[t] = Idle /\ job' = [job EXCEPT ![t] = Write("create", f, v, "none")]
Step(t, s, tmp) ==
  job' = [job EXCEPT ![t] = Write(s, job[t].file, job[t].value, tmp)]
Disk == <<auth, content>>
Rest == <<phase, env, drawn, served, unread>>

\* MkdirAll, Chmod of the directory and CreateTemp, or an error.
CreateTemp(t) ==
  /\ job[t].step = "create"
  /\ Step(t, "fill", "empty") \/ Step(t, "failed", "none")
  /\ UNCHANGED <<Disk, Rest>>

\* Mutant: the data go to the target itself.
Fill_InPlace(t) ==
  /\ job[t].step = "fill"
  /\ \/ Step(t, "rename", "whole") /\ UNCHANGED content
     \/ Step(t, "remove", "torn") /\ content' = [content EXCEPT ![job[t].file] = "torn"]
  /\ UNCHANGED <<auth, Rest>>

\* Chmod, Write and Close of the temporary file; a write that fails leaves a
\* part of the data in it.
Fill(t) ==
  /\ job[t].step = "fill"
  /\ \/ Step(t, "rename", "whole")
     \/ \E c \in {"empty", "torn", "whole"} : Step(t, "remove", c)
  /\ UNCHANGED <<Disk, Rest>>

\* Rename: the target is replaced in one step.
Rename(t) ==
  /\ job[t].step = "rename"
  /\ \/ /\ Step(t, "chmod", "none")
        /\ auth' = IF job[t].file = "auth" THEN job[t].value ELSE auth
        /\ content' = [content EXCEPT ![job[t].file] = job[t].tmp]
     \/ Step(t, "remove", job[t].tmp) /\ UNCHANGED Disk
  /\ UNCHANGED Rest

\* Chmod of the target: its error is returned though the file was replaced.
Chmod(t) ==
  /\ job[t].step = "chmod"
  /\ Step(t, "done", "none") \/ Step(t, "failed", "none")
  /\ UNCHANGED <<Disk, Rest>>

\* The deferred os.Remove, whose error is dropped: the temporary file may stay.
Remove(t) ==
  /\ job[t].step = "remove"
  /\ Step(t, "failed", "none") \/ Step(t, "failed", job[t].tmp)
  /\ UNCHANGED <<Disk, Rest>>

\* SaveNodes, SaveBlacklist, SaveRoute; their callers log an error or return it.
Save(t, f) == phase = "serving" /\ Begin(t, f, NoAuth) /\ UNCHANGED <<Disk, Rest>>

Saved(t) ==
  /\ job[t].step \in {"done", "failed"} /\ job' = [job EXCEPT ![t] = Idle]
  /\ UNCHANGED <<Disk, Rest>>

-----------------------------------------------------------------------------
(* The start of the program                                                 *)

Boot ==
  /\ phase = "down" /\ phase' = "ensure"
  /\ env' \in Passwords \cup {None, "bad"}
  /\ UNCHANGED <<Disk, job, drawn, served, unread>>

\* Mutant: setPassword keeps the legacy password, which is then hashed too.
Configured_LegacyWins(a) ==
  IF env \in Passwords /\ a.plain = None
    THEN Auth(a.secret, None, env) ELSE Auth(a.secret, None, Login(a))

\* setPassword for the configured credentials, then for a legacy password.
Configured(a) ==
  IF env \in Passwords THEN Auth(a.secret, None, env) ELSE Auth(a.secret, None, Login(a))

\* The stored secret path, or a fresh one.
WithSecret(a) ==
  IF a.secret # None THEN {a} ELSE {Auth(s, a.plain, a.hash) : s \in Secrets \ drawn}

\* EnsureAuthConfigured: the file is read, completed, and written back.  It
\* cannot be read, is no JSON, or leaves no credentials: the program exits.
Ensure ==
  /\ phase = "ensure"
  /\ \/ phase' = "failed" /\ UNCHANGED <<job, drawn>>
     \/ /\ (env = "bad" \/ Configured(auth).hash = None)
        /\ phase' = "refused" /\ UNCHANGED <<job, drawn>>
     \/ /\ env # "bad" /\ Configured(auth).hash # None
        /\ \E a \in WithSecret(Configured(auth)) :
             Begin("main", "auth", a) /\ drawn' = drawn \cup {a.secret}
        /\ phase' = "saveAuth"
  /\ UNCHANGED <<Disk, env, served, unread>>

Ensured ==
  /\ phase = "saveAuth" /\ job["main"].step \in {"done", "failed"}
  /\ phase' = IF job["main"].step = "done" THEN "secret" ELSE "failed"
  /\ job' = [job EXCEPT !["main"] = Idle]
  /\ UNCHANGED <<Disk, env, drawn, served, unread>>

\* Mutant: SecretPath writes an empty record with a new secret.
SecretPath_Empty ==
  /\ phase = "secret"
  /\ \E s \in Secrets \ drawn :
       Begin("main", "auth", Auth(s, None, None)) /\ drawn' = drawn \cup {s}
  /\ phase' = "saveSecret" /\ UNCHANGED <<Disk, env, served, unread>>

\* webui.New asks for SecretPath, which reads the file again.  If it cannot
\* (or finds none) it saves what it has got with a fresh secret, or, if none can be
\* drawn, returns the empty path.
SecretPath ==
  /\ phase = "secret"
  /\ \/ /\ auth.secret # None
        /\ served' = auth.secret /\ phase' = "serving" /\ UNCHANGED <<job, drawn, unread>>
     \/ /\ unread' = TRUE
        /\ served' = None /\ phase' = "serving" /\ UNCHANGED <<job, drawn>>
     \/ /\ unread' = TRUE
        /\ \E s \in Secrets \ drawn :
             Begin("main", "auth", Auth(s, None, None)) /\ drawn' = drawn \cup {s}
        /\ phase' = "saveSecret" /\ UNCHANGED served
  /\ UNCHANGED <<Disk, env>>

\* Its error is ignored; the console serves the fresh secret.
SecretSaved ==
  /\ phase = "saveSecret" /\ job["main"].step \in {"done", "failed"}
  /\ served' = job["main"].value.secret /\ phase' = "serving"
  /\ job' = [job EXCEPT !["main"] = Idle]
  /\ UNCHANGED <<Disk, env, drawn, unread>>

-----------------------------------------------------------------------------
(* Endings                                                                  *)

\* The process exits, is killed or crashes: its goroutines are gone, and
\* temporary files of theirs stay behind, as those whose removal failed, under names
\* nobody uses again.
Crash ==
  /\ phase # "down" /\ phase' = "down"
  /\ job' = [t \in Tasks |-> Idle] /\ UNCHANGED <<Disk, env, drawn, served, unread>>

WriteJSON(t) == CreateTemp(t) \/ Fill(t) \/ Rename(t) \/ Chmod(t) \/ Remove(t)

Next ==
  \/ Boot \/ Ensure \/ Ensured \/ SecretPath \/ SecretSaved \/ Crash
  \/ \E t \in Tasks : WriteJSON(t)
  \/ \E t \in Savers : Saved(t) \/ \E f \in DataFiles : Save(t, f)

Spec == Init /\ [][Next]_vars

-----------------------------------------------------------------------------
AuthRecords ==
  [secret : Secrets \cup {None}, plain : Passwords \cup {None}, hash : Passwords \cup {None}]

TypeOK ==
  /\ phase \in {"down", "ensure", "saveAuth", "secret", "saveSecret", "serving",
                "failed", "refused"}
  /\ env \in Passwords \cup {None, "bad"}
  /\ auth \in AuthRecords
  /\ content \in [Files -> {"empty", "torn", "whole"}]
  /\ job \in [Tasks -> [step : {"idle", "create", "fill", "rename", "chmod", "remove",
                                "done", "failed"},
                        file : Files, value : AuthRecords,
                        tmp : {"none", "empty", "torn", "whole"}]]
  /\ drawn \subseteq Secrets /\ served \in Secrets \cup {None} /\ unread \in BOOLEAN

\* However writers of the same file, failing writes and crashes of the program
\* interleave, no state file is ever half-written (writeJSON).
NeverTorn == \A f \in Files : content[f] = "whole"

(* The other promises hold as long as SecretPath can read ui_auth.json: a     *)
(* read that fails there replaces the credentials by a record without any.    *)

\* The console serves with the configured password, whatever the directory held,
\* and never with a plaintext password on disk (EnsureAuthConfigured).
ServesConfigured ==
  phase = "serving" /\ ~unread =>
    auth.plain = None /\ auth.hash # None /\ (env \in Passwords => auth.hash = env)

\* Wherever a start is cut off, the password that opens the console is never lost
\* and changes only to the one configured, and every start serves the console under
\* the same path (EnsureAuthConfigured, SecretPath).
AccessKept ==
  [][~unread' => /\ Login(auth)' # Login(auth) => Login(auth)' = env /\ env # None
                 /\ served' # served => served = None]_vars
=============================================================================
