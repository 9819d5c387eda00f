-------------------------------- MODULE Console --------------------------------
(***************************************************************************)
(* The web console's sessions and its live log (internal/webui and the log   *)
(* bus internal/logx): logins, the sessions they open, and the handlers of   *)
(* /api/logs/stream, each of which holds one of a few slots and a            *)
(* subscription to the lines the whole program logs.                         *)
(*                                                                          *)
(* A log line is its number.  Time is what it does to a session: it expires. *)
(* A browser may stall, or vanish, at any moment.                            *)
(***************************************************************************)
EXTENDS Naturals, Sequences, FiniteSets

CONSTANTS
  Handlers,         \* goroutines serving requests
  Remotes,          \* client addresses
  Tokens,           \* session tokens: a bound on how many are drawn
  MaxSessions, MaxStreams, MaxLoginFailures,
  SubCap,           \* capacity of a subscriber's channel (256 in the code)
  MaxLines          \* bound: lines logged

ASSUME ConsoleAssumption ==
  /\ IsFiniteSet(Handlers) /\ IsFiniteSet(Tokens)
  /\ MaxSessions \in Nat \ {0} /\ MaxStreams \in Nat \ {0}
  /\ MaxLoginFailures \in Nat \ {0} /\ SubCap \in Nat \ {0} /\ MaxLines \in Nat

VARIABLES
  session,  \* Server.sessions: [Tokens -> "none", "live" or "expired"]
  issued,   \* tokens drawn so far
  failed,   \* Server.attempts: [Remotes -> failed logins counted]
  blocked,  \* Server.attempts: remotes whose loginAttempt.until lies ahead
  slots,    \* len(Server.sseLimit)
  pc,       \* [Handlers -> where the handler stands]
  from,     \* [Handlers -> the remote address of a login]
  present,  \* handlers whose request context is not done
  logged,   \* lines logged so far
  subs,     \* logx.subs: handlers whose channel is subscribed
  queued,   \* [Handlers -> lines put into its channel, in order]
  taken     \* [Handlers -> how many of them it has received]

sessionVars == <<session, issued, failed, blocked, from>>
streamVars == <<slots, present, logged, subs, queued, taken>>
vars == <<sessionVars, streamVars, pc>>

Goto(h, at) == pc' = [pc EXCEPT ![h] = at]

Init ==
  /\ session = [t \in Tokens |-> "none"] /\ issued = {}
  /\ failed = [r \in Remotes |-> 0] /\ blocked = {}
  /\ from \in [Handlers -> Remotes]
  /\ pc = [h \in Handlers |-> "idle"]
  /\ slots = 0 /\ present = {} /\ logged = 0 /\ subs = {}
  /\ queued = [h \in Handlers |-> <<>>] /\ taken = [h \in Handlers |-> 0]

-----------------------------------------------------------------------------
(* Sessions                                                                 *)

Sessions == {t \in Tokens : session[t] # "none"}
Live == {t \in Tokens : session[t] = "live"}

\* Time passes: sessions expire, blocks lapse.
Elapse ==
  \E ts \in SUBSET Live, rs \in SUBSET blocked :
    /\ session' = [t \in Tokens |-> IF t \in ts THEN "expired" ELSE session[t]]
    /\ blocked' = blocked \ rs
    /\ UNCHANGED <<issued, failed, from, streamVars, pc>>

\* POST login from r, past loginBlocked.
LoginStart(h) ==
  /\ pc[h] = "idle" /\ Goto(h, "verify")
  /\ \E r \in Remotes :
       /\ ~(failed[r] >= MaxLoginFailures /\ r \in blocked)
       /\ from' = [from EXCEPT ![h] = r]
  /\ UNCHANGED <<session, issued, failed, blocked, streamVars>>

\* recordLoginFailure: the zero time of a record without a limit lies in the
\* past, so the count begins anew.
Count(r) == (IF r \in blocked THEN failed[r] ELSE 0) + 1

LoginFails(h) ==
  /\ pc[h] = "verify" /\ Goto(h, "idle")
  /\ failed' = [failed EXCEPT ![from[h]] = Count(from[h])]
  /\ blocked' = IF Count(from[h]) >= MaxLoginFailures THEN blocked \cup {from[h]}
                                                     ELSE blocked \ {from[h]}
  /\ UNCHANGED <<session, issued, from, streamVars>>

\* Bound: a token is left for every login under way.
TokenLeft == Cardinality({h \in Handlers : pc[h] = "login"}) < Cardinality(Tokens \ issued)

LoginPasses(h) ==
  /\ pc[h] = "verify" /\ TokenLeft /\ Goto(h, "login")
  /\ UNCHANGED <<sessionVars, streamVars>>

Pruned == [t \in Tokens |-> IF session[t] = "live" THEN "live" ELSE "none"]

\* Mutant: expired sessions are not removed first.
Grant_NoPrune(h) ==
  /\ pc[h] = "login" /\ Goto(h, "idle")
  /\ \/ /\ Cardinality(Sessions) >= MaxSessions
        /\ UNCHANGED <<session, issued, failed, blocked>>
     \/ /\ Cardinality(Sessions) < MaxSessions
        /\ \E t \in Tokens \ issued :
             session' = [session EXCEPT ![t] = "live"] /\ issued' = issued \cup {t}
        /\ failed' = [failed EXCEPT ![from[h]] = 0] /\ blocked' = blocked \ {from[h]}
  /\ UNCHANGED <<from, streamVars>>

\* Under mu: expired sessions go, the capacity is checked, the session opened.
Grant(h) ==
  /\ pc[h] = "login" /\ Goto(h, "idle")
  /\ \/ /\ Cardinality(Live) >= MaxSessions
        /\ session' = Pruned /\ UNCHANGED <<issued, failed, blocked>>
     \/ /\ Cardinality(Live) < MaxSessions
        /\ \E t \in Tokens \ issued :
             session' = [Pruned EXCEPT ![t] = "live"] /\ issued' = issued \cup {t}
        /\ failed' = [failed EXCEPT ![from[h]] = 0] /\ blocked' = blocked \ {from[h]}
  /\ UNCHANGED <<from, streamVars>>

Logout(h) ==
  /\ pc[h] = "idle" /\ pc' = pc
  /\ \E t \in issued : session' = [session EXCEPT ![t] = "none"]
  /\ UNCHANGED <<issued, failed, blocked, from, streamVars>>

\* isAuthorized of a request that shows token t: an expired session is deleted.
Rejected(h) ==
  /\ pc[h] = "idle" /\ pc' = pc
  /\ \E t \in issued : session[t] = "expired" /\ session' = [session EXCEPT ![t] = "none"]
  /\ UNCHANGED <<issued, failed, blocked, from, streamVars>>

-----------------------------------------------------------------------------
(* The log stream                                                           *)

\* GET logs/stream with the cookie of a live session.
OpenStream(h) ==
  /\ pc[h] = "idle" /\ Live # {}
  /\ Goto(h, "slot") /\ present' = present \cup {h}
  /\ UNCHANGED <<sessionVars, slots, logged, subs, queued, taken>>

\* The browser closes the page, or its connection breaks.
Vanish(h) ==
  /\ h \in present /\ present' = present \ {h}
  /\ UNCHANGED <<sessionVars, slots, logged, subs, queued, taken, pc>>

TakeSlot(h) ==
  /\ pc[h] = "slot"
  /\ \/ /\ slots < MaxStreams /\ slots' = slots + 1
        /\ Goto(h, "subscribe") /\ UNCHANGED present
     \/ /\ slots >= MaxStreams /\ UNCHANGED slots
        /\ Goto(h, "idle") /\ present' = present \ {h}
  /\ UNCHANGED <<sessionVars, logged, subs, queued, taken>>

\* logx.Subscribe.
Subscribe(h) ==
  /\ pc[h] = "subscribe" /\ Goto(h, "write")
  /\ subs' = subs \cup {h}
  /\ UNCHANGED <<sessionVars, slots, present, logged, queued, taken>>

\* send: the write ends when the browser reads, or fails when it is gone, which
\* the handler ignores.
Written(h) ==
  /\ pc[h] = "write" /\ Goto(h, "select")
  /\ UNCHANGED <<sessionVars, streamVars>>

TakeLine(h) ==
  /\ pc[h] = "select" /\ taken[h] < Len(queued[h])
  /\ Goto(h, "write") /\ taken' = [taken EXCEPT ![h] = @ + 1]
  /\ UNCHANGED <<sessionVars, slots, present, logged, subs, queued>>

\* A state snapshot, every two seconds.
Tick(h) ==
  /\ pc[h] = "select" /\ Goto(h, "write")
  /\ UNCHANGED <<sessionVars, streamVars>>

\* Mutant: the handler ends with its session, not with its request.
Done_WithSession(h) ==
  /\ pc[h] = "select" /\ Live = {}
  /\ Goto(h, "unsubscribe")
  /\ UNCHANGED <<sessionVars, streamVars>>

\* Mutant: the handler returns without its deferred unsubscribe.
Done_Subscribed(h) ==
  /\ pc[h] = "select" /\ h \notin present
  /\ Goto(h, "release")
  /\ UNCHANGED <<sessionVars, streamVars>>

Done(h) ==
  /\ pc[h] = "select" /\ h \notin present
  /\ Goto(h, "unsubscribe")
  /\ UNCHANGED <<sessionVars, streamVars>>

\* The deferred calls: unsubscribe, with which the channel is dropped, ...
Unsubscribe(h) ==
  /\ pc[h] = "unsubscribe" /\ Goto(h, "release")
  /\ subs' = subs \ {h}
  /\ queued' = [queued EXCEPT ![h] = <<>>] /\ taken' = [taken EXCEPT ![h] = 0]
  /\ UNCHANGED <<sessionVars, slots, present, logged>>

\* ... then the slot.
Release(h) ==
  /\ pc[h] = "release" /\ Goto(h, "idle")
  /\ slots' = slots - 1
  /\ UNCHANGED <<sessionVars, present, logged, subs, queued, taken>>

\* Mutant: a full channel loses its oldest line instead.
Deliver_DropOldest(h) ==
  IF Len(queued[h]) - taken[h] < SubCap THEN Append(queued[h], logged + 1)
    ELSE Append(SubSeq(queued[h], 1, taken[h]) \o SubSeq(queued[h], taken[h] + 2, Len(queued[h])),
                logged + 1)

\* The non-blocking send to one subscriber.
Deliver(h) ==
  IF Len(queued[h]) - taken[h] < SubCap THEN Append(queued[h], logged + 1) ELSE queued[h]

\* emit, of any goroutine: all subscribers under one lock.
Emit ==
  /\ logged < MaxLines /\ logged' = logged + 1
  /\ queued' = [h \in Handlers |-> IF h \in subs THEN Deliver(h) ELSE queued[h]]
  /\ UNCHANGED <<sessionVars, slots, present, subs, taken, pc>>

-----------------------------------------------------------------------------
Streaming(h) ==
  \/ TakeSlot(h) \/ Subscribe(h) \/ TakeLine(h) \/ Tick(h) \/ Done(h)
  \/ Unsubscribe(h) \/ Release(h) \/ (h \notin present /\ Written(h))

Handle(h) ==
  \/ LoginStart(h) \/ LoginFails(h) \/ LoginPasses(h) \/ Grant(h) \/ Logout(h) \/ Rejected(h)
  \/ OpenStream(h) \/ Vanish(h) \/ TakeSlot(h) \/ Subscribe(h) \/ Written(h)
  \/ TakeLine(h) \/ Tick(h) \/ Done(h) \/ Unsubscribe(h) \/ Release(h)

Next == Emit \/ Elapse \/ \E h \in Handlers : Handle(h)

Spec == Init /\ [][Next]_vars

\* The handlers run, and a select whose context is done takes that case some
\* time, though ticks and lines keep coming (Go picks among ready cases at random).
\* No browser has to read, to leave or to log in.
FairSpec ==
  Spec /\ \A h \in Handlers : WF_vars(Streaming(h)) /\ SF_vars(Done(h))

-----------------------------------------------------------------------------
Subscribed == {"write", "select", "unsubscribe"}
Holding == Subscribed \cup {"subscribe", "release"}

TypeOK ==
  /\ session \in [Tokens -> {"none", "live", "expired"}]
  /\ issued \subseteq Tokens /\ Sessions \subseteq issued
  /\ Cardinality(Sessions) <= MaxSessions
  /\ failed \in [Remotes -> Nat] /\ blocked \subseteq Remotes
  /\ from \in [Handlers -> Remotes]
  /\ pc \in [Handlers -> {"idle", "verify", "login", "slot"} \cup Holding]
  /\ slots \in 0 .. MaxStreams /\ present \subseteq Handlers /\ subs \subseteq Handlers
  /\ logged \in 0 .. MaxLines
  /\ queued \in [Handlers -> Seq(1 .. logged)]
  /\ taken \in [Handlers -> Nat] /\ \A h \in Handlers : taken[h] <= Len(queued[h])

\* A slot is held, and a channel subscribed, exactly while a handler streams, on
\* every way out of apiLogStream.
StreamsAccounted ==
  /\ slots = Cardinality({h \in Handlers : pc[h] \in Holding})
  /\ subs = {h \in Handlers : pc[h] \in Subscribed}

\* A browser sees the log in order, and misses a line only if it had a full
\* channel before it (emit).
GapsOnlyWhenFull ==
  \A h \in Handlers : \A i \in 1 .. Len(queued[h]) - 1 :
    /\ queued[h][i] < queued[h][i + 1]
    /\ queued[h][i + 1] > queued[h][i] + 1 => i >= SubCap

\* Correct credentials are turned away for want of room only while MaxSessions
\* sessions can still be used (apiLogin).
RefusedOnlyWhenFull ==
  [][\A h \in Handlers :
       pc[h] = "login" /\ pc'[h] = "idle" /\ issued' = issued =>
         Cardinality(Live) = MaxSessions]_vars

\* A stream whose browser is gone gives its slot and its subscription back,
\* however fast the log grows.
StreamEnds ==
  \A h \in Handlers : pc[h] \in Holding /\ h \notin present ~> pc[h] = "idle"
=============================================================================
