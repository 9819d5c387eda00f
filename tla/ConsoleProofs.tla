----------------------------- MODULE ConsoleProofs -----------------------------
(***************************************************************************)
(* Proofs about Console for any handlers, sessions, streams, capacities and  *)
(* lengths of the log.                                                       *)
(***************************************************************************)
EXTENDS Console, FiniteSetTheorems, TLAPS

-----------------------------------------------------------------------------
(* Sessions                                                                 *)

\* What RefusedOnlyWhenFull rests on: a token in the map has been drawn, so that a
\* fresh one adds a session, and there are never more than MaxSessions.
SessionInv ==
  /\ session \in [Tokens -> {"none", "live", "expired"}]
  /\ issued \subseteq Tokens /\ Sessions \subseteq issued
  /\ Cardinality(Sessions) <= MaxSessions

\* What the cardinality theorems need to know of the sets of tokens.
LEMMA TokenSets ==
  /\ IsFiniteSet(Sessions) /\ IsFiniteSet(Sessions') /\ IsFiniteSet(Live)
  /\ Cardinality(Sessions) \in Nat /\ Cardinality(Sessions') \in Nat
  /\ Cardinality(Live) \in Nat
  /\ MaxSessions \in Nat
<1>1. Sessions \subseteq Tokens /\ Sessions' \subseteq Tokens /\ Live \subseteq Tokens
  BY DEF Sessions, Live
<1> QED
  BY <1>1, FS_Subset, FS_CardinalityType, ConsoleAssumption DEF ConsoleAssumption

\* Ending sessions needs no room.
LEMMA FewerSessions ==
  ASSUME SessionInv, Sessions' \subseteq Sessions,
         session' \in [Tokens -> {"none", "live", "expired"}], issued' = issued
  PROVE  SessionInv'
<1>1. Cardinality(Sessions') <= Cardinality(Sessions)
  BY TokenSets, FS_Subset
<1>2. Cardinality(Sessions') <= MaxSessions
  BY <1>1, TokenSets DEF SessionInv
<1>3. issued' \subseteq Tokens /\ Sessions' \subseteq issued'
  BY DEF SessionInv
<1> QED
  BY <1>2, <1>3 DEF SessionInv

\* Opening a session after the expired ones were removed.
LEMMA OneMoreSession ==
  ASSUME SessionInv, NEW t \in Tokens \ issued, Cardinality(Live) < MaxSessions,
         session' = [Pruned EXCEPT ![t] = "live"], issued' = issued \cup {t}
  PROVE  SessionInv'
<1>1. session' \in [Tokens -> {"none", "live", "expired"}]
  BY DEF Pruned
<1>2. Live \subseteq Sessions /\ t \notin Live
  BY DEF Live, Sessions, SessionInv
<1>3. Sessions' = Live \cup {t}
  BY <1>1 DEF Sessions, Live, Pruned
<1>4. Cardinality(Sessions') = Cardinality(Live) + 1
  BY <1>2, <1>3, TokenSets, FS_AddElement
<1>5. Cardinality(Sessions') <= MaxSessions
  BY <1>4, TokenSets
<1>6. issued' \subseteq Tokens /\ Sessions' \subseteq issued'
  BY <1>2, <1>3 DEF SessionInv
<1> QED
  BY <1>1, <1>5, <1>6 DEF SessionInv

\* SessionInv is inductive.
LEMMA SessionInductive == SessionInv /\ [Next]_vars => SessionInv'
<1> SUFFICES ASSUME SessionInv, [Next]_vars PROVE SessionInv'
  OBVIOUS
<1>1. ASSUME session' = session, issued' = issued PROVE SessionInv'
  BY <1>1 DEF SessionInv, Sessions
<1>2. CASE Elapse
  <2>1. session' \in [Tokens -> {"none", "live", "expired"}] /\ issued' = issued
    BY <1>2 DEF Elapse, SessionInv
  <2>2. Sessions' \subseteq Sessions
    BY <1>2 DEF Elapse, Sessions, Live
  <2> QED
    BY <2>1, <2>2, FewerSessions
<1>3. ASSUME NEW h \in Handlers, Grant(h) PROVE SessionInv'
  <2>1. CASE session' = Pruned /\ issued' = issued
    <3>1. session' \in [Tokens -> {"none", "live", "expired"}] /\ Sessions' \subseteq Sessions
      BY <2>1 DEF Pruned, Sessions
    <3> QED
      BY <2>1, <3>1, FewerSessions
  <2>2. CASE /\ Cardinality(Live) < MaxSessions
             /\ \E t \in Tokens \ issued :
                  session' = [Pruned EXCEPT ![t] = "live"] /\ issued' = issued \cup {t}
    BY <2>2, OneMoreSession
  <2> QED
    BY <1>3, <2>1, <2>2 DEF Grant
<1>4. ASSUME NEW h \in Handlers, Logout(h) \/ Rejected(h) PROVE SessionInv'
  <2>1. PICK t \in issued : session' = [session EXCEPT ![t] = "none"]
    BY <1>4 DEF Logout, Rejected
  <2>2. session' \in [Tokens -> {"none", "live", "expired"}] /\ Sessions' \subseteq Sessions
    BY <2>1 DEF SessionInv, Sessions
  <2> QED
    BY <1>4, <2>2, FewerSessions DEF Logout, Rejected
<1>5. ASSUME NEW h \in Handlers, LoginStart(h) \/ LoginFails(h) \/ LoginPasses(h) PROVE SessionInv'
  BY <1>1, <1>5 DEF LoginStart, LoginFails, LoginPasses, sessionVars
<1>6. CASE UNCHANGED sessionVars
  BY <1>1, <1>6 DEF sessionVars
<1>7. ASSUME NEW h \in Handlers,
             \/ OpenStream(h) \/ Vanish(h) \/ TakeSlot(h) \/ Subscribe(h) \/ Written(h)
             \/ TakeLine(h) \/ Tick(h) \/ Done(h) \/ Unsubscribe(h) \/ Release(h)
      PROVE  SessionInv'
  BY <1>6, <1>7 DEF OpenStream, Vanish, TakeSlot, Subscribe, Written, TakeLine, Tick, Done,
     Unsubscribe, Release
<1> QED
  BY <1>2, <1>3, <1>4, <1>5, <1>6, <1>7 DEF Next, Handle, Emit, vars

\* SessionInv holds throughout.
LEMMA SessionInvariance == Spec => []SessionInv
<1>1. Init => SessionInv
  <2> SUFFICES ASSUME Init PROVE SessionInv
    OBVIOUS
  <2>1. Sessions = {}
    BY DEF Init, Sessions
  <2>2. Cardinality(Sessions) <= MaxSessions
    BY <2>1, FS_EmptySet, TokenSets
  <2> QED
    BY <2>1, <2>2 DEF Init, SessionInv
<1> QED
  BY <1>1, SessionInductive, PTL DEF Spec

-----------------------------------------------------------------------------
(* Streams                                                                  *)

Phases == {"idle", "verify", "login", "slot"} \cup Holding
Holders == {h \in Handlers : pc[h] \in Holding}

\* What StreamsAccounted rests on: the phases, and the capacity.
StreamInv ==
  /\ pc \in [Handlers -> Phases]
  /\ slots \in 0 .. MaxStreams
  /\ StreamsAccounted

\* The sets of handlers are finite.
LEMMA HolderSets ==
  /\ IsFiniteSet(Holders) /\ Cardinality(Holders) \in Nat
  /\ IsFiniteSet(Holders') /\ Cardinality(Holders') \in Nat /\ MaxStreams \in Nat
<1>1. Holders \subseteq Handlers /\ Holders' \subseteq Handlers
  BY DEF Holders
<1> QED
  BY <1>1, FS_Subset, FS_CardinalityType, ConsoleAssumption DEF ConsoleAssumption

\* A handler that moves takes a slot, gives it back, or neither.
LEMMA HandlerMoves ==
  ASSUME StreamInv, NEW h \in Handlers, NEW p \in Phases, pc' = [pc EXCEPT ![h] = p],
         \/ (pc[h] \in Holding) = (p \in Holding) /\ slots' = slots
         \/ pc[h] \notin Holding /\ p \in Holding /\ slots < MaxStreams /\ slots' = slots + 1
         \/ pc[h] \in Holding /\ p \notin Holding /\ slots' = slots - 1,
         subs' = IF p \in Subscribed THEN subs \cup {h} ELSE subs \ {h}
  PROVE  StreamInv'
<1>1. pc' \in [Handlers -> Phases]
  BY DEF StreamInv
<1>2. slots = Cardinality(Holders)
  BY DEF StreamInv, StreamsAccounted, Holders
<1>3. slots' = Cardinality(Holders') /\ slots' \in 0 .. MaxStreams
  <2>1. CASE (pc[h] \in Holding) = (p \in Holding) /\ slots' = slots
    <3>1. Holders' = Holders
      BY <2>1 DEF Holders, StreamInv
    <3> QED
      BY <1>2, <2>1, <3>1 DEF StreamInv
  <2>2. CASE pc[h] \notin Holding /\ p \in Holding /\ slots < MaxStreams /\ slots' = slots + 1
    <3>1. Holders' = Holders \cup {h} /\ h \notin Holders
      BY <2>2 DEF Holders, StreamInv
    <3>2. Cardinality(Holders') = Cardinality(Holders) + 1
      BY <3>1, HolderSets, FS_AddElement
    <3> QED
      BY <1>2, <2>2, <3>2, HolderSets DEF StreamInv
  <2>3. CASE pc[h] \in Holding /\ p \notin Holding /\ slots' = slots - 1
    <3>1. Holders' = Holders \ {h} /\ h \in Holders
      BY <2>3 DEF Holders, StreamInv
    <3>2. Cardinality(Holders') = Cardinality(Holders) - 1
      BY <3>1, HolderSets, FS_RemoveElement
    <3> QED
      BY <1>2, <2>3, <3>2, HolderSets DEF StreamInv
  <2> QED
    BY <2>1, <2>2, <2>3
<1>4. subs' = {x \in Handlers : pc'[x] \in Subscribed}
  BY DEF StreamInv, StreamsAccounted
<1>5. StreamsAccounted'
  BY <1>3, <1>4 DEF StreamsAccounted, Holders
<1> QED
  BY <1>1, <1>3, <1>5 DEF StreamInv

\* StreamInv is inductive.
LEMMA StreamInductive == StreamInv /\ [Next]_vars => StreamInv'
<1> SUFFICES ASSUME StreamInv, [Next]_vars PROVE StreamInv'
  OBVIOUS
<1>1. ASSUME pc' = pc, slots' = slots, subs' = subs PROVE StreamInv'
  BY <1>1 DEF StreamInv, StreamsAccounted
<1>2. ASSUME NEW h \in Handlers, NEW p \in Phases, Goto(h, p),
             slots' = slots, subs' = subs,
             (pc[h] \in Holding) = (p \in Holding),
             (pc[h] \in Subscribed) = (p \in Subscribed)
      PROVE  StreamInv'
  <2>1. h \in subs <=> p \in Subscribed
    BY <1>2 DEF StreamInv, StreamsAccounted
  <2>2. subs' = IF p \in Subscribed THEN subs \cup {h} ELSE subs \ {h}
    BY <1>2, <2>1
  <2> QED
    BY <1>2, <2>2, HandlerMoves DEF Goto
<1> USE DEF Phases, Holding, Subscribed
<1>3. ASSUME NEW h \in Handlers, TakeSlot(h) PROVE StreamInv'
  <2>1. CASE slots < MaxStreams /\ slots' = slots + 1 /\ Goto(h, "subscribe")
    <3>1. h \notin subs /\ subs' = subs
      BY <1>3 DEF TakeSlot, StreamInv, StreamsAccounted
    <3>2. subs' = IF "subscribe" \in Subscribed THEN subs \cup {h} ELSE subs \ {h}
      BY <3>1
    <3> QED
      BY <1>3, <2>1, <3>2, HandlerMoves DEF TakeSlot, Goto
  <2>2. CASE slots' = slots /\ Goto(h, "idle")
    BY <1>2, <1>3, <2>2 DEF TakeSlot
  <2> QED
    BY <1>3, <2>1, <2>2 DEF TakeSlot
<1>4. ASSUME NEW h \in Handlers, Subscribe(h) PROVE StreamInv'
  <2>1. /\ slots' = slots /\ pc[h] \in Holding /\ pc' = [pc EXCEPT ![h] = "write"]
        /\ subs' = IF "write" \in Subscribed THEN subs \cup {h} ELSE subs \ {h}
    BY <1>4 DEF Subscribe, Goto
  <2>2. "write" \in Phases /\ (pc[h] \in Holding) = ("write" \in Holding)
    BY <2>1
  <2> QED
    BY <2>1, <2>2, HandlerMoves
<1>5. ASSUME NEW h \in Handlers, Written(h) \/ Tick(h) \/ Done(h) PROVE StreamInv'
  <2>1. slots' = slots /\ subs' = subs /\ pc[h] \in {"write", "select"}
    BY <1>5 DEF Written, Tick, Done, streamVars
  <2>2. Goto(h, "select") \/ Goto(h, "write") \/ Goto(h, "unsubscribe")
    BY <1>5 DEF Written, Tick, Done
  <2> QED
    BY <1>2, <2>1, <2>2
<1>6. ASSUME NEW h \in Handlers, TakeLine(h) PROVE StreamInv'
  BY <1>2, <1>6 DEF TakeLine
<1>7. ASSUME NEW h \in Handlers, Unsubscribe(h) PROVE StreamInv'
  <2>1. /\ slots' = slots /\ pc[h] \in Holding /\ pc' = [pc EXCEPT ![h] = "release"]
        /\ subs' = IF "release" \in Subscribed THEN subs \cup {h} ELSE subs \ {h}
    BY <1>7 DEF Unsubscribe, Goto
  <2>2. "release" \in Phases /\ (pc[h] \in Holding) = ("release" \in Holding)
    BY <2>1
  <2> QED
    BY <2>1, <2>2, HandlerMoves
<1>8. ASSUME NEW h \in Handlers, Release(h) PROVE StreamInv'
  <2>1. subs' = subs /\ h \notin subs
    BY <1>8 DEF Release, StreamInv, StreamsAccounted
  <2>2. subs' = IF "idle" \in Subscribed THEN subs \cup {h} ELSE subs \ {h}
    BY <2>1
  <2> QED
    BY <1>8, <2>2, HandlerMoves DEF Release, Goto
<1>9. ASSUME NEW h \in Handlers, LoginStart(h) \/ LoginFails(h) \/ LoginPasses(h) \/ Grant(h)
      PROVE  StreamInv'
  <2>1. slots' = slots /\ subs' = subs /\ pc[h] \in {"idle", "verify", "login"}
    BY <1>9 DEF LoginStart, LoginFails, LoginPasses, Grant, streamVars
  <2>2. Goto(h, "verify") \/ Goto(h, "login") \/ Goto(h, "idle")
    BY <1>9 DEF LoginStart, LoginFails, LoginPasses, Grant
  <2> QED
    BY <1>2, <2>1, <2>2
<1>10. ASSUME NEW h \in Handlers, OpenStream(h) PROVE StreamInv'
  BY <1>2, <1>10 DEF OpenStream
<1>11. ASSUME NEW h \in Handlers, Logout(h) \/ Rejected(h) \/ Vanish(h)
       PROVE  StreamInv'
  BY <1>1, <1>11 DEF Logout, Rejected, Vanish, streamVars
<1>12. CASE Emit \/ Elapse \/ UNCHANGED vars
  BY <1>1, <1>12 DEF Emit, Elapse, vars, streamVars
<1> QED
  BY <1>3, <1>4, <1>5, <1>6, <1>7, <1>8, <1>9, <1>10, <1>11, <1>12 DEF Next, Handle

\* StreamInv holds throughout.
LEMMA StreamInvariance == Spec => []StreamInv
<1>1. Init => StreamInv
  <2> SUFFICES ASSUME Init PROVE StreamInv
    OBVIOUS
  <2>1. Holders = {} /\ {h \in Handlers : pc[h] \in Subscribed} = {}
    BY DEF Init, Holders, Holding, Subscribed
  <2>2. slots = Cardinality(Holders) /\ slots \in 0 .. MaxStreams
    BY <2>1, FS_EmptySet, HolderSets DEF Init
  <2> QED
    BY <2>1, <2>2 DEF Init, StreamInv, StreamsAccounted, Holders, Phases
<1> QED
  BY <1>1, StreamInductive, PTL DEF Spec

\* For any handlers and any limit: a slot and a subscription are held exactly by
\* the handlers that stream.
THEOREM StreamsKept == Spec => []StreamsAccounted
<1>1. StreamInv => StreamsAccounted
  BY DEF StreamInv
<1> QED
  BY <1>1, StreamInvariance, PTL

\* For any capacity: whoever is turned away for want of room finds MaxSessions
\* sessions in use.
THEOREM RoomUsed == Spec => RefusedOnlyWhenFull
<1>1. SessionInv /\ StreamInv /\ [Next]_vars =>
        [\A h \in Handlers : pc[h] = "login" /\ pc'[h] = "idle" /\ issued' = issued =>
           Cardinality(Live) = MaxSessions]_vars
  <2> SUFFICES ASSUME SessionInv, StreamInv, Next, NEW h \in Handlers,
                      pc[h] = "login", pc'[h] = "idle", issued' = issued
               PROVE  Cardinality(Live) = MaxSessions
    OBVIOUS
  <2>1. Cardinality(Live) <= MaxSessions
    <3>1. Live \subseteq Sessions
      BY DEF Live, Sessions
    <3>2. Cardinality(Live) <= Cardinality(Sessions)
      BY <3>1, TokenSets, FS_Subset
    <3> QED
      BY <3>2, TokenSets DEF SessionInv
  <2>2. PICK x \in Handlers : Grant(x)
    BY DEF StreamInv, Next, Handle, Emit, Elapse, LoginStart, LoginFails, LoginPasses, Logout,
       Rejected, OpenStream, Vanish, TakeSlot, Subscribe, Written, TakeLine, Tick, Done, Unsubscribe, Release, Goto
  <2>3. Cardinality(Live) >= MaxSessions
    BY <2>2 DEF Grant
  <2> QED
    BY <2>1, <2>3, TokenSets
<1> QED
  BY <1>1, SessionInvariance, StreamInvariance, PTL DEF Spec, RefusedOnlyWhenFull

-----------------------------------------------------------------------------
(* The log                                                                  *)

\* What GapsOnlyWhenFull rests on: a channel holds lines that were logged, is empty
\* without a subscription, and lacks the latest line only after it was full.
LogInv ==
  /\ logged \in 0 .. MaxLines
  /\ queued \in [Handlers -> Seq(Nat)]
  /\ taken \in [Handlers -> Nat] /\ \A h \in Handlers : taken[h] <= Len(queued[h])
  /\ \A h \in Handlers : \A i \in 1 .. Len(queued[h]) : queued[h][i] \in 1 .. logged
  /\ \A h \in Handlers : h \notin subs => queued[h] = <<>>
  /\ \A h \in Handlers : Len(queued[h]) > 0 /\ queued[h][Len(queued[h])] < logged =>
       Len(queued[h]) >= SubCap
  /\ GapsOnlyWhenFull

\* What LogInv asks of one channel q, of which n lines were taken, at line l.
ChannelOK(q, n, l) ==
  /\ q \in Seq(Nat) /\ n \in Nat /\ n <= Len(q)
  /\ \A i \in 1 .. Len(q) : q[i] \in 1 .. l
  /\ Len(q) > 0 /\ q[Len(q)] < l => Len(q) >= SubCap
  /\ \A i \in 1 .. Len(q) - 1 : q[i] < q[i + 1] /\ (q[i + 1] > q[i] + 1 => i >= SubCap)

\* LogInv, channel by channel.
LEMMA Channels ==
  LogInv <=> /\ logged \in 0 .. MaxLines
             /\ queued \in [Handlers -> Seq(Nat)] /\ taken \in [Handlers -> Nat]
             /\ \A h \in Handlers : ChannelOK(queued[h], taken[h], logged)
             /\ \A h \in Handlers : h \notin subs => queued[h] = <<>>
  BY DEF LogInv, ChannelOK, GapsOnlyWhenFull

\* A line put into a channel that has room.
LEMMA LineAdded ==
  ASSUME NEW q, NEW n, NEW l \in Nat, ChannelOK(q, n, l), Len(q) - n < SubCap
  PROVE  ChannelOK(Append(q, l + 1), n, l + 1)
<1> DEFINE a == Append(q, l + 1)
<1> USE ConsoleAssumption DEF ConsoleAssumption
<1>1. q \in Seq(Nat) /\ n \in Nat /\ Len(q) \in Nat /\ n <= Len(q)
  BY DEF ChannelOK
<1>2. /\ a \in Seq(Nat) /\ Len(a) = Len(q) + 1 /\ a[Len(q) + 1] = l + 1
      /\ \A i \in 1 .. Len(q) : a[i] = q[i]
  BY <1>1
<1>3. \A i \in 1 .. Len(q) : q[i] \in 1 .. l
  BY DEF ChannelOK
<1>4. ASSUME NEW i \in 1 .. Len(a) PROVE a[i] \in 1 .. l + 1
  BY <1>1, <1>2, <1>3
<1>5. ASSUME NEW i \in 1 .. Len(a) - 1
      PROVE  a[i] < a[i + 1] /\ (a[i + 1] > a[i] + 1 => i >= SubCap)
  <2>1. CASE i < Len(q)
    <3>1. i \in 1 .. Len(q) - 1 /\ a[i] = q[i] /\ a[i + 1] = q[i + 1]
      BY <1>1, <1>2, <2>1
    <3> QED
      BY <3>1 DEF ChannelOK
  <2>2. CASE i = Len(q)
    <3>1. a[i] = q[i] /\ a[i + 1] = l + 1 /\ q[i] \in 1 .. l /\ Len(q) > 0
      BY <1>1, <1>2, <1>3, <2>2
    <3>2. q[i] < l => i >= SubCap
      BY <3>1, <2>2 DEF ChannelOK
    <3> QED
      BY <1>1, <3>1, <3>2
  <2> QED
    BY <1>1, <1>2, <2>1, <2>2
<1>6. ~(a[Len(a)] < l + 1)
  BY <1>1, <1>2
<1> HIDE DEF a
<1>7. n <= Len(a)
  BY <1>1, <1>2
<1>8. ChannelOK(a, n, l + 1)
  BY <1>1, <1>2, <1>4, <1>5, <1>6, <1>7 DEF ChannelOK
<1> QED
  BY <1>8 DEF a

\* LogInv is inductive.
LEMMA LogInductive == LogInv /\ [Next]_vars => LogInv'
<1> SUFFICES ASSUME LogInv, [Next]_vars PROVE LogInv'
  OBVIOUS
<1> USE ConsoleAssumption DEF ConsoleAssumption
<1>1. ASSUME logged' = logged, queued' = queued, taken' = taken, subs' = subs PROVE LogInv'
  BY <1>1 DEF LogInv, GapsOnlyWhenFull
<1>2. ASSUME NEW h \in Handlers, TakeLine(h) PROVE LogInv'
  BY <1>2 DEF TakeLine, LogInv, GapsOnlyWhenFull
<1>3. ASSUME NEW h \in Handlers, Unsubscribe(h) PROVE LogInv'
  BY <1>3 DEF Unsubscribe, LogInv, GapsOnlyWhenFull
<1>4. ASSUME NEW h \in Handlers, Subscribe(h) PROVE LogInv'
  BY <1>4 DEF Subscribe, LogInv, GapsOnlyWhenFull
<1>5. CASE Emit
  <2>1. logged' = logged + 1 /\ logged' \in 0 .. MaxLines /\ logged \in Nat /\ taken' = taken
    BY <1>5 DEF Emit, LogInv
  <2>2. ASSUME NEW h \in Handlers PROVE ChannelOK(queued'[h], taken[h], logged + 1)
    <3>1. ChannelOK(queued[h], taken[h], logged) /\ (h \notin subs => queued[h] = <<>>)
      BY Channels
    <3>2. CASE h \notin subs
      <4>1. queued'[h] = <<>> /\ queued[h] = <<>> /\ taken[h] = 0
        BY <1>5, <3>1, <3>2 DEF Emit, ChannelOK
      <4>2. Len(queued'[h]) = 0
        BY <4>1
      <4> QED
        BY <4>1, <4>2, <3>1 DEF ChannelOK
    <3>3. CASE h \in subs /\ Len(queued[h]) - taken[h] < SubCap
      <4>1. queued'[h] = Append(queued[h], logged + 1)
        BY <1>5, <3>3 DEF Emit, Deliver
      <4> QED
        BY <2>1, <3>1, <3>3, <4>1, LineAdded
    <3>4. CASE h \in subs /\ ~(Len(queued[h]) - taken[h] < SubCap)
      <4>1. queued'[h] = queued[h]
        BY <1>5, <3>4 DEF Emit, Deliver
      <4>2. Len(queued[h]) >= SubCap
        BY <3>1, <3>4 DEF ChannelOK
      <4> QED
        BY <2>1, <3>1, <4>1, <4>2 DEF ChannelOK
    <3> QED
      BY <3>2, <3>3, <3>4
  <2>3. \A h \in Handlers : queued'[h] \in Seq(Nat)
    BY <2>2 DEF ChannelOK
  <2>4. queued' \in [Handlers -> Seq(Nat)]
    BY <1>5, <2>3 DEF Emit
  <2>5. \A h \in Handlers : h \notin subs' => queued'[h] = <<>>
    BY <1>5 DEF Emit, LogInv
  <2>6. taken' \in [Handlers -> Nat]
    BY <2>1 DEF LogInv
  <2>7. \A h \in Handlers : ChannelOK(queued'[h], taken'[h], logged')
    BY <2>1, <2>2
  <2> QED
    BY <2>1, <2>4, <2>5, <2>6, <2>7 DEF LogInv, ChannelOK, GapsOnlyWhenFull
<1>6. ASSUME NEW h \in Handlers, Handle(h), ~TakeLine(h), ~Unsubscribe(h), ~Subscribe(h)
      PROVE  LogInv'
  BY <1>1, <1>6 DEF Handle, LoginStart, LoginFails, LoginPasses, Grant, Logout, Rejected, OpenStream,
     Vanish, TakeSlot, Written, Tick, Done, Release, streamVars
<1>7. CASE Elapse \/ UNCHANGED vars
  BY <1>1, <1>7 DEF Elapse, vars, streamVars
<1> QED
  BY <1>2, <1>3, <1>4, <1>5, <1>6, <1>7 DEF Next

\* LogInv holds throughout.
LEMMA LogInvariance == Spec => []LogInv
<1>1. Init => LogInv
  BY ConsoleAssumption DEF Init, LogInv, GapsOnlyWhenFull, ConsoleAssumption
<1> QED
  BY <1>1, LogInductive, PTL DEF Spec

\* For any capacity and any length of the log: a browser sees the lines in order,
\* and misses one only after its channel was full.
THEOREM LogInOrder == Spec => []GapsOnlyWhenFull
<1>1. LogInv => GapsOnlyWhenFull
  BY DEF LogInv
<1> QED
  BY <1>1, LogInvariance, PTL

-----------------------------------------------------------------------------
(* Types                                                                    *)

\* What the other invariants leave out.
RestInv ==
  /\ failed \in [Remotes -> Nat] /\ blocked \subseteq Remotes
  /\ from \in [Handlers -> Remotes] /\ present \subseteq Handlers

LEMMA RestInductive == RestInv /\ [Next]_vars => RestInv'
<1> SUFFICES ASSUME RestInv, [Next]_vars PROVE RestInv'
  OBVIOUS
<1> USE DEF RestInv, sessionVars, streamVars
<1>1. CASE Emit \/ Elapse \/ UNCHANGED vars
  BY <1>1 DEF Emit, Elapse, vars
<1>2. ASSUME NEW h \in Handlers, Handle(h) PROVE RestInv'
  <2>1. from[h] \in Remotes
    OBVIOUS
  <2>2. CASE LoginFails(h)
    <3>1. Count(from[h]) \in Nat  BY <2>1 DEF Count
    <3> QED
      BY <2>1, <2>2, <3>1 DEF LoginFails
  <2>3. CASE LoginStart(h) \/ LoginPasses(h) \/ Grant(h) \/ Logout(h) \/ Rejected(h)
    BY <2>1, <2>3 DEF LoginStart, LoginPasses, Grant, Logout, Rejected
  <2>4. CASE OpenStream(h) \/ Vanish(h) \/ TakeSlot(h) \/ Subscribe(h) \/ Written(h)
             \/ TakeLine(h) \/ Tick(h) \/ Done(h) \/ Unsubscribe(h) \/ Release(h)
    BY <2>4 DEF OpenStream, Vanish, TakeSlot, Subscribe, Written, TakeLine, Tick, Done,
                Unsubscribe, Release
  <2> QED
    BY <1>2, <2>2, <2>3, <2>4 DEF Handle
<1> QED
  BY <1>1, <1>2 DEF Next

\* The types of the console's state; never more than MaxSessions sessions.
THEOREM Typing == Spec => []TypeOK
<1>1. Init => RestInv
  BY DEF Init, RestInv
<1>2. RestInv /\ SessionInv /\ StreamInv /\ LogInv => TypeOK
  <2> SUFFICES ASSUME RestInv, SessionInv, StreamInv, LogInv PROVE TypeOK
    OBVIOUS
  <2>1. queued \in [Handlers -> Seq(1 .. logged)]
    <3> SUFFICES ASSUME NEW h \in Handlers PROVE queued[h] \in Seq(1 .. logged)
      BY DEF LogInv
    <3> QED
      BY DEF LogInv
  <2>2. subs \subseteq Handlers
    BY DEF StreamInv, StreamsAccounted
  <2> QED
    BY <2>1, <2>2 DEF RestInv, SessionInv, StreamInv, LogInv, TypeOK, Phases
<1> QED
  BY <1>1, <1>2, RestInductive, SessionInvariance, StreamInvariance, LogInvariance, PTL DEF Spec
=============================================================================
