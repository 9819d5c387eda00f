--------------------------- MODULE ProxyServerProofs ---------------------------
(***************************************************************************)
(* Proofs about ProxyServer for any clients, any capacity and any lengths of *)
(* the streams.                                                              *)
(***************************************************************************)
EXTENDS ProxyServer, FiniteSetTheorems, TLAPS

-----------------------------------------------------------------------------
(* Slots                                                                    *)

Handlers == {c \in Conns : pc[c] \in Holding}

\* What SlotsMatchHandlers rests on: the phases, and the capacity.
SlotInv ==
  /\ pc \in [Conns -> {"new", "backlog", "accepted", "done"} \cup Holding]
  /\ slots \in Nat /\ slots <= MaxConns
  /\ SlotsMatchHandlers

\* A connection that is admitted adds one handler, one that is released takes
\* one away, and any other step leaves the set of handlers as it is.
LEMMA HandlersMove ==
  ASSUME SlotInv, NEW c \in Conns, NEW p, pc' = [pc EXCEPT ![c] = p],
         p \in {"new", "backlog", "accepted", "done"} \cup Holding
  PROVE  /\ pc[c] \in Holding /\ p \in Holding => Handlers' = Handlers
         /\ pc[c] \notin Holding /\ p \notin Holding => Handlers' = Handlers
         /\ pc[c] \notin Holding /\ p \in Holding =>
              Cardinality(Handlers') = Cardinality(Handlers) + 1
         /\ pc[c] \in Holding /\ p \notin Holding =>
              Cardinality(Handlers') = Cardinality(Handlers) - 1
<1> USE DEF SlotInv
<1>1. IsFiniteSet(Handlers)
  <2>1. Handlers \subseteq Conns
    BY DEF Handlers
  <2> QED
    BY <2>1, ProxyAssumption, FS_Subset DEF ProxyAssumption
<1>2. ASSUME (pc[c] \in Holding) = (p \in Holding) PROVE Handlers' = Handlers
  BY <1>2 DEF Handlers
<1>3. ASSUME pc[c] \notin Holding, p \in Holding
      PROVE  Cardinality(Handlers') = Cardinality(Handlers) + 1
  <2>1. c \notin Handlers /\ Handlers' = Handlers \cup {c}
    BY <1>3 DEF Handlers
  <2> QED
    BY <1>1, <2>1, FS_AddElement
<1>4. ASSUME pc[c] \in Holding, p \notin Holding
      PROVE  Cardinality(Handlers') = Cardinality(Handlers) - 1
  <2>1. c \in Handlers /\ Handlers' = Handlers \ {c}
    BY <1>4 DEF Handlers
  <2> QED
    BY <1>1, <2>1, FS_RemoveElement
<1> QED
  BY <1>2, <1>3, <1>4

\* Every step of a handler but the release of its slot stays among the phases
\* that hold one.
LEMMA HandlerHolds ==
  ASSUME SlotInv, NEW c \in Conns, Handle(c) \/ DeadlinePasses(c), ~FreeSlot(c)
  PROVE  /\ slots' = slots
         /\ \/ pc' = pc
            \/ \E p \in Holding : pc[c] \in Holding /\ pc' = [pc EXCEPT ![c] = p]
<1> USE DEF Goto, At, Holding, Serving, Reading, server, Return
<1>1. CASE Sniff(c)  BY <1>1 DEF Sniff
<1>2. CASE Greeting(c)  BY <1>2 DEF Greeting
<1>3. CASE Authenticated(c)  BY <1>3 DEF Authenticated
<1>4. CASE Refused(c)  BY <1>4 DEF Refused
<1>5. CASE Request(c)  BY <1>5 DEF Request
<1>6. CASE DialFails(c)  BY <1>6 DEF DialFails
<1>7. CASE DialOk(c)  BY <1>7 DEF DialOk
<1>8. CASE Reply(c)  BY <1>8 DEF Reply
<1>9. CASE WriteRequest(c)  BY <1>9 DEF WriteRequest
<1>10. CASE RelayReturns(c)  BY <1>10 DEF RelayReturns
<1>11. CASE StreamEnds(c)  BY <1>11 DEF StreamEnds
<1>12. CASE Hangup(c)  BY <1>12 DEF Hangup
<1>13. CASE DeadlinePasses(c)  BY <1>13 DEF DeadlinePasses
<1> QED
  BY <1>1, <1>2, <1>3, <1>4, <1>5, <1>6, <1>7, <1>8, <1>9, <1>10, <1>11, <1>12,
     <1>13 DEF Handle

\* SlotInv is inductive.
LEMMA SlotInductive == SlotInv /\ [Next]_vars => SlotInv'
<1> SUFFICES ASSUME SlotInv, [Next]_vars PROVE SlotInv'
  OBVIOUS
<1> USE ProxyAssumption DEF ProxyAssumption
<1>1. SlotsMatchHandlers <=> slots = Cardinality(Handlers)
  BY DEF SlotsMatchHandlers, Handlers
<1>2. SlotsMatchHandlers' <=> slots' = Cardinality(Handlers')
  BY DEF SlotsMatchHandlers, Handlers
<1>3. ASSUME NEW c \in Conns, NEW p \in {"new", "backlog", "accepted", "done"} \cup Holding,
             pc' = [pc EXCEPT ![c] = p],
             \/ (pc[c] \in Holding) = (p \in Holding) /\ slots' = slots
             \/ pc[c] \notin Holding /\ p \in Holding /\ slots' = slots + 1 /\ slots < MaxConns
             \/ pc[c] \in Holding /\ p \notin Holding /\ slots' = slots - 1
      PROVE  SlotInv'
  <2>1. pc' \in [Conns -> {"new", "backlog", "accepted", "done"} \cup Holding]
    BY <1>3 DEF SlotInv
  <2>2. Cardinality(Handlers') = slots'
    BY <1>1, <1>3, HandlersMove DEF SlotInv
  <2>3. slots' \in Nat
    <3>1. IsFiniteSet(Handlers')
      <4>1. Handlers' \subseteq Conns
        BY DEF Handlers
      <4> QED
        BY <4>1, FS_Subset
    <3> QED
      BY <2>2, <3>1, FS_CardinalityType
  <2>4. slots' <= MaxConns
    BY <1>3, <2>3 DEF SlotInv
  <2> QED
    BY <1>2, <2>1, <2>2, <2>3, <2>4 DEF SlotInv
<1>4. ASSUME pc' = pc, slots' = slots PROVE SlotInv'
  BY <1>4 DEF SlotInv, SlotsMatchHandlers
<1> USE DEF At, Goto, server, handler
<1>5. CASE Close
  <2>1. pc' \in [Conns -> {"new", "backlog", "accepted", "done"} \cup Holding]
    BY <1>5 DEF Close, SlotInv
  <2>2. Handlers' = Handlers
    BY <1>5 DEF Close, SlotInv, Handlers, Holding, Serving, Reading
  <2> QED
    BY <1>1, <1>2, <1>5, <2>1, <2>2 DEF Close, SlotInv
<1>6. CASE AcceptFails \/ BackoffEnds
  BY <1>4, <1>6 DEF AcceptFails, BackoffEnds
<1>7. ASSUME NEW c \in Conns, Connect(c) \/ Accept(c) \/ Reject(c) PROVE SlotInv'
  BY <1>3, <1>7 DEF Connect, Accept, Reject, Holding, Serving, Reading
<1>8. ASSUME NEW c \in Conns, Admit(c) PROVE SlotInv'
  BY <1>3, <1>8 DEF Admit, Holding, Serving, Reading
<1>9. ASSUME NEW c \in Conns, FreeSlot(c) PROVE SlotInv'
  BY <1>3, <1>9 DEF FreeSlot, Holding, Serving, Reading
<1>10. ASSUME NEW c \in Conns, Handle(c) \/ DeadlinePasses(c), ~FreeSlot(c) PROVE SlotInv'
  BY <1>3, <1>4, <1>10, HandlerHolds
<1>11. ASSUME NEW c \in Conns, NEW d \in Dirs, Copy(c, d) \/ Peer(c, d) PROVE SlotInv'
  BY <1>4, <1>11 DEF Copy, Peer, CopyChunk, CopyEnds, PeerWrites, PeerEnds, PeerDies
<1>12. CASE UNCHANGED vars
  BY <1>4, <1>12 DEF vars
<1> QED
  BY <1>5, <1>6, <1>7, <1>8, <1>9, <1>10, <1>11, <1>12 DEF Next

\* SlotInv holds throughout.
LEMMA SlotInvariance == Spec => []SlotInv
<1>1. Init => SlotInv
  <2> SUFFICES ASSUME Init PROVE SlotInv
    OBVIOUS
  <2>1. Handlers = {}
    BY DEF Init, Handlers, Holding, Serving, Reading
  <2>2. slots = Cardinality(Handlers)
    BY <2>1, FS_EmptySet DEF Init
  <2> QED
    BY <2>2, ProxyAssumption DEF ProxyAssumption, Init, SlotInv, SlotsMatchHandlers, Handlers
<1> QED
  BY <1>1, SlotInductive, PTL DEF Spec

\* For any number of clients and any capacity: the semaphore counts exactly the
\* connections whose handler has not finished, so at most MaxConns are served.
THEOREM SlotsAccounted == Spec => []SlotsMatchHandlers
<1>1. SlotInv => SlotsMatchHandlers
  BY DEF SlotInv
<1> QED
  BY <1>1, SlotInvariance, PTL

-----------------------------------------------------------------------------
(* Streams                                                                  *)

StreamTypes ==
  /\ pc \in [Conns -> {"new", "backlog", "accepted", "done"} \cup Holding]
  /\ timer \in [Conns -> BOOLEAN]
  /\ sent \in [Ends -> Nat] /\ held \in [Ends -> Nat] /\ got \in [Ends -> Nat]
  /\ eof \in [Ends -> BOOLEAN] /\ fin \in [Ends -> BOOLEAN] /\ gone \in [Ends -> BOOLEAN]
  /\ copy \in [Ends -> {"idle", "copying", "ended"}]

\* Phases of a handler after its request was read, and after its relay started.
Asked == {"dial", "reply", "write", "relay", "stream"}
Relayed == {"relay", "stream", "returned", "hungup"}

\* What EndFollowsData and ResponseComplete rest on: copiers run only inside a
\* relay or a forwarded response, after the deadline was cleared; one that has
\* ended between two live sockets has delivered its stream to the end.
EndInv(c, d) ==
  /\ fin[<<c, d>>] => copy[<<c, d>>] = "ended"
  /\ copy[<<c, d>>] = "copying" => pc[c] \in {"relay", "stream"}
  /\ copy[<<c, d>>] # "idle" => pc[c] \in Relayed
  /\ pc[c] \in Asked => ~timer[c]
  /\ d = "down" => held[<<c, d>>] = 0
  /\ d = "up" /\ pc[c] = "stream" => copy[<<c, d>>] = "idle"
  /\ copy[<<c, d>>] = "ended" /\ Intact(c) => eof[<<c, d>>] /\ Delivered(c, d)

StreamInv == StreamTypes /\ \A c \in Conns, d \in Dirs : EndInv(c, d)

\* A step that changes nothing EndInv(c, d) speaks of preserves it.
LEMMA EndUntouched ==
  ASSUME NEW c, NEW d, EndInv(c, d), pc'[c] = pc[c], timer'[c] = timer[c],
         \A e \in Dirs : gone'[<<c, e>>] = gone[<<c, e>>],
         sent'[<<c, d>>] = sent[<<c, d>>], held'[<<c, d>>] = held[<<c, d>>],
         got'[<<c, d>>] = got[<<c, d>>], eof'[<<c, d>>] = eof[<<c, d>>],
         fin'[<<c, d>>] = fin[<<c, d>>], copy'[<<c, d>>] = copy[<<c, d>>]
  PROVE  EndInv(c, d)'
BY DEF EndInv, Intact, Delivered

\* A step that leaves the streams alone preserves EndInv when it stays clear of
\* the phases in which copiers run and of the deadline.
LEMMA MoveKeepsEnd ==
  ASSUME NEW c, NEW d, EndInv(c, d), UNCHANGED streams, copy[<<c, d>>] # "copying",
         pc[c] \in Relayed => pc'[c] \in Relayed, pc'[c] # "stream",
         pc'[c] \in Asked => ~timer'[c]
  PROVE  EndInv(c, d)'
BY DEF EndInv, Intact, Delivered, streams

\* Steps that move the handler of one client without touching its streams.
Moves(c) ==
  \/ Connect(c) \/ Accept(c) \/ Admit(c) \/ Reject(c) \/ Sniff(c) \/ Greeting(c)
  \/ Authenticated(c) \/ Refused(c) \/ DialFails(c) \/ DialOk(c) \/ RelayReturns(c)
  \/ Hangup(c)

LEMMA MovePreserves ==
  ASSUME StreamInv, NEW c \in Conns, Moves(c)
  PROVE  StreamInv'
<1> USE DEF At, Goto, Return, handler
<1> DEFINE Phases == {"new", "backlog", "accepted", "done"} \cup Holding
<1>1. PICK p \in Phases : pc' = [pc EXCEPT ![c] = p]
  BY DEF Moves, Connect, Accept, Admit, Reject, Sniff, Greeting, Authenticated, Refused,
     DialFails, DialOk, RelayReturns, Hangup, Holding, Serving, Reading
<1>2. PICK t \in BOOLEAN : timer' = [timer EXCEPT ![c] = t]
  <2>1. timer' = timer \/ timer' = [timer EXCEPT ![c] = TRUE]
    BY DEF Moves, Connect, Accept, Admit, Reject, Sniff, Greeting, Authenticated, Refused,
       DialFails, DialOk, RelayReturns, Hangup
  <2>2. timer = [timer EXCEPT ![c] = timer[c]] /\ timer[c] \in BOOLEAN
    BY DEF StreamInv, StreamTypes
  <2> QED
    BY <2>1, <2>2
<1>3. UNCHANGED streams
  BY DEF Moves, Connect, Accept, Admit, Reject, Sniff, Greeting, Authenticated, Refused,
     DialFails, DialOk, RelayReturns, Hangup
<1>4. StreamTypes'
  BY <1>1, <1>2, <1>3 DEF StreamInv, StreamTypes, streams
<1>5. ASSUME NEW x \in Conns, NEW d \in Dirs, x # c PROVE EndInv(x, d)'
  <2>1. EndInv(x, d) /\ pc'[x] = pc[x] /\ timer'[x] = timer[x]
    BY <1>1, <1>2, <1>5 DEF StreamInv, StreamTypes
  <2> QED
    BY <1>3, <2>1, EndUntouched DEF streams
<1>6. ASSUME NEW d \in Dirs PROVE EndInv(c, d)'
  <2>1. pc'[c] = p /\ timer'[c] = t
    BY <1>1, <1>2 DEF StreamInv, StreamTypes
  <2>2. EndInv(c, d) /\ (\A e \in Dirs : EndInv(c, e))
    BY <1>6 DEF StreamInv
  <2>3. copy[<<c, d>>] # "copying"
    BY <2>2 DEF EndInv, Moves, Connect, Accept, Admit, Reject, Sniff, Greeting,
       Authenticated, Refused, DialFails, DialOk, RelayReturns, Hangup, Reading
  <2>4. pc[c] \in Relayed => pc'[c] \in Relayed
    BY <1>1, <2>1 DEF StreamInv, StreamTypes, Moves, Connect, Accept, Admit, Reject, Sniff,
       Greeting, Authenticated, Refused, DialFails, DialOk, RelayReturns, Hangup,
       Reading, Relayed
  <2>5. pc'[c] \in Asked => ~timer'[c]
    <3> SUFFICES ASSUME pc'[c] \in Asked PROVE ~timer'[c]
      OBVIOUS
    <3>1. At(c, "dial") /\ timer' = timer
      BY <2>1, <1>1 DEF StreamInv, StreamTypes, Moves, Connect, Accept, Admit, Reject, Sniff,
         Greeting, Authenticated, Refused, DialFails, DialOk, RelayReturns, Hangup,
         Asked
    <3> QED
      BY <2>2, <3>1 DEF EndInv, Asked
  <2>6. pc'[c] # "stream"
    BY <1>1, <2>1 DEF StreamInv, StreamTypes, Moves, Connect, Accept, Admit, Reject, Sniff,
       Greeting, Authenticated, Refused, DialFails, DialOk, RelayReturns, Hangup
  <2> QED
    BY <1>3, <2>2, <2>3, <2>4, <2>5, <2>6, MoveKeepsEnd
<1> QED
  BY <1>4, <1>5, <1>6 DEF StreamInv

\* A handler that is gone leaves two fresh streams.
LEMMA FreeSlotPreserves ==
  ASSUME StreamInv, NEW c \in Conns, FreeSlot(c)
  PROVE  StreamInv'
<1>1. /\ pc' = [pc EXCEPT ![c] = "done"] /\ timer' = [timer EXCEPT ![c] = FALSE]
      /\ sent' = Both(sent, c, 0) /\ held' = Both(held, c, 0) /\ got' = Both(got, c, 0)
      /\ eof' = Both(eof, c, FALSE) /\ fin' = Both(fin, c, FALSE)
      /\ copy' = Both(copy, c, "idle") /\ gone' = Both(gone, c, FALSE)
  BY DEF FreeSlot, Goto
<1>2. StreamTypes'
  <2>1. /\ pc' \in [Conns -> {"new", "backlog", "accepted", "done"} \cup Holding]
        /\ timer' \in [Conns -> BOOLEAN]
    BY <1>1 DEF StreamInv, StreamTypes
  <2>2. /\ sent' \in [Ends -> Nat] /\ held' \in [Ends -> Nat] /\ got' \in [Ends -> Nat]
        /\ copy' \in [Ends -> {"idle", "copying", "ended"}]
    BY <1>1 DEF StreamInv, StreamTypes, Both
  <2>3. eof' \in [Ends -> BOOLEAN] /\ fin' \in [Ends -> BOOLEAN] /\ gone' \in [Ends -> BOOLEAN]
    BY <1>1 DEF StreamInv, StreamTypes, Both
  <2> QED
    BY <2>1, <2>2, <2>3 DEF StreamTypes
<1>3. ASSUME NEW x \in Conns, NEW d \in Dirs PROVE EndInv(x, d)'
  <2>1. EndInv(x, d) /\ \A e \in Dirs : <<x, e>> \in Ends /\ <<x, e>>[1] = x
    BY <1>3 DEF StreamInv, Ends
  <2>2. CASE x = c
    <3>1. pc'[x] = "done" /\ copy'[<<x, d>>] = "idle" /\ held'[<<x, d>>] = 0 /\ ~fin'[<<x, d>>]
      BY <1>1, <1>3, <2>1, <2>2 DEF StreamInv, StreamTypes, Both
    <3> QED
      BY <3>1 DEF EndInv, Asked
  <2>3. CASE x # c
    <3>1. pc'[x] = pc[x] /\ timer'[x] = timer[x]
      BY <1>1, <2>3 DEF StreamInv, StreamTypes
    <3>2. /\ sent'[<<x, d>>] = sent[<<x, d>>] /\ held'[<<x, d>>] = held[<<x, d>>]
          /\ got'[<<x, d>>] = got[<<x, d>>] /\ eof'[<<x, d>>] = eof[<<x, d>>]
          /\ fin'[<<x, d>>] = fin[<<x, d>>] /\ copy'[<<x, d>>] = copy[<<x, d>>]
          /\ \A e \in Dirs : gone'[<<x, e>>] = gone[<<x, e>>]
      BY <1>1, <1>3, <2>1, <2>3 DEF Both
    <3> QED
      BY <2>1, <3>1, <3>2, EndUntouched
  <2> QED
    BY <2>2, <2>3
<1> QED
  BY <1>2, <1>3 DEF StreamInv

\* Close moves every connection that waits in the backlog.
LEMMA ClosePreserves ==
  ASSUME StreamInv, Close
  PROVE  StreamInv'
<1>1. pc' = [c \in Conns |-> IF pc[c] = "backlog" THEN "done" ELSE pc[c]] /\ timer' = timer
  BY DEF Close, At
<1>2. UNCHANGED streams
  BY DEF Close
<1>3. StreamTypes'
  BY <1>1, <1>2 DEF StreamInv, StreamTypes, streams
<1>4. ASSUME NEW x \in Conns, NEW d \in Dirs PROVE EndInv(x, d)'
  <2>1. EndInv(x, d)
    BY <1>4 DEF StreamInv
  <2> QED
    BY <1>1, <1>2, <2>1 DEF EndInv, Intact, Delivered, streams, Asked, Relayed
<1> QED
  BY <1>3, <1>4 DEF StreamInv

\* The deadline only ever fires in a handler that is still reading its request.
LEMMA DeadlinePreserves ==
  ASSUME StreamInv, NEW c \in Conns, DeadlinePasses(c)
  PROVE  StreamInv'
<1>1. /\ pc[c] \in Reading /\ pc' = [pc EXCEPT ![c] = "returned"]
      /\ timer' = [timer EXCEPT ![c] = FALSE] /\ UNCHANGED streams
  <2>1. <<c, "up">> \in Ends /\ EndInv(c, "up")
    BY DEF StreamInv, Dirs, Ends
  <2>2. copy[<<c, "up">>] # "copying"
    BY <2>1 DEF DeadlinePasses, EndInv, Asked
  <2> QED
    BY <2>2 DEF DeadlinePasses, streams, Goto
<1>2. StreamTypes'
  BY <1>1 DEF StreamInv, StreamTypes, streams, Holding, Serving
<1>3. ASSUME NEW x \in Conns, NEW d \in Dirs PROVE EndInv(x, d)'
  <2>1. EndInv(x, d)
    BY <1>3 DEF StreamInv
  <2>2. CASE x = c
    BY <1>1, <2>1, <2>2 DEF EndInv, Intact, Delivered, streams, Asked, Relayed, Reading,
       StreamInv, StreamTypes
  <2>3. CASE x # c
    BY <1>1, <2>1, <2>3, EndUntouched DEF streams, StreamInv, StreamTypes
  <2> QED
    BY <2>2, <2>3
<1> QED
  BY <1>2, <1>3 DEF StreamInv

\* Reading the request resets nothing that a relay has touched: no copier of
\* this connection has started.
LEMMA RequestPreserves ==
  ASSUME StreamInv, NEW c \in Conns, Request(c)
  PROVE  StreamInv'
<1>1. PICK n \in 0 .. MaxChunks :
        /\ sent' = [sent EXCEPT ![<<c, "up">>] = n]
        /\ held' = [held EXCEPT ![<<c, "up">>] = n]
  BY DEF Request
<1>2. /\ pc[c] = "request" /\ pc' = [pc EXCEPT ![c] = "dial"]
      /\ timer' = [timer EXCEPT ![c] = FALSE] /\ UNCHANGED <<got, eof, fin, copy, gone>>
  BY DEF Request, At, Goto
<1>3. n \in Nat
  BY ProxyAssumption DEF ProxyAssumption
<1>4. StreamTypes'
  BY <1>1, <1>2, <1>3 DEF StreamInv, StreamTypes, Ends, Holding, Serving
<1>5. ASSUME NEW x \in Conns, NEW d \in Dirs PROVE EndInv(x, d)'
  <2>1. EndInv(x, d) /\ <<x, d>> \in Ends
    BY <1>5 DEF StreamInv, Ends
  <2>2. CASE x = c
    <3>1. pc'[c] = "dial" /\ ~timer'[c]
      BY <1>2 DEF StreamInv, StreamTypes
    <3>2. copy[<<x, d>>] = "idle" /\ ~fin[<<x, d>>]
      BY <1>2, <2>1, <2>2 DEF EndInv, Relayed, StreamInv, StreamTypes
    <3>3. d = "down" => held'[<<x, d>>] = 0
      BY <1>1, <2>1 DEF EndInv, StreamInv, StreamTypes
    <3> QED
      BY <1>2, <2>2, <3>1, <3>2, <3>3 DEF EndInv, Asked, Relayed
  <2>3. CASE x # c
    <3>1. /\ pc'[x] = pc[x] /\ timer'[x] = timer[x]
          /\ sent'[<<x, d>>] = sent[<<x, d>>] /\ held'[<<x, d>>] = held[<<x, d>>]
      BY <1>1, <1>2, <2>1, <2>3 DEF StreamInv, StreamTypes
    <3>2. got' = got /\ eof' = eof /\ fin' = fin /\ copy' = copy /\ gone' = gone
      BY <1>2
    <3> QED
      BY <2>1, <3>1, <3>2, EndUntouched
  <2> QED
    BY <2>2, <2>3
<1> QED
  BY <1>4, <1>5 DEF StreamInv

\* A relay starts with both copiers fresh.
LEMMA ReplyPreserves ==
  ASSUME StreamInv, NEW c \in Conns, Reply(c)
  PROVE  StreamInv'
<1>1. pc[c] = "reply" /\ UNCHANGED <<timer, sent, held, got, eof, fin, gone>>
  BY DEF Reply, At
<1>2. \/ pc' = [pc EXCEPT ![c] = "returned"] /\ copy' = copy
      \/ /\ pc' = [pc EXCEPT ![c] = "relay"]
         /\ copy' = [e \in Ends |-> IF e[1] = c THEN "copying" ELSE copy[e]]
  BY DEF Reply, Goto, Both
<1>3. StreamTypes'
  BY <1>1, <1>2 DEF StreamInv, StreamTypes, Holding, Serving
<1>4. ASSUME NEW x \in Conns, NEW d \in Dirs PROVE EndInv(x, d)'
  <2>1. EndInv(x, d) /\ <<x, d>> \in Ends /\ <<x, d>>[1] = x
    BY <1>4 DEF StreamInv, Ends
  <2>2. CASE x = c
    <3>1. copy[<<x, d>>] = "idle" /\ ~fin[<<x, d>>] /\ ~timer[c]
      BY <1>1, <2>1, <2>2 DEF EndInv, Relayed, Asked, StreamInv, StreamTypes
    <3>2. \/ pc'[c] = "returned" /\ copy'[<<x, d>>] = "idle"
          \/ pc'[c] = "relay" /\ copy'[<<x, d>>] = "copying"
      BY <1>2, <2>1, <2>2, <3>1 DEF StreamInv, StreamTypes
    <3> QED
      BY <1>1, <2>1, <2>2, <3>1, <3>2 DEF EndInv, Relayed
  <2>3. CASE x # c
    BY <1>1, <1>2, <2>1, <2>3, EndUntouched DEF StreamInv, StreamTypes
  <2> QED
    BY <2>2, <2>3
<1> QED
  BY <1>3, <1>4 DEF StreamInv

\* A forwarded request takes its body out of the bufio.Reader.
LEMMA WriteRequestPreserves ==
  ASSUME StreamInv, NEW c \in Conns, WriteRequest(c)
  PROVE  StreamInv'
<1> DEFINE Up == <<c, "up">>
           Down == <<c, "down">>
<1>1. pc[c] = "write" /\ UNCHANGED <<timer, sent, eof, fin, gone>>
  BY DEF WriteRequest, At
<1>2. \/ pc' = [pc EXCEPT ![c] = "returned"] /\ UNCHANGED <<held, got, copy>>
      \/ /\ pc' = [pc EXCEPT ![c] = "stream"]
         /\ copy' = [copy EXCEPT ![Down] = "copying"]
         /\ held' = [held EXCEPT ![Up] = 0]
         /\ got' = [got EXCEPT ![Up] = sent[Up]]
  BY DEF WriteRequest, Goto
<1>3. Up \in Ends /\ Down \in Ends /\ Up # Down
  BY DEF Ends, Dirs
<1>4. StreamTypes'
  <2>1. sent[Up] \in Nat
    BY <1>3 DEF StreamInv, StreamTypes
  <2>2. /\ held' \in [Ends -> Nat] /\ got' \in [Ends -> Nat]
        /\ copy' \in [Ends -> {"idle", "copying", "ended"}]
    <3>1. /\ held \in [Ends -> Nat] /\ got \in [Ends -> Nat]
          /\ copy \in [Ends -> {"idle", "copying", "ended"}]
      BY DEF StreamInv, StreamTypes
    <3> HIDE DEF Up, Down
    <3> QED
      BY <1>2, <1>3, <2>1, <3>1
  <2> HIDE DEF Up, Down
  <2> QED
    BY <1>1, <1>2, <2>2 DEF StreamInv, StreamTypes, Holding, Serving
<1>5. ASSUME NEW x \in Conns, NEW d \in Dirs PROVE EndInv(x, d)'
  <2>1. EndInv(x, d) /\ <<x, d>> \in Ends
    BY <1>5 DEF StreamInv, Ends
  <2>2. CASE x = c
    <3>1. copy[<<x, d>>] = "idle" /\ ~fin[<<x, d>>] /\ ~timer[c]
      BY <1>1, <2>1, <2>2 DEF EndInv, Relayed, Asked, StreamInv, StreamTypes
    <3>2. \/ pc'[c] = "returned" /\ copy'[<<x, d>>] = "idle"
          \/ /\ pc'[c] = "stream"
             /\ copy'[<<x, d>>] = IF d = "down" THEN "copying" ELSE "idle"
      BY <1>2, <1>3, <2>1, <2>2, <3>1 DEF StreamInv, StreamTypes
    <3>3. d = "down" => held'[<<x, d>>] = 0
      BY <1>2, <2>1, <2>2, <1>3 DEF EndInv, StreamInv, StreamTypes
    <3> QED
      BY <1>1, <2>1, <2>2, <3>1, <3>2, <3>3 DEF EndInv, Relayed
  <2>3. CASE x # c
    BY <1>1, <1>2, <2>1, <2>3, EndUntouched DEF StreamInv, StreamTypes
  <2> QED
    BY <2>2, <2>3
<1> QED
  BY <1>4, <1>5 DEF StreamInv

\* io.Copy delivers a chunk.
LEMMA CopyChunkPreserves ==
  ASSUME StreamInv, NEW c \in Conns, NEW e \in Dirs, CopyChunk(c, e)
  PROVE  StreamInv'
<1> DEFINE End == <<c, e>>
<1>1. /\ copy[End] = "copying" /\ got' = [got EXCEPT ![End] = got[End] + 1]
      /\ UNCHANGED <<pc, timer, sent, held, eof, fin, copy, gone>>
  BY DEF CopyChunk, handler
<1>2. End \in Ends
  BY DEF Ends
<1> HIDE DEF End
<1>3. StreamTypes'
  BY <1>1, <1>2 DEF StreamInv, StreamTypes
<1>4. ASSUME NEW x \in Conns, NEW d \in Dirs PROVE EndInv(x, d)'
  <2>1. EndInv(x, d) /\ <<x, d>> \in Ends
    BY <1>4 DEF StreamInv, Ends
  <2>2. CASE <<x, d>> = End
    BY <1>1, <2>1, <2>2 DEF EndInv, Intact, Delivered
  <2>3. CASE <<x, d>> # End
    <3>1. got'[<<x, d>>] = got[<<x, d>>]
      BY <1>1, <2>1, <2>3 DEF StreamInv, StreamTypes
    <3> QED
      BY <1>1, <2>1, <3>1 DEF EndInv, Intact, Delivered
  <2> QED
    BY <2>2, <2>3
<1> QED
  BY <1>3, <1>4 DEF StreamInv

\* A copier ends between two live sockets only at the end of its stream.
LEMMA CopyEndsPreserves ==
  ASSUME StreamInv, NEW c \in Conns, NEW e \in Dirs, CopyEnds(c, e)
  PROVE  StreamInv'
<1> DEFINE End == <<c, e>>
<1>1. /\ pc[c] = "relay" /\ CopyOver(c, e)
      /\ copy' = [copy EXCEPT ![End] = "ended"] /\ fin' = [fin EXCEPT ![End] = TRUE]
      /\ UNCHANGED <<pc, timer, sent, held, got, eof, gone>>
  BY DEF CopyEnds, handler, At
<1>2. End \in Ends
  BY DEF Ends
<1>3. Intact(c) => eof[End] /\ Delivered(c, e)
  BY <1>1 DEF CopyOver, Intact, Other, Dirs
<1>4. StreamTypes'
  BY <1>1, <1>2 DEF StreamInv, StreamTypes
<1>5. ASSUME NEW x \in Conns, NEW d \in Dirs PROVE EndInv(x, d)'
  <2>1. EndInv(x, d) /\ <<x, d>> \in Ends
    BY <1>5 DEF StreamInv, Ends
  <2>2. CASE x = c /\ d = e
    <3>1. copy'[<<x, d>>] = "ended" /\ (Intact(c)' <=> Intact(c))
      BY <1>1, <2>1, <2>2 DEF StreamInv, StreamTypes, Intact
    <3> QED
      BY <1>1, <1>3, <2>1, <2>2, <3>1 DEF EndInv, Delivered, Relayed
  <2>3. CASE ~(x = c /\ d = e)
    <3>1. copy'[<<x, d>>] = copy[<<x, d>>] /\ fin'[<<x, d>>] = fin[<<x, d>>]
      BY <1>1, <2>1, <2>3 DEF StreamInv, StreamTypes
    <3> QED
      BY <1>1, <2>1, <3>1 DEF EndInv, Intact, Delivered
  <2> QED
    BY <2>2, <2>3
<1> QED
  BY <1>4, <1>5 DEF StreamInv

\* A forwarded response ends between two live sockets only when it is complete.
LEMMA StreamEndsPreserves ==
  ASSUME StreamInv, NEW c \in Conns, StreamEnds(c)
  PROVE  StreamInv'
<1> DEFINE End == <<c, "down">>
<1>1. /\ pc[c] = "stream" /\ CopyOver(c, "down") /\ pc' = [pc EXCEPT ![c] = "returned"]
      /\ copy' = [copy EXCEPT ![End] = "ended"]
      /\ UNCHANGED <<timer, sent, held, got, eof, fin, gone>>
  BY DEF StreamEnds, At, Goto
<1>2. End \in Ends
  BY DEF Ends, Dirs
<1>3. Intact(c) => eof[End] /\ Delivered(c, "down")
  BY <1>1 DEF CopyOver, Intact, Other, Dirs
<1>4. StreamTypes'
  BY <1>1, <1>2 DEF StreamInv, StreamTypes, Holding, Serving
<1>5. ASSUME NEW x \in Conns, NEW d \in Dirs PROVE EndInv(x, d)'
  <2>1. EndInv(x, d) /\ <<x, d>> \in Ends
    BY <1>5 DEF StreamInv, Ends
  <2>2. CASE x = c /\ d = "down"
    <3>1. /\ copy'[<<x, d>>] = "ended" /\ (Intact(c)' <=> Intact(c))
          /\ pc'[c] = "returned"
      BY <1>1, <2>1, <2>2 DEF StreamInv, StreamTypes, Intact
    <3> QED
      BY <1>1, <1>3, <2>1, <2>2, <3>1 DEF EndInv, Delivered, Relayed, Asked
  <2>3. CASE x = c /\ d = "up"
    <3>1. copy'[<<x, d>>] = copy[<<x, d>>] /\ pc'[c] = "returned"
      BY <1>1, <2>1, <2>3 DEF StreamInv, StreamTypes
    <3> QED
      BY <1>1, <2>1, <2>3, <3>1 DEF EndInv, Intact, Delivered, Relayed, Asked
  <2>4. CASE x # c
    <3>1. copy'[<<x, d>>] = copy[<<x, d>>] /\ pc'[x] = pc[x]
      BY <1>1, <2>1, <2>4 DEF StreamInv, StreamTypes
    <3>2. Delivered(x, d)' <=> Delivered(x, d)
      BY <1>1 DEF Delivered
    <3>3. Intact(x)' <=> Intact(x)
      BY <1>1 DEF Intact
    <3> QED
      BY <1>1, <2>1, <3>1, <3>2, <3>3 DEF EndInv, Asked, Relayed
  <2> QED
    BY <2>2, <2>3, <2>4 DEF Dirs
<1> QED
  BY <1>4, <1>5 DEF StreamInv

\* A peer writes, ends or dies: a finished stream does not grow, because its
\* source had closed its writing side.
LEMMA PeerPreserves ==
  ASSUME StreamInv, NEW c \in Conns, NEW e \in Dirs, Peer(c, e)
  PROVE  StreamInv'
<1> DEFINE End == <<c, e>>
<1>1. /\ UNCHANGED <<pc, timer, held, got, fin, copy>> /\ ~gone[End]
      /\ \/ ~eof[End] /\ sent' = [sent EXCEPT ![End] = sent[End] + 1] /\ UNCHANGED <<eof, gone>>
         \/ eof' = [eof EXCEPT ![End] = TRUE] /\ UNCHANGED <<sent, gone>>
         \/ gone' = [gone EXCEPT ![End] = TRUE] /\ UNCHANGED <<sent, eof>>
  BY DEF Peer, PeerWrites, PeerEnds, PeerDies, handler
<1>2. End \in Ends
  BY DEF Ends
<1>3. StreamTypes'
  <2>1. sent[End] \in Nat
    BY <1>2 DEF StreamInv, StreamTypes
  <2> HIDE DEF End
  <2>2. PICK n \in Nat : sent' = sent \/ sent' = [sent EXCEPT ![End] = n]
    BY <1>1, <2>1
  <2>3. sent' \in [Ends -> Nat]
    BY <1>2, <2>2 DEF StreamInv, StreamTypes
  <2>4. eof' \in [Ends -> BOOLEAN]
    BY <1>1, <1>2, Zenon DEF StreamInv, StreamTypes
  <2>5. gone' \in [Ends -> BOOLEAN]
    BY <1>1, <1>2, Zenon DEF StreamInv, StreamTypes
  <2> QED
    BY <1>1, <2>3, <2>4, <2>5 DEF StreamInv, StreamTypes
<1>4. ASSUME NEW x \in Conns, NEW d \in Dirs PROVE EndInv(x, d)'
  <2>1. EndInv(x, d) /\ <<x, d>> \in Ends
    BY <1>4 DEF StreamInv, Ends
  <2>2. Intact(x)' => Intact(x)
    <3>1. \A y \in Ends : gone[y] => gone'[y]
      BY <1>1 DEF StreamInv, StreamTypes
    <3> QED
      BY <3>1 DEF Intact, Ends
  <2>3. eof[<<x, d>>] => eof'[<<x, d>>]
    BY <1>1, <2>1 DEF StreamInv, StreamTypes
  <2>4. eof[<<x, d>>] => sent'[<<x, d>>] = sent[<<x, d>>]
    BY <1>1, <2>1 DEF StreamInv, StreamTypes
  <2> HIDE DEF End
  <2> QED
    BY <1>1, <2>1, <2>2, <2>3, <2>4 DEF EndInv, Delivered
<1> QED
  BY <1>3, <1>4 DEF StreamInv

\* StreamInv holds throughout.
LEMMA StreamInvariance == Spec => []StreamInv
<1>1. Init => StreamInv
  BY DEF Init, StreamInv, StreamTypes, EndInv, Asked, Relayed, Ends
<1>2. StreamInv /\ [Next]_vars => StreamInv'
  <2> SUFFICES ASSUME StreamInv, [Next]_vars PROVE StreamInv'
    OBVIOUS
  <2>1. CASE UNCHANGED <<pc, timer, streams>>
    BY <2>1 DEF StreamInv, StreamTypes, EndInv, Intact, Delivered, streams
  <2>2. CASE AcceptFails \/ BackoffEnds \/ UNCHANGED vars
    BY <2>1, <2>2 DEF AcceptFails, BackoffEnds, vars, handler
  <2>3. ASSUME NEW c \in Conns, Handle(c) PROVE StreamInv'
    BY <2>3, MovePreserves, RequestPreserves, ReplyPreserves, WriteRequestPreserves,
       StreamEndsPreserves, FreeSlotPreserves DEF Handle, Moves
  <2>4. ASSUME NEW c \in Conns, Connect(c) \/ Accept(c) \/ Admit(c) \/ Reject(c)
        PROVE  StreamInv'
    BY <2>4, MovePreserves DEF Moves
  <2> QED
    BY <2>2, <2>3, <2>4, ClosePreserves, DeadlinePreserves, CopyChunkPreserves,
       CopyEndsPreserves, PeerPreserves DEF Next, Copy
<1> QED
  BY <1>1, <1>2, PTL DEF Spec

\* For any clients and any lengths: no end of the other direction and no
\* handshake deadline ever cuts a stream short, and a response that was copied
\* to its end is complete.
THEOREM StreamsComplete == Spec => [](EndFollowsData /\ ResponseComplete)
<1>1. StreamInv => EndFollowsData
  BY DEF StreamInv, EndInv, EndFollowsData
<1>2. StreamInv => ResponseComplete
  <2> SUFFICES ASSUME StreamInv, NEW c \in Conns, copy[<<c, "down">>] = "ended", Intact(c)
               PROVE  eof[<<c, "down">>] /\ got[<<c, "down">>] = sent[<<c, "down">>]
    BY DEF ResponseComplete
  <2>1. EndInv(c, "down") /\ got[<<c, "down">>] \in Nat
    BY DEF StreamInv, StreamTypes, Dirs, Ends
  <2> QED
    BY <2>1 DEF EndInv, Delivered
<1> QED
  BY <1>1, <1>2, StreamInvariance, PTL

-----------------------------------------------------------------------------
(* What NothingStuck rests on                                               *)

\* Whoever reads from a client that has not made its request has a deadline.
HandlersTimed == \A c \in Conns : pc[c] \in Reading => timer[c]

\* The accept loop never looks for a slot without a connection in its hands, and
\* Close is seen by Accept and by isClosed together.
LoopServed ==
  /\ loop = "admit" => \E c \in Conns : pc[c] = "accepted"
  /\ listening = ~closed

\* HandlersTimed is inductive, given the streams: a deadline that fires in a copier
\* would find the handler in its relay.
LEMMA TimedInductive == StreamInv /\ HandlersTimed /\ [Next]_vars => HandlersTimed'
<1> SUFFICES ASSUME StreamInv, HandlersTimed, [Next]_vars PROVE HandlersTimed'
  OBVIOUS
<1> USE DEF HandlersTimed, At, Goto, Reading
<1>0. /\ pc \in [Conns -> {"new", "backlog", "accepted", "done"} \cup Holding]
      /\ timer \in [Conns -> BOOLEAN]
  BY DEF StreamInv, StreamTypes
<1>1. CASE AcceptFails \/ BackoffEnds \/ UNCHANGED vars
  BY <1>1 DEF AcceptFails, BackoffEnds, vars, handler
<1>2. CASE Close  BY <1>0, <1>2 DEF Close
<1>3. ASSUME NEW c \in Conns, Connect(c) \/ Accept(c) \/ Admit(c) \/ Reject(c)
      PROVE  HandlersTimed'
  BY <1>0, <1>3 DEF Connect, Accept, Admit, Reject
<1>4. ASSUME NEW c \in Conns, DeadlinePasses(c) PROVE HandlersTimed'
  <2>1. EndInv(c, "up")
    BY DEF StreamInv, Dirs
  <2>2. pc[c] \in Reading => pc'[c] = "returned"
    BY <1>0, <1>4, <2>1 DEF DeadlinePasses, EndInv
  <2>3. pc[c] \notin Reading => pc' = pc
    BY <1>4 DEF DeadlinePasses
  <2>4. \A x \in Conns : x # c => pc'[x] = pc[x] /\ timer'[x] = timer[x]
    BY <1>0, <1>4 DEF DeadlinePasses
  <2> QED
    BY <1>0, <2>2, <2>3, <2>4
<1>5. ASSUME NEW c \in Conns, Handle(c) PROVE HandlersTimed'
  <2>1. CASE Sniff(c) \/ Greeting(c) \/ Authenticated(c)
    BY <1>0, <2>1 DEF Sniff, Greeting, Authenticated
  <2>2. CASE Refused(c) \/ Request(c) \/ DialFails(c) \/ FreeSlot(c) \/ Hangup(c)
    BY <1>0, <2>2 DEF Refused, Request, DialFails, FreeSlot, Hangup, Return
  <2>3. CASE DialOk(c) \/ Reply(c) \/ WriteRequest(c) \/ RelayReturns(c) \/ StreamEnds(c)
    BY <1>0, <2>3 DEF DialOk, Reply, WriteRequest, RelayReturns, StreamEnds
  <2> QED
    BY <1>5, <2>1, <2>2, <2>3 DEF Handle
<1>6. ASSUME NEW c \in Conns, NEW d \in Dirs, Copy(c, d) \/ Peer(c, d) PROVE HandlersTimed'
  BY <1>6 DEF Copy, Peer, CopyChunk, CopyEnds, PeerWrites, PeerEnds, PeerDies, handler
<1> QED
  BY <1>1, <1>2, <1>3, <1>4, <1>5, <1>6 DEF Next

\* LoopServed is inductive, given the phases.
LEMMA LoopInductive == SlotInv /\ LoopServed /\ [Next]_vars => LoopServed'
<1> SUFFICES ASSUME SlotInv, LoopServed, [Next]_vars PROVE LoopServed'
  OBVIOUS
<1> USE DEF LoopServed, At, Goto, server
<1>0. pc \in [Conns -> {"new", "backlog", "accepted", "done"} \cup Holding]
  BY DEF SlotInv
<1>1. ASSUME \A x \in Conns : pc[x] = "accepted" => pc'[x] = "accepted",
             UNCHANGED <<closed, listening, loop>>
      PROVE  LoopServed'
  BY <1>1
<1>2. CASE AcceptFails \/ BackoffEnds \/ UNCHANGED vars
  BY <1>2 DEF AcceptFails, BackoffEnds, vars, handler
<1>3. CASE Close  BY <1>0, <1>3 DEF Close
<1>4. ASSUME NEW c \in Conns, Accept(c) \/ Admit(c) \/ Reject(c) PROVE LoopServed'
  BY <1>0, <1>4 DEF Accept, Admit, Reject
<1>5. ASSUME NEW c \in Conns, Connect(c) PROVE LoopServed'
  BY <1>0, <1>1, <1>5 DEF Connect
<1>6. ASSUME NEW c \in Conns, Handle(c) \/ DeadlinePasses(c) PROVE LoopServed'
  <2>1. CASE FreeSlot(c)
    BY <1>0, <1>1, <2>1 DEF FreeSlot
  <2>2. CASE ~FreeSlot(c)
    <3>1. \/ pc' = pc
          \/ \E p \in Holding : pc[c] \in Holding /\ pc' = [pc EXCEPT ![c] = p]
      BY <1>6, <2>2, HandlerHolds
    <3>2. \A x \in Conns : pc[x] = "accepted" => pc'[x] = "accepted"
      BY <1>0, <3>1 DEF Holding, Serving, Reading
    <3>3. UNCHANGED <<closed, listening, loop>>
      BY <1>6, <2>2 DEF Handle, DeadlinePasses, Sniff, Greeting, Authenticated, Refused,
         Request, DialFails, DialOk, Reply, WriteRequest, RelayReturns, StreamEnds, Hangup,
         Return
    <3> QED
      BY <1>1, <3>2, <3>3
  <2> QED
    BY <2>1, <2>2
<1>7. ASSUME NEW c \in Conns, NEW d \in Dirs, Copy(c, d) \/ Peer(c, d) PROVE LoopServed'
  BY <1>1, <1>7 DEF Copy, Peer, CopyChunk, CopyEnds, PeerWrites, PeerEnds, PeerDies, handler
<1> QED
  BY <1>2, <1>3, <1>4, <1>5, <1>6, <1>7 DEF Next

\* For any clients: nobody waits for a silent client without a deadline, and the
\* accept loop never waits for what has already happened (handle, acceptLoop).
THEOREM NobodyUntimed == Spec => [](HandlersTimed /\ LoopServed)
<1>1. Init => HandlersTimed /\ LoopServed
  BY DEF Init, HandlersTimed, LoopServed, Reading
<1> QED
  BY <1>1, TimedInductive, LoopInductive, StreamInvariance, SlotInvariance, PTL DEF Spec

-----------------------------------------------------------------------------
(* Types                                                                    *)

\* What SlotInv and StreamInv leave out.
RestInv ==
  /\ closed \in BOOLEAN /\ listening \in BOOLEAN
  /\ loop \in {"accept", "admit", "backoff", "ended"}
  /\ kind \in [Conns -> {"none", "socks", "connect", "forward"}]
  /\ upstream \in [Conns -> {"none", "open", "closed", "dropped"}]
  /\ sent \in [Ends -> 0 .. MaxChunks] /\ held \in [Ends -> 0 .. MaxChunks]
  /\ got \in [Ends -> 0 .. MaxChunks]

LEMMA RestInductive == RestInv /\ StreamInv /\ [Next]_vars => RestInv'
<1> SUFFICES ASSUME RestInv, StreamInv, [Next]_vars PROVE RestInv'
  OBVIOUS
<1> USE ProxyAssumption DEF ProxyAssumption, RestInv, server, handler, streams
<1>1. CASE Close \/ AcceptFails \/ BackoffEnds \/ UNCHANGED vars
  <2>1. closed' \in BOOLEAN /\ listening' \in BOOLEAN
    BY <1>1, Zenon DEF Close, AcceptFails, BackoffEnds, vars
  <2> QED
    BY <1>1, <2>1 DEF Close, AcceptFails, BackoffEnds, vars
<1>2. ASSUME NEW c \in Conns, Connect(c) \/ Accept(c) \/ Admit(c) \/ Reject(c)
             \/ DeadlinePasses(c)
      PROVE  RestInv'
  BY <1>2 DEF Connect, Accept, Admit, Reject, DeadlinePasses
<1>3. ASSUME NEW c \in Conns, Handle(c) PROVE RestInv'
  <2>0. <<c, "up">> \in Ends /\ <<c, "down">> \in Ends
    BY DEF Ends, Dirs
  <2>1. CASE Sniff(c) \/ Greeting(c) \/ Authenticated(c) \/ Refused(c) \/ DialFails(c)
             \/ DialOk(c) \/ Reply(c) \/ RelayReturns(c) \/ StreamEnds(c) \/ Hangup(c)
    BY <2>1 DEF Sniff, Greeting, Authenticated, Refused, DialFails, DialOk, Reply,
                RelayReturns, StreamEnds, Hangup, Return
  <2>2. CASE Request(c)
    BY <2>0, <2>2 DEF Request
  <2>3. CASE WriteRequest(c)
    BY <2>0, <2>3 DEF WriteRequest
  <2>4. CASE FreeSlot(c)
    BY <2>4 DEF FreeSlot, Both
  <2> QED
    BY <1>3, <2>1, <2>2, <2>3, <2>4 DEF Handle
<1>4. ASSUME NEW c \in Conns, NEW d \in Dirs, Copy(c, d) \/ Peer(c, d) PROVE RestInv'
  <2>0. <<c, d>> \in Ends
    BY DEF Ends
  <2>1. CASE CopyChunk(c, d)
    <3>1. got[<<c, d>>] + 1 \in 0 .. MaxChunks
      BY <2>0, <2>1 DEF CopyChunk
    <3> QED
      BY <2>0, <2>1, <3>1 DEF CopyChunk
  <2>2. CASE PeerWrites(c, d)
    <3>1. sent[<<c, d>>] + 1 \in 0 .. MaxChunks
      BY <2>0, <2>2 DEF PeerWrites
    <3> QED
      BY <2>0, <2>2, <3>1 DEF PeerWrites
  <2>3. CASE CopyEnds(c, d) \/ PeerEnds(c, d) \/ PeerDies(c, d)
    BY <2>3 DEF CopyEnds, PeerEnds, PeerDies
  <2> QED
    BY <1>4, <2>1, <2>2, <2>3 DEF Copy, Peer
<1> QED
  BY <1>1, <1>2, <1>3, <1>4 DEF Next

\* The types of the server's state, for any clients and any lengths of the streams.
THEOREM Typing == Spec => []TypeOK
<1>1. Init => RestInv
  <2> SUFFICES ASSUME Init PROVE RestInv
    OBVIOUS
  <2>1. closed \in BOOLEAN /\ listening \in BOOLEAN
    BY Zenon DEF Init
  <2> QED
    BY <2>1, ProxyAssumption DEF Init, RestInv, ProxyAssumption
<1>2. RestInv /\ SlotInv /\ StreamInv => TypeOK
  <2> SUFFICES ASSUME RestInv, SlotInv, StreamInv PROVE TypeOK
    OBVIOUS
  <2>1. slots \in 0 .. MaxConns
    BY ProxyAssumption DEF SlotInv, ProxyAssumption
  <2> QED
    BY <2>1, Zenon DEF RestInv, StreamInv, StreamTypes, TypeOK
<1> QED
  BY <1>1, <1>2, RestInductive, SlotInvariance, StreamInvariance, PTL DEF Spec
=============================================================================
