------------------------------ MODULE ProxyServer ------------------------------
(***************************************************************************)
(* The HTTP + SOCKS5 listener (internal/proxy): the accept loop, the         *)
(* semaphore that bounds the handlers, one handler goroutine per connection  *)
(* with its handshake deadline, the dial, and the two copying goroutines of  *)
(* a relay.                                                                  *)
(*                                                                          *)
(* A byte stream is a number of chunks.  What a peer writes, when it closes  *)
(* its writing side and when its socket dies are choices of the environment; *)
(* the outcome of a dial is one too (Egress models what the dial does).      *)
(***************************************************************************)
EXTENDS Naturals, FiniteSets

CONSTANTS
  Conns,      \* client connections
  MaxConns,   \* capacity of Server.limit
  AuthOn,     \* whether a user or a password is configured
  MaxChunks   \* bound: chunks a peer writes to one connection

ASSUME ProxyAssumption ==
  /\ IsFiniteSet(Conns)
  /\ MaxConns \in Nat \ {0} /\ MaxChunks \in Nat
  /\ AuthOn \in BOOLEAN

VARIABLES
  closed,     \* Server.closed
  listening,  \* the listener is open
  loop,       \* acceptLoop: "accept", "admit", "backoff" or "ended"
  slots,      \* len(Server.limit)
  pc,         \* [Conns -> where the connection's handler stands]
  kind,       \* [Conns -> "socks", "connect" or "forward" once it is known]
  timer,      \* [Conns -> whether a read deadline is armed on the client]
  upstream,   \* [Conns -> "none", "open", "closed", or "dropped" unclosed]
  sent, held, got, eof, fin, copy, gone  \* streams, see below

(***************************************************************************)
(* Per connection and direction ("up": client to target): chunks written by  *)
(* the source, those of them left behind in the handler's bufio.Reader,      *)
(* chunks written to the destination, whether the source closed its writing  *)
(* side, whether the end of the stream was passed on, and the copier.        *)
(* gone[<<c, d>>]: the socket d reads from has died.                             *)
(***************************************************************************)
Dirs == {"up", "down"}
Other(d) == IF d = "up" THEN "down" ELSE "up"
Ends == Conns \X Dirs

server == <<closed, listening, loop, slots>>
handler == <<pc, kind, timer, upstream>>
streams == <<sent, held, got, eof, fin, copy, gone>>
vars == <<server, handler, streams>>

\* Handlers that block reading from the client, and those that hold a slot.
Reading == {"sniff", "greeting", "auth", "request"}
Serving == Reading \cup {"dial", "reply", "write", "relay", "stream", "returned"}
Holding == Serving \cup {"hungup"}

Init ==
  /\ closed = FALSE /\ listening = TRUE /\ loop = "accept" /\ slots = 0
  /\ pc = [c \in Conns |-> "new"] /\ kind = [c \in Conns |-> "none"]
  /\ timer = [c \in Conns |-> FALSE] /\ upstream = [c \in Conns |-> "none"]
  /\ sent = [e \in Ends |-> 0] /\ held = [e \in Ends |-> 0] /\ got = [e \in Ends |-> 0]
  /\ eof = [e \in Ends |-> FALSE] /\ fin = [e \in Ends |-> FALSE]
  /\ copy = [e \in Ends |-> "idle"] /\ gone = [e \in Ends |-> FALSE]

At(c, p) == pc[c] = p
Goto(c, p) == pc' = [pc EXCEPT ![c] = p]

\* f with the value v for both streams of c.
Both(f, c, v) == [e \in Ends |-> IF e[1] = c THEN v ELSE f[e]]

-----------------------------------------------------------------------------
(* The listener and the accept loop                                         *)

\* A client connects; the kernel queues it.
Connect(c) ==
  /\ At(c, "new") /\ listening /\ Goto(c, "backlog")
  /\ UNCHANGED <<server, kind, timer, upstream, streams>>

\* Close: both under s.mu, so isClosed sees them together.  The kernel
\* resets what it had queued.
Close ==
  /\ ~closed
  /\ closed' = TRUE /\ listening' = FALSE
  /\ pc' = [c \in Conns |-> IF At(c, "backlog") THEN "done" ELSE pc[c]]
  /\ UNCHANGED <<loop, slots, kind, timer, upstream, streams>>

Accept(c) ==
  /\ loop = "accept" /\ listening /\ At(c, "backlog")
  /\ loop' = "admit" /\ Goto(c, "accepted")
  /\ UNCHANGED <<closed, listening, slots, kind, timer, upstream, streams>>

\* Accept failed: the loop ends if the server was closed, and sleeps
\* otherwise (out of descriptors, an aborted connection).
AcceptFails ==
  /\ loop = "accept"
  /\ loop' = IF closed THEN "ended" ELSE "backoff"
  /\ UNCHANGED <<closed, listening, slots, handler, streams>>

BackoffEnds ==
  /\ loop = "backoff" /\ loop' = "accept"
  /\ UNCHANGED <<closed, listening, slots, handler, streams>>

\* Mutant: the handler starts without a read deadline.
Admit_NoDeadline(c) ==
  /\ loop = "admit" /\ At(c, "accepted") /\ slots < MaxConns
  /\ loop' = "accept" /\ slots' = slots + 1 /\ Goto(c, "sniff")
  /\ UNCHANGED <<closed, listening, kind, timer, upstream, streams>>

\* A slot was free: the handler starts and arms its 15 s deadline.
Admit(c) ==
  /\ loop = "admit" /\ At(c, "accepted") /\ slots < MaxConns
  /\ loop' = "accept" /\ slots' = slots + 1 /\ Goto(c, "sniff")
  /\ timer' = [timer EXCEPT ![c] = TRUE]
  /\ UNCHANGED <<closed, listening, kind, upstream, streams>>

\* The default branch of the select: the connection is closed.
Reject(c) ==
  /\ loop = "admit" /\ At(c, "accepted") /\ slots >= MaxConns
  /\ loop' = "accept" /\ Goto(c, "done")
  /\ UNCHANGED <<closed, listening, slots, kind, timer, upstream, streams>>

-----------------------------------------------------------------------------
(* Reading the request.  Any step of it may also end the handler: a short    *)
(* or malformed message, a method or command that is refused, wrong          *)
(* credentials.                                                              *)

Return(c) ==
  /\ Goto(c, "returned")
  /\ UNCHANGED <<server, kind, timer, upstream, streams>>

\* Peek(1): the first byte tells SOCKS5 from HTTP.
Sniff(c) ==
  /\ At(c, "sniff")
  /\ \/ Goto(c, "greeting") /\ kind' = [kind EXCEPT ![c] = "socks"]
     \/ /\ Goto(c, "request")
        /\ \E k \in {"connect", "forward"} : kind' = [kind EXCEPT ![c] = k]
  /\ UNCHANGED <<server, timer, upstream, streams>>

\* The method list of the SOCKS5 greeting, and socksAuth when it is on.
Greeting(c) ==
  /\ At(c, "greeting") /\ Goto(c, IF AuthOn THEN "auth" ELSE "request")
  /\ UNCHANGED <<server, kind, timer, upstream, streams>>

Authenticated(c) ==
  /\ At(c, "auth") /\ Goto(c, "request")
  /\ UNCHANGED <<server, kind, timer, upstream, streams>>

\* The read of the request fails or is answered with an error.
Refused(c) == pc[c] \in Reading /\ Return(c)

\* Mutant: the handshake deadline stays armed on the connection.
Request_KeepDeadline(c) ==
  /\ At(c, "request") /\ Goto(c, "dial")
  /\ \E n \in 0 .. MaxChunks :
       /\ sent' = [sent EXCEPT ![<<c, "up">>] = n]
       /\ held' = [held EXCEPT ![<<c, "up">>] = n]
  /\ UNCHANGED <<server, kind, timer, upstream, got, eof, fin, copy, gone>>

\* The request is complete and accepted: the deadline is cleared before the
\* dial.  What the client had written behind it is in the bufio.Reader.
Request(c) ==
  /\ At(c, "request") /\ Goto(c, "dial")
  /\ timer' = [timer EXCEPT ![c] = FALSE]
  /\ \E n \in 0 .. MaxChunks :
       /\ sent' = [sent EXCEPT ![<<c, "up">>] = n]
       /\ held' = [held EXCEPT ![<<c, "up">>] = n]
  /\ UNCHANGED <<server, kind, upstream, got, eof, fin, copy, gone>>

\* The read deadline passes: the read that is blocked on the client fails,
\* in the handler or in the copier.
DeadlinePasses(c) ==
  /\ timer[c] /\ timer' = [timer EXCEPT ![c] = FALSE]
  /\ \/ pc[c] \in Reading /\ Goto(c, "returned") /\ UNCHANGED <<fin, copy>>
     \/ /\ copy[<<c, "up">>] = "copying" /\ UNCHANGED pc
        /\ copy' = [copy EXCEPT ![<<c, "up">>] = "ended"]
        /\ fin' = [fin EXCEPT ![<<c, "up">>] = TRUE]
  /\ UNCHANGED <<server, kind, upstream, sent, held, got, eof, gone>>

-----------------------------------------------------------------------------
(* Dialing and relaying                                                     *)

DialFails(c) == At(c, "dial") /\ Return(c)

DialOk(c) ==
  /\ At(c, "dial") /\ Goto(c, IF kind[c] = "forward" THEN "write" ELSE "reply")
  /\ upstream' = [upstream EXCEPT ![c] = "open"]
  /\ UNCHANGED <<server, kind, timer, streams>>

\* The success reply.  Only SOCKS5 looks at the error of the write.
Reply(c) ==
  /\ At(c, "reply")
  /\ \/ /\ kind[c] = "socks" /\ gone[<<c, "up">>]
        /\ Goto(c, "returned") /\ upstream' = [upstream EXCEPT ![c] = "closed"]
        /\ UNCHANGED copy
     \/ /\ kind[c] = "connect" \/ ~gone[<<c, "up">>]
        /\ Goto(c, "relay") /\ UNCHANGED upstream
        /\ copy' = Both(copy, c, "copying")
  /\ UNCHANGED <<server, kind, timer, sent, held, got, eof, fin, gone>>

\* Forwarding: req.Write sends the request with its body, which it takes from
\* the bufio.Reader, and the response is copied back.
WriteRequest(c) ==
  /\ At(c, "write")
  /\ \/ /\ Goto(c, "stream") /\ ~gone[<<c, "down">>] /\ UNCHANGED upstream
        /\ copy' = [copy EXCEPT ![<<c, "down">>] = "copying"]
        /\ held' = [held EXCEPT ![<<c, "up">>] = 0]
        /\ got' = [got EXCEPT ![<<c, "up">>] = sent[<<c, "up">>]]
     \/ /\ gone[<<c, "up">>] \/ gone[<<c, "down">>]
        /\ Goto(c, "returned") /\ upstream' = [upstream EXCEPT ![c] = "closed"]
        /\ UNCHANGED <<held, got, copy>>
  /\ UNCHANGED <<server, kind, timer, sent, eof, fin, gone>>

\* Everything the source wrote is delivered, but for what was left behind.
Delivered(c, d) == got[<<c, d>>] + held[<<c, d>>] = sent[<<c, d>>]

\* One iteration of io.Copy.
CopyChunk(c, d) ==
  /\ copy[<<c, d>>] = "copying" /\ ~gone[<<c, Other(d)>>]
  /\ got[<<c, d>>] + held[<<c, d>>] < sent[<<c, d>>]
  /\ got' = [got EXCEPT ![<<c, d>>] = @ + 1]
  /\ UNCHANGED <<server, handler, sent, held, eof, fin, copy, gone>>

\* io.Copy returns: at the end of the source, on an error of the source or on
\* an error of the destination.
CopyOver(c, d) ==
  \/ eof[<<c, d>>] /\ Delivered(c, d)
  \/ gone[<<c, d>>]
  \/ gone[<<c, Other(d)>>] /\ got[<<c, d>>] + held[<<c, d>>] < sent[<<c, d>>]

\* copyDir ends with CloseWrite on its destination.
CopyEnds(c, d) ==
  /\ At(c, "relay") /\ copy[<<c, d>>] = "copying" /\ CopyOver(c, d)
  /\ copy' = [copy EXCEPT ![<<c, d>>] = "ended"]
  /\ fin' = [fin EXCEPT ![<<c, d>>] = TRUE]
  /\ UNCHANGED <<server, handler, sent, held, got, eof, gone>>

\* relay returns when both copiers have; nobody closes the upstream.
RelayReturns(c) ==
  /\ At(c, "relay") /\ \A d \in Dirs : copy[<<c, d>>] = "ended"
  /\ Goto(c, "returned") /\ upstream' = [upstream EXCEPT ![c] = "dropped"]
  /\ UNCHANGED <<server, kind, timer, streams>>

\* Mutant: a client that closes its writing side ends the response.
StreamEnds_ClientEof(c) ==
  /\ At(c, "stream") /\ (CopyOver(c, "down") \/ eof[<<c, "up">>])
  /\ Goto(c, "returned") /\ upstream' = [upstream EXCEPT ![c] = "closed"]
  /\ copy' = [copy EXCEPT ![<<c, "down">>] = "ended"]
  /\ UNCHANGED <<server, kind, timer, sent, held, got, eof, fin, gone>>

\* A forwarded response has ended; the upstream is closed by a defer.
StreamEnds(c) ==
  /\ At(c, "stream") /\ CopyOver(c, "down")
  /\ Goto(c, "returned") /\ upstream' = [upstream EXCEPT ![c] = "closed"]
  /\ copy' = [copy EXCEPT ![<<c, "down">>] = "ended"]
  /\ UNCHANGED <<server, kind, timer, sent, held, got, eof, fin, gone>>

\* Mutant: the slot is given back before the connection is closed.
Hangup_FreeSlot(c) ==
  /\ At(c, "returned") /\ Goto(c, "hungup") /\ slots' = slots - 1
  /\ UNCHANGED <<closed, listening, loop, kind, timer, upstream, streams>>

\* The deferred conn.Close, and then the deferred receive from s.limit.
Hangup(c) ==
  /\ At(c, "returned") /\ Goto(c, "hungup")
  /\ UNCHANGED <<server, kind, timer, upstream, streams>>

\* The handler is gone, and with it what it knew of its streams.
FreeSlot(c) ==
  /\ At(c, "hungup") /\ Goto(c, "done") /\ slots' = slots - 1
  /\ kind' = [kind EXCEPT ![c] = "none"] /\ timer' = [timer EXCEPT ![c] = FALSE]
  /\ sent' = Both(sent, c, 0) /\ held' = Both(held, c, 0) /\ got' = Both(got, c, 0)
  /\ eof' = Both(eof, c, FALSE) /\ fin' = Both(fin, c, FALSE)
  /\ copy' = Both(copy, c, "idle") /\ gone' = Both(gone, c, FALSE)
  /\ UNCHANGED <<closed, listening, loop, upstream>>

-----------------------------------------------------------------------------
(* The peers                                                                *)

\* The client has a socket from the accept on, the target from the dial on.
Attached(c, d) ==
  pc[c] \in Serving /\ (d = "down" => upstream[c] \in {"open", "dropped"})

\* What a client writes before its request is read is chosen by Request.
PeerWrites(c, d) ==
  /\ Attached(c, d) /\ pc[c] \in {"dial", "reply", "relay", "stream"}
  /\ ~eof[<<c, d>>] /\ ~gone[<<c, d>>]
  /\ kind[c] # "forward" \/ d = "down"
  /\ sent[<<c, d>>] < MaxChunks /\ sent' = [sent EXCEPT ![<<c, d>>] = @ + 1]
  /\ UNCHANGED <<server, handler, held, got, eof, fin, copy, gone>>

PeerEnds(c, d) ==
  /\ Attached(c, d) /\ pc[c] \in {"dial", "reply", "write", "relay", "stream"}
  /\ ~eof[<<c, d>>] /\ ~gone[<<c, d>>]
  /\ eof' = [eof EXCEPT ![<<c, d>>] = TRUE]
  /\ UNCHANGED <<server, handler, sent, held, got, fin, copy, gone>>

\* A peer closes its socket, resets it or vanishes; keep-alives tell.
PeerDies(c, d) ==
  /\ Attached(c, d) /\ ~gone[<<c, d>>]
  /\ gone' = [gone EXCEPT ![<<c, d>>] = TRUE]
  /\ UNCHANGED <<server, handler, sent, held, got, eof, fin, copy>>

Handle(c) ==
  \/ Sniff(c) \/ Greeting(c) \/ Authenticated(c) \/ Refused(c) \/ Request(c)
  \/ DialFails(c) \/ DialOk(c) \/ Reply(c) \/ WriteRequest(c)
  \/ RelayReturns(c) \/ StreamEnds(c) \/ Hangup(c) \/ FreeSlot(c)

Copy(c, d) == CopyChunk(c, d) \/ CopyEnds(c, d)
Peer(c, d) == PeerWrites(c, d) \/ PeerEnds(c, d) \/ PeerDies(c, d)

Next ==
  \/ Close \/ AcceptFails \/ BackoffEnds
  \/ \E c \in Conns :
       \/ Connect(c) \/ Accept(c) \/ Admit(c) \/ Reject(c)
       \/ DeadlinePasses(c) \/ Handle(c)
       \/ \E d \in Dirs : Copy(c, d) \/ Peer(c, d)

Spec == Init /\ [][Next]_vars

\* Steps that do not wait for a peer: the accept loop once it has a
\* connection or is closed, timers, dials (bounded by 25 s), and goroutines
\* whose data are there.
Prompt(c) ==
  \/ DeadlinePasses(c) \/ DialFails(c) \/ DialOk(c) \/ Reply(c)
  \/ RelayReturns(c) \/ StreamEnds(c) \/ Hangup(c) \/ FreeSlot(c)

FairSpec ==
  /\ Spec
  /\ WF_vars(BackoffEnds) /\ WF_vars(~listening /\ AcceptFails)
  /\ \A c \in Conns :
       /\ WF_vars(Admit(c) \/ Reject(c)) /\ WF_vars(Prompt(c))
       /\ \A d \in Dirs : WF_vars(Copy(c, d))

-----------------------------------------------------------------------------
TypeOK ==
  /\ closed \in BOOLEAN /\ listening \in BOOLEAN
  /\ loop \in {"accept", "admit", "backoff", "ended"} /\ slots \in 0 .. MaxConns
  /\ pc \in [Conns -> {"new", "backlog", "accepted", "done"} \cup Holding]
  /\ kind \in [Conns -> {"none", "socks", "connect", "forward"}]
  /\ timer \in [Conns -> BOOLEAN]
  /\ upstream \in [Conns -> {"none", "open", "closed", "dropped"}]
  /\ sent \in [Ends -> 0 .. MaxChunks] /\ held \in [Ends -> 0 .. MaxChunks]
  /\ got \in [Ends -> 0 .. MaxChunks]
  /\ eof \in [Ends -> BOOLEAN] /\ fin \in [Ends -> BOOLEAN] /\ gone \in [Ends -> BOOLEAN]
  /\ copy \in [Ends -> {"idle", "copying", "ended"}]

Intact(c) == \A d \in Dirs : ~gone[<<c, d>>]

\* A slot is held exactly by the connections between their admission and the
\* release, so that no more than MaxConns clients are connected to handlers
\* whatever path a handler leaves by (acceptLoop, handle).
SlotsMatchHandlers == slots = Cardinality({c \in Conns : pc[c] \in Holding})

\* A relay passes the end of a stream on only after all of that stream: while
\* neither socket died, the source had closed its writing side and every chunk
\* not left in the bufio.Reader was delivered; an end of the other direction,
\* or a handshake deadline, never cuts it (relay, SetReadDeadline).
EndFollowsData ==
  \A c \in Conns, d \in Dirs :
    fin[<<c, d>>] /\ Intact(c) => eof[<<c, d>>] /\ Delivered(c, d)

\* When a handler is done with a relay that nobody aborted, everything the
\* target wrote has reached the client, though the client may have closed its
\* writing side long before (relay, handleHTTP, handle).
ResponseComplete ==
  \A c \in Conns :
    At(c, "hungup") /\ copy[<<c, "down">>] = "ended" /\ Intact(c)
      => eof[<<c, "down">>] /\ got[<<c, "down">>] = sent[<<c, "down">>]

\* A client that stops in the middle of its handshake does not keep its slot
\* (handle), and after Close the accept loop ends, wherever it waits (acceptLoop).
NothingStuck ==
  /\ \A c \in Conns : pc[c] \in Reading ~> pc[c] \notin Reading
  /\ ~listening ~> loop = "ended"
=============================================================================
