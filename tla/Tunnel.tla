--------------------------------- MODULE Tunnel ---------------------------------
(***************************************************************************)
(* One openvpn process under internal/tunnel: the child itself, the scanner  *)
(* that classifies its output, the goroutine that reaps it, and the owner    *)
(* that starts it, waits for the handshake, listens, and stops it.           *)
(*                                                                          *)
(* The owner is manager.connectAndVerify/monitor, or verifyBlacklistedNode,  *)
(* which never listens and cancels instead.  The two output pipes are one    *)
(* stream here; a line is what classify makes of it.                         *)
(***************************************************************************)
EXTENDS Naturals, Sequences

CONSTANTS
  EventCap,  \* capacity of Tunnel.events (128 in the code)
  PipeCap,   \* bound: lines written and not scanned yet
  MaxLines   \* bound: lines the process writes

ASSUME TunnelAssumption ==
  EventCap \in Nat \ {0} /\ PipeCap \in Nat /\ MaxLines \in Nat

\* EventAuthFail, EventTunFail and EventFatal end WaitHandshake alike: "failure".
Lines == {"handshake", "failure", "log"}
Events == Lines \cup {"exit"}

VARIABLES
  proc,        \* "none", "alive", "term" and "kill" (signalled), "exited", "reaped"
  written,     \* lines written so far
  pipe,        \* lines in the output pipes
  handshakeCh, \* whether handshakeCh (capacity 1) holds a token
  events,      \* Tunnel.events
  reaper,      \* the wait goroutine: "none", "wait", "emit", "close", "done"
  owner,       \* the goroutine that uses the tunnel
  announced    \* history: a handshake line has been classified

output == <<written, pipe>>
channels == <<handshakeCh, events>>
tunnelVars == <<proc, output, channels, reaper, owner, announced>>

TunnelInit ==
  /\ proc = "none" /\ written = 0 /\ pipe = <<>>
  /\ handshakeCh = FALSE /\ events = <<>>
  /\ reaper = "none" /\ owner = "start" /\ announced = FALSE

\* A non-blocking send: dropped when the consumer is slow.
Send(e) == events' = IF Len(events) < EventCap THEN Append(events, e) ELSE events

Running == proc \in {"alive", "term", "kill"}

-----------------------------------------------------------------------------
(* The process (external)                                                   *)

WriteLine ==
  /\ Running /\ written < MaxLines /\ Len(pipe) < PipeCap
  /\ written' = written + 1
  /\ \E l \in Lines : pipe' = Append(pipe, l)
  /\ UNCHANGED <<proc, channels, reaper, owner, announced>>

\* It exits by itself, or on SIGTERM, unless it hangs.
ProcExits ==
  /\ proc \in {"alive", "term"}
  /\ proc' = "exited"
  /\ UNCHANGED <<output, channels, reaper, owner, announced>>

\* SIGKILL cannot be ignored.
ProcDies ==
  /\ proc = "kill"
  /\ proc' = "exited"
  /\ UNCHANGED <<output, channels, reaper, owner, announced>>

-----------------------------------------------------------------------------
(* The scanner and the reaper                                               *)

\* Mutant: a handshake whose event finds the queue full is dropped altogether.
Scan_DropHandshake ==
  /\ pipe # <<>>
  /\ pipe' = Tail(pipe)
  /\ announced' = (announced \/ Head(pipe) = "handshake")
  /\ handshakeCh' = (handshakeCh \/ (Head(pipe) = "handshake" /\ Len(events) < EventCap))
  /\ Send(Head(pipe))
  /\ UNCHANGED <<proc, written, reaper, owner>>

\* classify and emit: a handshake fills handshakeCh, then every event is queued.
Scan ==
  /\ pipe # <<>>
  /\ pipe' = Tail(pipe)
  /\ announced' = (announced \/ Head(pipe) = "handshake")
  /\ handshakeCh' = (handshakeCh \/ Head(pipe) = "handshake")
  /\ Send(Head(pipe))
  /\ UNCHANGED <<proc, written, reaper, owner>>

\* cmd.Wait reaps the process and closes the pipes: lines the scanner has not
\* buffered yet are lost.
Reap ==
  /\ reaper = "wait" /\ proc = "exited"
  /\ proc' = "reaped" /\ reaper' = "emit"
  /\ \E n \in 0..Len(pipe) : pipe' = SubSeq(pipe, 1, n)
  /\ UNCHANGED <<written, channels, owner, announced>>

EmitExit ==
  /\ reaper = "emit"
  /\ Send("exit")
  /\ reaper' = "close"
  /\ UNCHANGED <<proc, output, handshakeCh, owner, announced>>

\* close(exitCh).
CloseExit ==
  /\ reaper = "close"
  /\ reaper' = "done"
  /\ UNCHANGED <<proc, output, channels, owner, announced>>

-----------------------------------------------------------------------------
(* The owner                                                                *)

\* Start: a process with its goroutines, or an error.
Start ==
  /\ owner = "start"
  /\ \/ proc' = "alive" /\ reaper' = "wait" /\ owner' = "handshake"
     \/ owner' = "stop" /\ UNCHANGED <<proc, reaper>>
  /\ UNCHANGED <<output, channels, announced>>

\* WaitHandshakeContext: the token wins, ...
TakeHandshake ==
  /\ owner = "handshake" /\ handshakeCh
  /\ handshakeCh' = FALSE
  /\ owner' = "settle"
  /\ UNCHANGED <<proc, output, events, reaper, announced>>

\* ... or an event, of which a failure or the exit is an error, ...
TakeEvent ==
  /\ owner = "handshake" /\ events # <<>>
  /\ events' = Tail(events)
  /\ owner' = IF Head(events) \in {"failure", "exit"} THEN "stop" ELSE "handshake"
  /\ UNCHANGED <<proc, output, handshakeCh, reaper, announced>>

\* ... or the timer, or ctx.
HandshakeTimeout ==
  /\ owner = "handshake"
  /\ owner' = "stop"
  /\ UNCHANGED <<proc, output, channels, reaper, announced>>

\* Settling and probing: nobody listens, until monitor does.
StartMonitor ==
  /\ owner = "settle"
  /\ owner' = "monitor"
  /\ UNCHANGED <<proc, output, channels, reaper, announced>>

\* monitor drains the events and leaves at the exit.
MonitorEvent ==
  /\ owner = "monitor" /\ events # <<>>
  /\ events' = Tail(events)
  /\ owner' = IF Head(events) = "exit" THEN "stop" ELSE "monitor"
  /\ UNCHANGED <<proc, output, handshakeCh, reaper, announced>>

\* Probes fail, the route changes, ctx is cancelled, the verification is over.
GiveUp ==
  /\ owner \in {"settle", "monitor"}
  /\ owner' = "stop"
  /\ UNCHANGED <<proc, output, channels, reaper, announced>>

\* Stop: SIGTERM to the process group of the command, if there is one, ...
StopTerm ==
  /\ owner = "stop"
  /\ IF reaper = "none"
       THEN owner' = "stopped" /\ UNCHANGED proc
       ELSE /\ owner' = "grace"
            /\ proc' = IF proc = "alive" THEN "term" ELSE proc
  /\ UNCHANGED <<output, channels, reaper, announced>>

\* Mutant: no SIGKILL after the grace period, just the wait.
StopKill_Polite ==
  /\ owner = "grace"
  /\ owner' = "reap"
  /\ UNCHANGED <<proc, output, channels, reaper, announced>>

\* ... SIGKILL after five seconds, ...
StopKill ==
  /\ owner = "grace"
  /\ proc' = IF Running THEN "kill" ELSE proc
  /\ owner' = "reap"
  /\ UNCHANGED <<output, channels, reaper, announced>>

\* ... and return when exitCh is closed.
StopReturn ==
  /\ owner \in {"grace", "reap"} /\ reaper = "done"
  /\ owner' = "stopped"
  /\ UNCHANGED <<proc, output, channels, reaper, announced>>

-----------------------------------------------------------------------------

Process == WriteLine \/ ProcExits \/ ProcDies
Goroutines == Scan \/ Reap \/ EmitExit \/ CloseExit
Owner ==
  \/ Start \/ TakeHandshake \/ TakeEvent \/ HandshakeTimeout \/ StartMonitor
  \/ MonitorEvent \/ GiveUp \/ StopTerm \/ StopKill \/ StopReturn

\* tunnel.New for the next node, whose pipes, channels and goroutines are new, or
\* for the first node after the whole process was killed.
Renew ==
  /\ proc' = "none" /\ written' = 0 /\ pipe' = <<>>
  /\ handshakeCh' = FALSE /\ events' = <<>>
  /\ reaper' = "none" /\ owner' = "start" /\ announced' = FALSE

TunnelNext == Process \/ Goroutines \/ Owner \/ Renew

TunnelSpec == TunnelInit /\ [][TunnelNext]_tunnelVars

-----------------------------------------------------------------------------
(* Properties                                                               *)

\* Types; the goroutine that reaps exists exactly as long as there was a process.
TunnelTypeOK ==
  /\ proc \in {"none", "alive", "term", "kill", "exited", "reaped"}
  /\ written \in 0..MaxLines /\ pipe \in Seq(Lines)
  /\ handshakeCh \in BOOLEAN /\ announced \in BOOLEAN
  /\ events \in Seq(Events) /\ Len(events) <= EventCap
  /\ reaper \in {"none", "wait", "emit", "close", "done"}
  /\ owner \in {"start", "handshake", "settle", "monitor", "stop", "grace", "reap", "stopped"}
  /\ reaper = "none" <=> proc = "none"

\* Stop "waits for the process to be reaped": when it has returned there is no
\* process left, signalled or zombie (tunnel.go:204-226).
StoppedIsReaped == owner = "stopped" => proc \in {"none", "reaped"}

\* A handshake the scanner has seen is there for WaitHandshake, however full the
\* event queue is and however the process ends (tunnel.go:307-321, 185).
HandshakeNotLost == announced /\ owner = "handshake" => handshakeCh

=============================================================================
