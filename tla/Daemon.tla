--------------------------------- MODULE Daemon ---------------------------------
(***************************************************************************)
(* One life of the program after another (cmd/conduitvpn/main.go): the       *)
(* configuration is validated, the hysteria2 inbound, the proxy, the console *)
(* and the upstream of node fetching are started, Manager.Run blocks, and    *)
(* the deferred calls undo the start.  os.Exit undoes nothing.               *)
(*                                                                          *)
(* Runner is the sing-box of hysteria2 if that is configured, else the one   *)
(* of the upstream; with both, the second is only its outcome.  A container  *)
(* ends with the program; on a host its processes run on.                    *)
(***************************************************************************)
EXTENDS Runner, Integers, Sequences

CONSTANTS
  Configs,        \* configurations the program may be started with
  Subscriptions   \* what a subscription may contain: "node" and "noise"

\* The proxy is on loopback, or has no, a short, or a proper password; the console's
\* password (ui) is not configured, short or proper.
Configurations ==
  [mode : {"container", "host", "demo"}, wellFormed : BOOLEAN,
   proxy : {"local", "open", "weak", "strong"}, hy2 : {"off", "weak", "strong"},
   ui : {"none", "weak", "strong"},
   sources : SUBSET {"uri", "subscription", "config"}, legacy : BOOLEAN, index : Int]

ASSUME DaemonAssumption ==
  Configs \subseteq Configurations /\ Subscriptions \subseteq Seq({"node", "noise"})

VARIABLES
  cfg,       \* the configuration of this life
  main,      \* where main stands
  code,      \* the exit code
  signal,    \* SIGINT or SIGTERM cancelled the context
  proxyUp,   \* the proxy's listener
  consoleUp, \* the console's listener
  stored,    \* the password in ui_auth.json: none, short or proper
  fetch      \* the upstream proxy of node fetching, and how it was chosen

listeners == <<proxyUp, consoleUp>>
vars == <<runnerVars, cfg, main, code, signal, listeners, stored, fetch>>

Fetch(v, s, c, p) == [via |-> v, source |-> s, content |-> c, pos |-> p]
Undecided == Fetch("none", "none", <<>>, 0)

\* hy2.Start takes StartRunnerUDP, upstream.Start takes StartRunner.
HasHY2(c) == c.mode = "container" /\ c.hy2 # "off"

Init ==
  /\ RunnerInit /\ ~orphan
  /\ cfg \in Configs /\ udp = HasHY2(cfg)
  /\ main = "validate" /\ code = 0 /\ signal = FALSE
  /\ proxyUp = FALSE /\ consoleUp = FALSE /\ fetch = Undecided
  /\ stored \in {"none", "weak", "strong"}

-----------------------------------------------------------------------------
(* main                                                                     *)

\* The process ends: listeners are closed, goroutines are gone.
End(c) ==
  /\ main' = "exited" /\ code' = c
  /\ proxyUp' = FALSE /\ consoleUp' = FALSE
  /\ IF cfg.mode = "container" THEN AllDie ELSE UNCHANGED runnerVars
  /\ UNCHANGED <<cfg, signal, fetch>>

Exit(c) == End(c) /\ UNCHANGED stored

Go(place) == main' = place /\ UNCHANGED <<runnerVars, cfg, code, signal>>
Pass(place) == Go(place) /\ UNCHANGED <<listeners, stored, fetch>>

\* Config.Validate.
Valid(c) ==
  /\ c.wellFormed
  /\ c.mode = "host" => c.hy2 = "off"
  /\ c.proxy \in {"local", "strong"}
  /\ c.hy2 # "weak"

Validate ==
  /\ main = "validate"
  /\ IF Valid(cfg) THEN Pass("prepare") ELSE Exit(2)

\* In demo mode an unset password is "demo".
Password(c) == IF c.mode = "demo" /\ c.ui = "none" THEN "weak" ELSE c.ui

\* Mutant: what is stored takes precedence over what is configured.
Login_StoredWins(c) ==
  IF stored # "none" THEN stored
  ELSE IF Password(c) = "weak" /\ c.mode # "demo" THEN "none"
  ELSE Password(c)

\* EnsureAuthConfigured: the password to store, or none: an error.  A configured one
\* is checked and taken, a stored one of any length is kept, or migrated.
Login(c) ==
  IF Password(c) = "none" THEN stored
  ELSE IF Password(c) = "weak" /\ c.mode # "demo" THEN "none"
  ELSE Password(c)

\* Data directory, login and openvpn; netfix.Apply only warns.  What fails may fail
\* before or after the login is saved.
Prepare ==
  /\ main = "prepare"
  /\ \/ /\ Login(cfg) # "none" /\ stored' = Login(cfg)
        /\ Go(IF cfg.mode = "demo" THEN "console" ELSE IF HasHY2(cfg) THEN "hy2" ELSE "proxy")
        /\ UNCHANGED <<listeners, fetch>>
     \/ stored' \in {stored} \cup ({Login(cfg)} \ {"none"}) /\ End(1)

\* hy2.Start, or upstream.Start with a resolved outbound, starts a sing-box.
StartsRunner ==
  /\ main \in {"hy2", "upstream"} /\ Start
  /\ UNCHANGED <<cfg, main, code, signal, listeners, stored, fetch>>

HY2Started ==
  /\ main = "hy2"
  /\ \/ owner = "up" /\ Pass("proxy")
     \/ owner = "failed" /\ Exit(1)

StartProxy ==
  /\ main = "proxy"
  /\ \/ Go("console") /\ proxyUp' = TRUE /\ UNCHANGED <<consoleUp, stored, fetch>>
     \/ Exit(1)

\* webui.New: where SecretPath cannot read the login it saves one without a password.
StartConsole ==
  /\ main = "console" /\ stored' \in {stored, "none"}
  /\ \/ /\ Go(IF cfg.mode = "demo" THEN "demo" ELSE "resolve")
        /\ consoleUp' = TRUE /\ UNCHANGED <<proxyUp, fetch>>
     \/ End(1)

-----------------------------------------------------------------------------
(* Manager.Run, of which Supervisor models the loop                         *)

Preferred(s) == IF "uri" \in s THEN "uri"
                ELSE IF "subscription" \in s THEN "subscription" ELSE "config"

\* parseSubscription and filterNodeOutbounds collect the positions of the nodes,
\* entry by entry; pickNode counts them, from the end if the index is negative.
\* Position 0: out of range.
Kept(content) ==
  LET kept[i \in 0 .. Len(content)] ==
        IF i = 0 THEN <<>>
        ELSE IF content[i] = "node" THEN Append(kept[i - 1], i) ELSE kept[i - 1]
  IN  kept

Nodes(content) == Kept(content)[Len(content)]

PickNode(content, index) ==
  LET k == (IF index < 0 THEN index + Len(Nodes(content)) ELSE index) + 1
  IN  IF k \in DOMAIN Nodes(content) THEN Nodes(content)[k] ELSE 0

\* The outbound of the first configured source, or the legacy proxy, or none.
ResolveUpstream ==
  /\ main = "resolve"
  /\ \/ /\ cfg.sources = {}
        /\ fetch' = Fetch(IF cfg.legacy THEN "legacy" ELSE "direct", "none", <<>>, 0)
        /\ Go("run")
     \/ /\ cfg.sources # {}
        /\ fetch' = fetch /\ Go("runFailed")
     \/ /\ cfg.sources # {} /\ Preferred(cfg.sources) # "subscription"
        /\ fetch' = Fetch("singbox", Preferred(cfg.sources), <<>>, 1)
        /\ Go("upstream")
     \/ /\ cfg.sources # {} /\ Preferred(cfg.sources) = "subscription"
        /\ \E content \in Subscriptions :
             /\ PickNode(content, cfg.index) # 0
             /\ fetch' = Fetch("singbox", "subscription", content, PickNode(content, cfg.index))
        /\ Go("upstream")
  /\ UNCHANGED <<listeners, stored>>

\* Mutant: without its sing-box the fetch goes ahead directly.
UpstreamStarted_Direct ==
  /\ main = "upstream"
  /\ \/ HasHY2(cfg) /\ main' \in {"run", "runFailed"} /\ UNCHANGED fetch
     \/ ~HasHY2(cfg) /\ owner = "up" /\ main' = "run" /\ UNCHANGED fetch
     \/ ~HasHY2(cfg) /\ owner = "failed" /\ main' = "run"
        /\ fetch' = Fetch("direct", "none", <<>>, 0)
  /\ UNCHANGED <<runnerVars, cfg, code, signal, listeners, stored>>

\* The sing-box of the upstream is up, or Run returns its error.
UpstreamStarted ==
  /\ main = "upstream"
  /\ \/ HasHY2(cfg) /\ main' \in {"run", "runFailed"}
     \/ ~HasHY2(cfg) /\ owner = "up" /\ main' = "run"
     \/ ~HasHY2(cfg) /\ owner = "failed" /\ main' = "runFailed"
  /\ UNCHANGED <<runnerVars, cfg, code, signal, listeners, stored, fetch>>

\* An error of Run ends the program, unless a signal had come.
RunFailed ==
  /\ main = "runFailed"
  /\ IF signal THEN Pass("unwind") ELSE Exit(1)

\* Mutant: Run does not defer rt.Stop.
RunReturns_NoStop == main = "run" /\ Pass("unwind")

\* Run returns nil, cancelled or, by a refresh met in wait, not.
RunReturns ==
  /\ main = "run"
  /\ Pass(IF owner = "up" /\ ~udp THEN "stopUpstream" ELSE "unwind")

DemoEnds == main = "demo" /\ signal /\ Pass("unwind")

-----------------------------------------------------------------------------
(* The deferred calls, last first                                           *)

\* Runtime.Stop in Run, hy2Runner.Stop in main.
CallStop ==
  /\ main \in {"stopUpstream", "stopHY2"} /\ (Stop \/ StopRunner)
  /\ UNCHANGED <<cfg, main, code, signal, listeners, stored, fetch>>

UpstreamStopped == main = "stopUpstream" /\ owner = "stopped" /\ Pass("unwind")

CloseConsole ==
  /\ main = "unwind" /\ consoleUp' = FALSE
  /\ Go("closeProxy") /\ UNCHANGED <<proxyUp, stored, fetch>>

CloseProxy ==
  /\ main = "closeProxy" /\ proxyUp' = FALSE
  /\ Go(IF HasHY2(cfg) THEN "stopHY2" ELSE "done")
  /\ UNCHANGED <<consoleUp, stored, fetch>>

Return ==
  /\ \/ main = "done"
     \/ main = "stopHY2" /\ owner = "stopped"
  /\ Exit(0)

-----------------------------------------------------------------------------
(* Beside main                                                              *)

\* The runner's own goroutine, and r.Stop after a failed start.
Background ==
  /\ main # "exited"
  /\ \/ Watch
     \/ owner \notin {"stop", "stopRead", "stopKill", "stopWait"} /\ StopRunner
  /\ UNCHANGED <<cfg, main, code, signal, listeners, stored, fetch>>

\* signal.NotifyContext: the runner's context is derived from this one.
Signaled ==
  /\ main \notin {"validate", "exited"} /\ ~signal /\ signal' = TRUE
  /\ IF ctx THEN UNCHANGED runnerVars ELSE Signal
  /\ UNCHANGED <<cfg, main, code, listeners, stored, fetch>>

SingBoxExits ==
  /\ OrphanExits \/ (\E p \in Procs : ProcExits(p))
  /\ UNCHANGED <<cfg, main, code, signal, listeners, stored, fetch>>

\* SIGKILL, a crash, or a signal before NotifyContext.
Kill == main # "exited" /\ Exit(137)

\* The program is started again, perhaps configured anew.
Restart ==
  /\ main = "exited"
  /\ Renew /\ cfg' \in Configs /\ udp' = HasHY2(cfg')
  /\ "container" \in {cfg.mode, cfg'.mode} => ~orphan'
  /\ main' = "validate" /\ code' = 0 /\ signal' = FALSE
  /\ proxyUp' = FALSE /\ consoleUp' = FALSE /\ fetch' = Undecided
  /\ UNCHANGED stored

Starting == Validate \/ Prepare \/ StartsRunner \/ HY2Started \/ StartProxy \/ StartConsole
Running == ResolveUpstream \/ UpstreamStarted \/ RunFailed \/ RunReturns \/ DemoEnds
Ending == CallStop \/ UpstreamStopped \/ CloseConsole \/ CloseProxy \/ Return

Next == Starting \/ Running \/ Ending \/ Background \/ Signaled \/ SingBoxExits \/ Kill \/ Restart

Spec == Init /\ [][Next]_vars

\* Goroutines run, a killed process dies, a cancelled Run returns.  Nothing makes
\* sing-box exit, a signal arrive or an uncancelled Run return.
FairSpec ==
  /\ Spec
  /\ WF_vars(Starting) /\ WF_vars(ResolveUpstream \/ UpstreamStarted \/ RunFailed)
  /\ WF_vars(signal /\ RunReturns) /\ WF_vars(DemoEnds) /\ WF_vars(Ending)
  /\ WF_vars(Background)
  /\ \A p \in Procs : WF_vars(p \in killed /\ ProcExits(p) /\ SingBoxExits)

-----------------------------------------------------------------------------
(* Properties                                                               *)

Places == {"validate", "prepare", "hy2", "proxy", "console", "resolve", "upstream", "run",
           "runFailed", "demo", "stopUpstream", "unwind", "closeProxy", "stopHY2", "done",
           "exited"}

\* Types; a position is one of the subscription's.
TypeOK ==
  /\ RunnerTypeOK
  /\ cfg \in Configs /\ main \in Places /\ code \in {0, 1, 2, 137}
  /\ signal \in BOOLEAN /\ proxyUp \in BOOLEAN /\ consoleUp \in BOOLEAN
  /\ stored \in {"none", "weak", "strong"}

\* What guards each listener, in any life and after any history of the data directory.
\* A proxy beyond loopback has a proper password, a running hysteria2 inbound as well
\* (Validate, config.go:170).  Outside demo mode the console never runs with a short
\* password configured, and a proper one that is configured takes the place of a
\* short one from an earlier life (EnsureAuthConfigured).  Not excluded, since the
\* code allows it: a short password in demo mode, and a short one that was stored
\* earlier where none is configured.
ServesGuarded ==
  /\ proxyUp => cfg.proxy \in {"local", "strong"}
  /\ udp /\ up # {} => cfg.hy2 = "strong"
  /\ consoleUp /\ cfg.mode # "demo" =>
       /\ cfg.ui # "weak"
       /\ cfg.ui = "strong" => stored # "weak"

\* The upstream that Run goes on with is the one configured: the first configured
\* source, and of a subscription the node that has "index" nodes before it, or
\* -index - 1 after it; a configured source never gives way to the legacy proxy or to
\* a direct fetch (upstream.go:20-29).  Not said: that the sing-box which answers
\* there is the one that was started (Alive, orphan).
ResolvesAsConfigured ==
  main = "run" =>
    IF cfg.sources = {}
    THEN fetch.via = IF cfg.legacy THEN "legacy" ELSE "direct"
    ELSE /\ fetch.via = "singbox"
         /\ fetch.source \in cfg.sources
         /\ "uri" \in cfg.sources => fetch.source = "uri"
         /\ fetch.source = "config" => cfg.sources = {"config"}
         /\ fetch.source = "subscription" =>
              LET at(S) == Cardinality({i \in S : fetch.content[i] = "node"})
              IN  /\ fetch.content[fetch.pos] = "node"
                  /\ cfg.index >= 0 => at(1 .. (fetch.pos - 1)) = cfg.index
                  /\ cfg.index < 0 =>
                       at((fetch.pos + 1) .. Len(fetch.content)) = -cfg.index - 1

\* However the program ends by itself, it leaves no sing-box on the host, but for the
\* one that watch started after Stop had read the command: also where os.Exit skips
\* the deferred calls (main.go:107-147).
EndsClean ==
  main = "exited" /\ code # 137 /\ cfg.mode # "container" =>
    /\ \A p \in up : p > target /\ owner = "stopped"
    /\ code # 0 => up = {}

\* A signal ends the program wherever its start or Run stands: no start, no Stop and
\* no wait on sing-box holds it up for ever (main.go:56).
SignalHeeded == signal ~> main = "exited"

\* Stop returns although watch waits for the same process.
StopReturns ==
  /\ owner = "stop" ~> owner = "stopped" \/ main = "exited"
  /\ owner = "undo" ~> owner = "failed" \/ main = "exited"

\* After an exit that nobody asked for watch tries again: sing-box is spawned
\* once more unless the runner is cancelled or a spawn fails, which ends watch.
ExitIsNoticed ==
  owner = "up" /\ up = {} ~>
    \/ up # {} \/ ctx \/ owner # "up"
    \/ spawned = MaxSpawns \/ watch.step = "failed" \/ main = "exited"
=============================================================================
