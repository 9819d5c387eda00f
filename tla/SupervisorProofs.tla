--------------------------- MODULE SupervisorProofs ---------------------------
(***************************************************************************)
(* Proofs about Supervisor, for any nodes, routes, pools and numbers of      *)
(* handlers, in both network modes: types, the egress and tunnel invariants, *)
(* no lost route change, the blacklist on disk, and the refinement of        *)
(* NodeService.  Each invariant is made inductive by a named strengthening.  *)
(***************************************************************************)
EXTENDS Supervisor, TLAPS

\* Every variable keeps its type, and connectLoop has a node wherever it needs one.
THEOREM Typing == Spec => []TypeOK
<1> USE ConstantsAssumption DEF ConstantsAssumption
<1>1. Init => TypeOK
  <2> SUFFICES ASSUME Init PROVE TypeOK
    OBVIOUS
  <2>1. FlagsOK
    BY Zenon DEF Init, FlagsOK
  <2>2. QED
    BY <2>1 DEF Init, TypeOK, Routes, AllRoutes, LoadedRoutes, LoadedBlacklists, NoCall, Working, Attempting, Leaving
<1>2. TypeOK /\ [Next]_vars => TypeOK'
  <2> SUFFICES ASSUME TypeOK, [Next]_vars PROVE TypeOK'
    OBVIOUS
  <2> USE DEF TypeOK, Others, Goto, GiveUp, Attempting, Leaving, Working,
          loopVars, tunVars, listVars, routeVars, refreshVars, procVars
  <2>1. CASE RunStart  BY <2>1 DEF RunStart, FlagsOK
  <2>2. CASE LoopHead
    <3>1. FlagsOK'
      BY <2>2, Zenon DEF LoopHead, FlagsOK
    <3>2. QED
      BY <2>2, <3>1 DEF LoopHead
  <2>3. CASE FetchDone  BY <2>3 DEF FetchDone, FlagsOK
  <2>4. CASE Select  BY <2>4 DEF Select, FlagsOK, Candidates, Earliest, Members
  <2>5. CASE WaitElapsed  BY <2>5 DEF WaitElapsed, FlagsOK
  <2>6. CASE WaitAborted
    <3>1. FlagsOK'
      BY <2>6, Zenon DEF WaitAborted, FlagsOK
    <3>2. QED
      BY <2>6, <3>1 DEF WaitAborted
  <2>7. CASE LoopExhausted  BY <2>7 DEF LoopExhausted, FlagsOK
  <2>8. CASE TakeCandidate  BY <2>8 DEF TakeCandidate, FlagsOK, Earliest
  <2>9. CASE AskFixed  BY <2>9 DEF AskFixed, FlagsOK
  <2>10. CASE Mark  BY <2>10 DEF Mark, FlagsOK
  <2>11. CASE StartTunnel
    <3>1. FlagsOK'
      BY <2>11, Zenon DEF StartTunnel, FlagsOK
    <3>2. QED
      BY <2>11, <3>1 DEF StartTunnel
  <2>12. CASE Handshake  BY <2>12 DEF Handshake, FlagsOK
  <2>13. CASE Configure
    <3>1. FlagsOK'
      BY <2>13, Zenon DEF Configure, FlagsOK
    <3>2. QED
      BY <2>13, <3>1 DEF Configure
  <2>14. CASE Settle  BY <2>14 DEF Settle, FlagsOK
  <2>15. CASE InitialProbeOk  BY <2>15 DEF InitialProbeOk, FlagsOK
  <2>16. CASE InitialProbeFailed  BY <2>16 DEF InitialProbeFailed, FlagsOK
  <2>17. CASE InitialProbesSpent  BY <2>17 DEF InitialProbesSpent, FlagsOK
  <2>18. CASE RetryElapsed  BY <2>18 DEF RetryElapsed, FlagsOK
  <2>19. CASE RetryCancelled
    <3>1. FlagsOK'
      BY <2>19, Zenon DEF RetryCancelled, FlagsOK
    <3>2. QED
      BY <2>19, <3>1 DEF RetryCancelled
  <2>20. CASE MonitorProbeOk  BY <2>20 DEF MonitorProbeOk, FlagsOK
  <2>21. CASE MonitorProbeFailed  BY <2>21 DEF MonitorProbeFailed, FlagsOK
  <2>22. CASE MonitorExit
    <3>1. FlagsOK'
      BY <2>22, Zenon DEF MonitorExit, FlagsOK
    <3>2. QED
      BY <2>22, <3>1 DEF MonitorExit
  <2>23. CASE MonitorCancelled  BY <2>23 DEF MonitorCancelled, FlagsOK
  <2>24. CASE MonitorModeChanged
    <3>1. FlagsOK'
      BY <2>24, Zenon DEF MonitorModeChanged, FlagsOK
    <3>2. QED
      BY <2>24, <3>1 DEF MonitorModeChanged
  <2>25. CASE ClearEgress
    <3>1. FlagsOK'
      BY <2>25, Zenon DEF ClearEgress, FlagsOK
    <3>2. QED
      BY <2>25, <3>1 DEF ClearEgress
  <2>26. CASE StopTunnel
    <3>1. FlagsOK'
      BY <2>26, Zenon DEF StopTunnel, FlagsOK
    <3>2. QED
      BY <2>26, <3>1 DEF StopTunnel, AfterStop
  <2>27. ASSUME NEW s \in Setters, SetRoute(s) PROVE TypeOK'
    BY <2>27 DEF SetRoute, FlagsOK, NoCall, Routes, AllRoutes
  <2>28. ASSUME NEW s \in Setters, SaveRoute(s) PROVE TypeOK'
    BY <2>28 DEF SaveRoute, FlagsOK, NoCall, Routes, AllRoutes
  <2>29. ASSUME NEW s \in Setters, WakeSupervisor(s) PROVE TypeOK'
    BY <2>29 DEF WakeSupervisor, FlagsOK, NoCall, Routes, AllRoutes
  <2>30. ASSUME NEW r \in Refreshers, RequestRefresh(r) PROVE TypeOK'
    BY <2>30 DEF RequestRefresh, FlagsOK
  <2>31. ASSUME NEW r \in Refreshers, SendRefresh(r) PROVE TypeOK'
    BY <2>31 DEF SendRefresh, FlagsOK
  <2>32. CASE Restore  BY <2>32 DEF Restore, FlagsOK
  <2>33. CASE TunnelExits  BY <2>33 DEF TunnelExits, FlagsOK
  <2>34. CASE Shutdown  BY <2>34 DEF Shutdown, FlagsOK
  <2>35. CASE Restart
    <3>1. FlagsOK'
      BY <2>35, Zenon DEF Restart, FlagsOK
    <3>2. QED
      BY <2>35, <3>1 DEF Restart, LoadedRoutes, LoadedBlacklists, NoCall, Routes, AllRoutes
  <2>36. CASE Terminated  BY <2>36 DEF Terminated, FlagsOK, vars
  <2>37. CASE UNCHANGED vars  BY <2>37 DEF vars, FlagsOK
  <2> QED
    BY <2>1, <2>2, <2>3, <2>4, <2>5, <2>6, <2>7, <2>8, <2>9, <2>10, <2>11, <2>12, <2>13, <2>14, <2>15, <2>16, <2>17, <2>18, <2>19, <2>20, <2>21, <2>22, <2>23, <2>24, <2>25, <2>26, <2>27, <2>28, <2>29, <2>30, <2>31, <2>32, <2>33, <2>34, <2>35, <2>36, <2>37
       DEF Next, RunNext, Run, ConnectLoop, Monitor, WebUI
<1> QED
  BY <1>1, <1>2, PTL DEF Spec

\* What EgressFollowsTunnel rests on: a container's egress is always open, and
\* between the two halves of stopTunnel a host's is closed.
EgressInv ==
  /\ NoAbandonedTunnel
  /\ EgressFollowsTunnel
  /\ ~HostMode => ready
  /\ pc = "stop" => (HostMode => ~ready)

\* EgressInv is inductive, given types.
LEMMA EgressInductive == TypeOK /\ TypeOK' /\ EgressInv /\ [Next]_vars => EgressInv'
<1> USE ConstantsAssumption DEF ConstantsAssumption
<1> SUFFICES ASSUME TypeOK, TypeOK', EgressInv, [Next]_vars PROVE EgressInv'
  OBVIOUS
<1> USE DEF EgressInv, NoAbandonedTunnel, EgressFollowsTunnel
<1> USE DEF TypeOK, FlagsOK, Others, Goto, GiveUp, Attempting, Leaving, Working,
        loopVars, tunVars, listVars, routeVars, refreshVars, procVars
<1>1. CASE RunStart  BY <1>1 DEF RunStart
<1>2. CASE LoopHead  BY <1>2 DEF LoopHead
<1>3. CASE FetchDone  BY <1>3 DEF FetchDone
<1>4. CASE Select  BY <1>4 DEF Select
<1>5. CASE WaitElapsed  BY <1>5 DEF WaitElapsed
<1>6. CASE WaitAborted  BY <1>6 DEF WaitAborted
<1>7. CASE LoopExhausted  BY <1>7 DEF LoopExhausted
<1>8. CASE TakeCandidate  BY <1>8 DEF TakeCandidate
<1>9. CASE AskFixed  BY <1>9 DEF AskFixed
<1>10. CASE Mark  BY <1>10 DEF Mark
<1>11. CASE StartTunnel  BY <1>11 DEF StartTunnel
<1>12. CASE Handshake  BY <1>12 DEF Handshake
<1>13. CASE Configure  BY <1>13 DEF Configure
<1>14. CASE Settle  BY <1>14 DEF Settle
<1>15. CASE InitialProbeOk  BY <1>15 DEF InitialProbeOk
<1>16. CASE InitialProbeFailed  BY <1>16 DEF InitialProbeFailed
<1>17. CASE InitialProbesSpent  BY <1>17 DEF InitialProbesSpent
<1>18. CASE RetryElapsed  BY <1>18 DEF RetryElapsed
<1>19. CASE RetryCancelled  BY <1>19 DEF RetryCancelled
<1>20. CASE MonitorProbeOk  BY <1>20 DEF MonitorProbeOk
<1>21. CASE MonitorProbeFailed  BY <1>21 DEF MonitorProbeFailed
<1>22. CASE MonitorExit  BY <1>22 DEF MonitorExit
<1>23. CASE MonitorCancelled  BY <1>23 DEF MonitorCancelled
<1>24. CASE MonitorModeChanged  BY <1>24 DEF MonitorModeChanged
<1>25. CASE ClearEgress  BY <1>25 DEF ClearEgress
<1>26. CASE StopTunnel  BY <1>26 DEF StopTunnel, AfterStop
<1>27. ASSUME NEW s \in Setters, SetRoute(s) PROVE EgressInv'  BY <1>27 DEF SetRoute
<1>28. ASSUME NEW s \in Setters, SaveRoute(s) PROVE EgressInv'  BY <1>28 DEF SaveRoute
<1>29. ASSUME NEW s \in Setters, WakeSupervisor(s) PROVE EgressInv'
  BY <1>29 DEF WakeSupervisor
<1>30. ASSUME NEW r \in Refreshers, RequestRefresh(r) PROVE EgressInv'
  BY <1>30 DEF RequestRefresh
<1>31. ASSUME NEW r \in Refreshers, SendRefresh(r) PROVE EgressInv'
  BY <1>31 DEF SendRefresh
<1>32. CASE Restore  BY <1>32 DEF Restore
<1>33. CASE TunnelExits  BY <1>33 DEF TunnelExits
<1>34. CASE Shutdown  BY <1>34 DEF Shutdown
<1>35. CASE Restart  BY <1>35 DEF Restart
<1>36. CASE Terminated  BY <1>36 DEF Terminated, vars
<1>37. CASE UNCHANGED vars  BY <1>37 DEF vars
<1> QED
  BY <1>1, <1>2, <1>3, <1>4, <1>5, <1>6, <1>7, <1>8, <1>9, <1>10,
     <1>11, <1>12, <1>13, <1>14, <1>15, <1>16, <1>17, <1>18, <1>19,
     <1>20, <1>21, <1>22, <1>23, <1>24, <1>25, <1>26, <1>27, <1>28,
     <1>29, <1>30, <1>31, <1>32, <1>33, <1>34, <1>35, <1>36, <1>37
     DEF Next, RunNext, Run, ConnectLoop, Monitor, WebUI

\* No openvpn process is ever abandoned, and a host's egress is open exactly while
\* a tunnel is held, but for a shutdown between two initial probes.
THEOREM EgressSafety == Spec => [](NoAbandonedTunnel /\ EgressFollowsTunnel)
<1>1. Init => EgressInv
  BY Zenon DEF Init, EgressInv, NoAbandonedTunnel, EgressFollowsTunnel
<1>2. EgressInv => NoAbandonedTunnel /\ EgressFollowsTunnel
  BY DEF EgressInv
<1> QED
  BY <1>1, <1>2, Typing, EgressInductive, PTL DEF Spec

\* What NoLostRouteChange rests on: only failed attempts reach markBlacklisted, so
\* a supervisor that has taken the token does go back to Run.
RouteInv == NoLostRouteChange /\ (pc = "mark" => outcome = "failed")

\* RouteInv is inductive, given types.
LEMMA RouteInductive == TypeOK /\ TypeOK' /\ RouteInv /\ [Next]_vars => RouteInv'
<1> USE ConstantsAssumption DEF ConstantsAssumption
<1> SUFFICES ASSUME TypeOK, TypeOK', RouteInv, [Next]_vars PROVE RouteInv'
  OBVIOUS
<1> USE DEF RouteInv, NoLostRouteChange, Reselects
<1> USE DEF TypeOK, FlagsOK, Others, Goto, GiveUp, Attempting, Leaving, Working,
        loopVars, tunVars, listVars, routeVars, refreshVars, procVars
<1>1. CASE RunStart  BY <1>1 DEF RunStart
<1>2. CASE LoopHead  BY <1>2 DEF LoopHead
<1>3. CASE FetchDone  BY <1>3 DEF FetchDone
<1>4. CASE Select  BY <1>4 DEF Select
<1>5. CASE WaitElapsed  BY <1>5 DEF WaitElapsed
<1>6. CASE WaitAborted  BY <1>6 DEF WaitAborted
<1>7. CASE LoopExhausted  BY <1>7 DEF LoopExhausted
<1>8. CASE TakeCandidate  BY <1>8 DEF TakeCandidate
<1>9. CASE AskFixed  BY <1>9 DEF AskFixed
<1>10. CASE Mark  BY <1>10 DEF Mark
<1>11. CASE StartTunnel  BY <1>11 DEF StartTunnel
<1>12. CASE Handshake  BY <1>12 DEF Handshake
<1>13. CASE Configure  BY <1>13 DEF Configure
<1>14. CASE Settle  BY <1>14 DEF Settle
<1>15. CASE InitialProbeOk  BY <1>15 DEF InitialProbeOk
<1>16. CASE InitialProbeFailed  BY <1>16 DEF InitialProbeFailed
<1>17. CASE InitialProbesSpent  BY <1>17 DEF InitialProbesSpent
<1>18. CASE RetryElapsed  BY <1>18 DEF RetryElapsed
<1>19. CASE RetryCancelled  BY <1>19 DEF RetryCancelled
<1>20. CASE MonitorProbeOk  BY <1>20 DEF MonitorProbeOk
<1>21. CASE MonitorProbeFailed  BY <1>21 DEF MonitorProbeFailed
<1>22. CASE MonitorExit  BY <1>22 DEF MonitorExit
<1>23. CASE MonitorCancelled  BY <1>23 DEF MonitorCancelled
<1>24. CASE MonitorModeChanged  BY <1>24 DEF MonitorModeChanged
<1>25. CASE ClearEgress  BY <1>25 DEF ClearEgress
<1>26. CASE StopTunnel  BY <1>26 DEF StopTunnel, AfterStop
<1>27. ASSUME NEW s \in Setters, SetRoute(s) PROVE RouteInv'  BY <1>27 DEF SetRoute, NoCall
<1>28. ASSUME NEW s \in Setters, SaveRoute(s) PROVE RouteInv'  BY <1>28 DEF SaveRoute
<1>29. ASSUME NEW s \in Setters, WakeSupervisor(s) PROVE RouteInv'
  BY <1>29 DEF WakeSupervisor, NoCall
<1>30. ASSUME NEW r \in Refreshers, RequestRefresh(r) PROVE RouteInv'
  BY <1>30 DEF RequestRefresh
<1>31. ASSUME NEW r \in Refreshers, SendRefresh(r) PROVE RouteInv'  BY <1>31 DEF SendRefresh
<1>32. CASE Restore  BY <1>32 DEF Restore
<1>33. CASE TunnelExits  BY <1>33 DEF TunnelExits
<1>34. CASE Shutdown  BY <1>34 DEF Shutdown
<1>35. CASE Restart  BY <1>35 DEF Restart, NoCall
<1>36. CASE Terminated  BY <1>36 DEF Terminated, vars
<1>37. CASE UNCHANGED vars  BY <1>37 DEF vars
<1> QED
  BY <1>1, <1>2, <1>3, <1>4, <1>5, <1>6, <1>7, <1>8, <1>9, <1>10,
     <1>11, <1>12, <1>13, <1>14, <1>15, <1>16, <1>17, <1>18, <1>19,
     <1>20, <1>21, <1>22, <1>23, <1>24, <1>25, <1>26, <1>27, <1>28,
     <1>29, <1>30, <1>31, <1>32, <1>33, <1>34, <1>35, <1>36, <1>37
     DEF Next, RunNext, Run, ConnectLoop, Monitor, WebUI

\* RouteInv holds throughout.
LEMMA RouteInvariance == Spec => []RouteInv
<1>1. Init => RouteInv
  BY DEF Init, RouteInv, NoLostRouteChange, Reselects
<1> QED
  BY <1>1, Typing, RouteInductive, PTL DEF Spec

\* However many SetRouteConfig calls interleave with the supervisor, it never goes
\* on with candidates of an older route without a wake-up pending.
THEOREM RouteSafety == Spec => []NoLostRouteChange
<1>1. RouteInv => NoLostRouteChange
  BY DEF RouteInv
<1> QED
  BY <1>1, RouteInvariance, PTL

\* NoLostRefresh is inductive, given types: the supervisor takes a token only where
\* it returns, and clears the flag only at the head of its loop.
LEMMA RefreshInductive ==
  TypeOK /\ NoLostRefresh /\ [Next]_vars => NoLostRefresh'
<1> SUFFICES ASSUME TypeOK, NoLostRefresh, [Next]_vars PROVE NoLostRefresh'
  OBVIOUS
<1> USE DEF NoLostRefresh
<1>1. ASSUME UNCHANGED refreshVars, pc = "done" => pc' = "done" PROVE NoLostRefresh'
  BY <1>1 DEF refreshVars
<1>2. CASE Run
  <2>1. CASE LoopHead  BY <2>1, Zenon DEF LoopHead, Goto
  <2>2. CASE WaitAborted  BY <2>2 DEF WaitAborted, Goto
  <2>3. CASE RunStart \/ FetchDone \/ Select \/ WaitElapsed
    BY <1>1, <2>3 DEF RunStart, FetchDone, Select, WaitElapsed
  <2> QED
    BY <1>2, <2>1, <2>2, <2>3 DEF Run
<1>3. CASE ConnectLoop
  BY <1>1, <1>3 DEF ConnectLoop, LoopExhausted, TakeCandidate, AskFixed, Mark, StartTunnel,
     Handshake, Configure, Settle, InitialProbeOk, InitialProbeFailed, InitialProbesSpent,
     RetryElapsed, RetryCancelled
<1>4. CASE Monitor
  BY <1>1, <1>4 DEF Monitor, MonitorProbeOk, MonitorProbeFailed, MonitorExit,
     MonitorCancelled, MonitorModeChanged, ClearEgress, StopTunnel
<1>5. CASE TunnelExits \/ Shutdown \/ Terminated \/ UNCHANGED vars
  BY <1>1, <1>5 DEF TunnelExits, Shutdown, Terminated, vars, loopVars
<1>6. CASE Restart  BY <1>6, Zenon DEF Restart
<1>7. CASE WebUI
  <2>1. CASE Restore \/ \E s \in Setters : SetRoute(s) \/ SaveRoute(s) \/ WakeSupervisor(s)
    BY <1>1, <2>1 DEF Restore, SetRoute, SaveRoute, WakeSupervisor, loopVars
  <2>2. ASSUME NEW r \in Refreshers, RequestRefresh(r) PROVE NoLostRefresh'
    BY <2>2 DEF RequestRefresh, TypeOK
  <2>3. ASSUME NEW r \in Refreshers, SendRefresh(r) PROVE NoLostRefresh'
    BY <2>3 DEF SendRefresh
  <2> QED
    BY <1>7, <2>1, <2>2, <2>3 DEF WebUI
<1> QED
  BY <1>2, <1>3, <1>4, <1>5, <1>6, <1>7 DEF Next, RunNext

\* However many handlers ask for a refresh, and wherever the loop stands: none of
\* them can leave the flag behind without a token, after which TriggerFetch would
\* do nothing any more.
THEOREM RefreshSafety == Spec => []NoLostRefresh
<1>1. Init => NoLostRefresh
  BY Zenon DEF Init, NoLostRefresh
<1> QED
  BY <1>1, Typing, RefreshInductive, PTL DEF Spec

\* The step of DiskNeverRunsAhead: every writer of the blacklist, in connectLoop and
\* in the web UI's handlers, leaves on disk a part of what is in memory.
DiskStep ==
  restarts' = restarts => diskBlacklist' \ blacklist' \subseteq diskBlacklist \ blacklist

\* Every step of the running process is one.
LEMMA DiskStepwise == TypeOK /\ [Next]_vars => DiskStep
<1> USE ConstantsAssumption DEF ConstantsAssumption
<1> SUFFICES ASSUME TypeOK, [Next]_vars PROVE DiskStep
  OBVIOUS
<1> USE DEF DiskStep, listVars
<1>1. CASE RunStart  BY <1>1 DEF RunStart
<1>2. CASE LoopHead  BY <1>2 DEF LoopHead
<1>3. CASE FetchDone  BY <1>3 DEF FetchDone
<1>4. CASE Select  BY <1>4 DEF Select
<1>5. CASE WaitElapsed  BY <1>5 DEF WaitElapsed
<1>6. CASE WaitAborted  BY <1>6 DEF WaitAborted
<1>7. CASE LoopExhausted  BY <1>7 DEF LoopExhausted
<1>8. CASE TakeCandidate  BY <1>8 DEF TakeCandidate
<1>9. CASE AskFixed  BY <1>9 DEF AskFixed
<1>10. CASE Mark  BY <1>10 DEF Mark
<1>11. CASE StartTunnel  BY <1>11 DEF StartTunnel
<1>12. CASE Handshake  BY <1>12 DEF Handshake
<1>13. CASE Configure  BY <1>13 DEF Configure
<1>14. CASE Settle  BY <1>14 DEF Settle
<1>15. CASE InitialProbeOk  BY <1>15 DEF InitialProbeOk
<1>16. CASE InitialProbeFailed  BY <1>16 DEF InitialProbeFailed
<1>17. CASE InitialProbesSpent  BY <1>17 DEF InitialProbesSpent
<1>18. CASE RetryElapsed  BY <1>18 DEF RetryElapsed
<1>19. CASE RetryCancelled  BY <1>19 DEF RetryCancelled
<1>20. CASE MonitorProbeOk  BY <1>20 DEF MonitorProbeOk
<1>21. CASE MonitorProbeFailed  BY <1>21 DEF MonitorProbeFailed
<1>22. CASE MonitorExit  BY <1>22 DEF MonitorExit
<1>23. CASE MonitorCancelled  BY <1>23 DEF MonitorCancelled
<1>24. CASE MonitorModeChanged  BY <1>24 DEF MonitorModeChanged
<1>25. CASE ClearEgress  BY <1>25 DEF ClearEgress
<1>26. CASE StopTunnel  BY <1>26 DEF StopTunnel
<1>27. ASSUME NEW s \in Setters, SetRoute(s) PROVE DiskStep
  BY <1>27 DEF SetRoute
<1>28. ASSUME NEW s \in Setters, SaveRoute(s) PROVE DiskStep
  BY <1>28 DEF SaveRoute
<1>29. ASSUME NEW s \in Setters, WakeSupervisor(s) PROVE DiskStep
  BY <1>29 DEF WakeSupervisor
<1>30. ASSUME NEW r \in Refreshers, RequestRefresh(r) PROVE DiskStep
  BY <1>30 DEF RequestRefresh
<1>31. ASSUME NEW r \in Refreshers, SendRefresh(r) PROVE DiskStep
  BY <1>31 DEF SendRefresh
<1>32. CASE Restore  BY <1>32 DEF Restore
<1>33. CASE TunnelExits  BY <1>33 DEF TunnelExits
<1>34. CASE Shutdown  BY <1>34 DEF Shutdown
<1>35. CASE Restart  BY <1>35 DEF Restart, TypeOK
<1>36. CASE Terminated  BY <1>36 DEF Terminated, vars
<1>37. CASE UNCHANGED vars  BY <1>37 DEF vars
<1> QED
  BY <1>1, <1>2, <1>3, <1>4, <1>5, <1>6, <1>7, <1>8, <1>9, <1>10,
     <1>11, <1>12, <1>13, <1>14, <1>15, <1>16, <1>17, <1>18, <1>19,
     <1>20, <1>21, <1>22, <1>23, <1>24, <1>25, <1>26, <1>27, <1>28,
     <1>29, <1>30, <1>31, <1>32, <1>33, <1>34, <1>35, <1>36, <1>37
     DEF Next, RunNext, Run, ConnectLoop, Monitor, WebUI

\* The running process never puts the file ahead of memory, so no restart bans a
\* node that was restored before it.
THEOREM DiskSafety == Spec => DiskNeverRunsAhead
<1>1. TypeOK /\ [Next]_vars =>
        [restarts' = restarts =>
           diskBlacklist' \ blacklist' \subseteq diskBlacklist \ blacklist]_vars
  BY DiskStepwise DEF DiskStep
<1> QED
  BY <1>1, Typing, PTL DEF Spec, DiskNeverRunsAhead

\* Every step of the supervisor is a step of NodeService, or a stutter.
LEMMA ServiceStep ==
  TypeOK /\ TypeOK' /\ RouteInv /\ [Next]_vars
    => [Service!Next]_(Service!vars)
<1> USE ConstantsAssumption DEF ConstantsAssumption
<1> SUFFICES ASSUME TypeOK, TypeOK', RouteInv, [Next]_vars
             PROVE Service!Next \/ UNCHANGED Service!vars
  OBVIOUS
<1> USE DEF Phase, Attempting, Leaving, Working, Service!vars,
        Others, Goto, GiveUp, TypeOK, RouteInv,
        loopVars, tunVars, listVars, routeVars, refreshVars, procVars
<1>1. CASE RunStart  BY <1>1 DEF RunStart
<1>2. CASE LoopHead  BY <1>2 DEF LoopHead
<1>3. CASE FetchDone  BY <1>3 DEF FetchDone
<1>4. CASE Select  BY <1>4 DEF Select
<1>5. CASE WaitElapsed  BY <1>5 DEF WaitElapsed
<1>6. CASE WaitAborted  BY <1>6 DEF WaitAborted
<1>7. CASE LoopExhausted  BY <1>7 DEF LoopExhausted
<1>8. CASE TakeCandidate  BY <1>8 DEF TakeCandidate, Service!Next, Service!Try, Earliest
<1>9. CASE AskFixed  BY <1>9 DEF AskFixed, Service!Next, Service!Try, Lockable
<1>10. CASE Mark  BY <1>10 DEF Mark, Service!Next, Service!Ban
<1>11. CASE StartTunnel  BY <1>11 DEF StartTunnel, Service!Next, Service!Condemn
<1>12. CASE Handshake  BY <1>12 DEF Handshake, Service!Next, Service!Condemn
<1>13. CASE Configure  BY <1>13 DEF Configure, Service!Next, Service!Condemn
<1>14. CASE Settle  BY <1>14 DEF Settle, Service!Next, Service!Condemn
<1>15. CASE InitialProbeOk  BY <1>15 DEF InitialProbeOk, Service!Next, Service!Serve
<1>16. CASE InitialProbeFailed  BY <1>16 DEF InitialProbeFailed
<1>17. CASE InitialProbesSpent
  BY <1>17 DEF InitialProbesSpent, Service!Next, Service!Condemn
<1>18. CASE RetryElapsed  BY <1>18 DEF RetryElapsed
<1>19. CASE RetryCancelled  BY <1>19 DEF RetryCancelled, Service!Next, Service!Condemn
<1>20. CASE MonitorProbeOk  BY <1>20 DEF MonitorProbeOk
<1>21. CASE MonitorProbeFailed
  BY <1>21 DEF MonitorProbeFailed, Service!Next, Service!Condemn
<1>22. CASE MonitorExit  BY <1>22 DEF MonitorExit, Service!Next, Service!Condemn
<1>23. CASE MonitorCancelled  BY <1>23 DEF MonitorCancelled, Service!Next, Service!Condemn
<1>24. CASE MonitorModeChanged
  BY <1>24 DEF MonitorModeChanged, Service!Next, Service!Release
<1>25. CASE ClearEgress  BY <1>25 DEF ClearEgress
<1>26. CASE StopTunnel  BY <1>26 DEF StopTunnel, AfterStop
<1>27. ASSUME NEW s \in Setters, SetRoute(s) PROVE Service!Next \/ UNCHANGED Service!vars
  BY <1>27 DEF SetRoute
<1>28. ASSUME NEW s \in Setters, SaveRoute(s) PROVE Service!Next \/ UNCHANGED Service!vars
  BY <1>28 DEF SaveRoute
<1>29. ASSUME NEW s \in Setters, WakeSupervisor(s) PROVE Service!Next \/ UNCHANGED Service!vars
  BY <1>29 DEF WakeSupervisor
<1>30. ASSUME NEW r \in Refreshers, RequestRefresh(r) PROVE Service!Next \/ UNCHANGED Service!vars
  BY <1>30 DEF RequestRefresh
<1>31. ASSUME NEW r \in Refreshers, SendRefresh(r) PROVE Service!Next \/ UNCHANGED Service!vars
  BY <1>31 DEF SendRefresh
<1>32. CASE Restore  BY <1>32 DEF Restore, Service!Next, Service!Pardon
<1>33. CASE TunnelExits  BY <1>33 DEF TunnelExits
<1>34. CASE Shutdown  BY <1>34 DEF Shutdown
<1>35. CASE Restart
  BY <1>35 DEF Restart, LoadedBlacklists, Service!Next, Service!Reset
<1>36. CASE Terminated  BY <1>36 DEF Terminated, vars
<1>37. CASE UNCHANGED vars  BY <1>37 DEF vars
<1> QED
  BY <1>1, <1>2, <1>3, <1>4, <1>5, <1>6, <1>7, <1>8, <1>9, <1>10,
     <1>11, <1>12, <1>13, <1>14, <1>15, <1>16, <1>17, <1>18, <1>19,
     <1>20, <1>21, <1>22, <1>23, <1>24, <1>25, <1>26, <1>27, <1>28,
     <1>29, <1>30, <1>31, <1>32, <1>33, <1>34, <1>35, <1>36, <1>37
     DEF Next, RunNext, Run, ConnectLoop, Monitor, WebUI

\* The supervisor implements NodeService.
THEOREM ServiceRefinement == Spec => ImplementsNodeService
<1>1. Init => Service!Init
  BY DEF Init, LoadedBlacklists, Service!Init, Phase, Attempting, Leaving
<1> QED
  BY <1>1, Typing, RouteInvariance, ServiceStep, PTL
     DEF Spec, ImplementsNodeService, Service!Spec

-----------------------------------------------------------------------------
(* The contract about a tunnel and its egress                               *)

\* The only way to lose the tunnel and keep a host's egress open is the cancelled
\* wait between two probes, and from there connectLoop only goes on to return.
AbandonInv ==
  HostMode /\ ready /\ tun = "none" => ctxDone /\ pc \in {"mark", "next", "done"}

\* AbandonInv is inductive, given types and EgressInv.
LEMMA AbandonInductive ==
  TypeOK /\ TypeOK' /\ EgressInv /\ AbandonInv /\ [Next]_vars => AbandonInv'
<1> USE ConstantsAssumption DEF ConstantsAssumption
<1> SUFFICES ASSUME TypeOK, TypeOK', EgressInv, AbandonInv, [Next]_vars PROVE AbandonInv'
  OBVIOUS
<1> USE DEF AbandonInv, EgressInv, NoAbandonedTunnel, EgressFollowsTunnel
<1> USE DEF TypeOK, FlagsOK, Others, Goto, GiveUp, Attempting, Leaving, Working,
        loopVars, tunVars, listVars, routeVars, refreshVars, procVars
<1>1. CASE RunStart  BY <1>1 DEF RunStart
<1>2. CASE LoopHead  BY <1>2 DEF LoopHead
<1>3. CASE FetchDone  BY <1>3 DEF FetchDone
<1>4. CASE Select  BY <1>4 DEF Select
<1>5. CASE WaitElapsed  BY <1>5 DEF WaitElapsed
<1>6. CASE WaitAborted  BY <1>6 DEF WaitAborted
<1>7. CASE LoopExhausted  BY <1>7 DEF LoopExhausted
<1>8. CASE TakeCandidate  BY <1>8 DEF TakeCandidate
<1>9. CASE AskFixed  BY <1>9 DEF AskFixed
<1>10. CASE Mark  BY <1>10 DEF Mark
<1>11. CASE StartTunnel  BY <1>11 DEF StartTunnel
<1>12. CASE Handshake  BY <1>12 DEF Handshake
<1>13. CASE Configure  BY <1>13 DEF Configure
<1>14. CASE Settle  BY <1>14 DEF Settle
<1>15. CASE InitialProbeOk  BY <1>15 DEF InitialProbeOk
<1>16. CASE InitialProbeFailed  BY <1>16 DEF InitialProbeFailed
<1>17. CASE InitialProbesSpent  BY <1>17 DEF InitialProbesSpent
<1>18. CASE RetryElapsed  BY <1>18 DEF RetryElapsed
<1>19. CASE RetryCancelled  BY <1>19 DEF RetryCancelled
<1>20. CASE MonitorProbeOk  BY <1>20 DEF MonitorProbeOk
<1>21. CASE MonitorProbeFailed  BY <1>21 DEF MonitorProbeFailed
<1>22. CASE MonitorExit  BY <1>22 DEF MonitorExit
<1>23. CASE MonitorCancelled  BY <1>23 DEF MonitorCancelled
<1>24. CASE MonitorModeChanged  BY <1>24 DEF MonitorModeChanged
<1>25. CASE ClearEgress  BY <1>25 DEF ClearEgress
<1>26. CASE StopTunnel  BY <1>26 DEF StopTunnel, AfterStop
<1>27. ASSUME NEW s \in Setters, SetRoute(s) PROVE AbandonInv'  BY <1>27 DEF SetRoute
<1>28. ASSUME NEW s \in Setters, SaveRoute(s) PROVE AbandonInv'  BY <1>28 DEF SaveRoute
<1>29. ASSUME NEW s \in Setters, WakeSupervisor(s) PROVE AbandonInv'
  BY <1>29 DEF WakeSupervisor
<1>30. ASSUME NEW r \in Refreshers, RequestRefresh(r) PROVE AbandonInv'
  BY <1>30 DEF RequestRefresh
<1>31. ASSUME NEW r \in Refreshers, SendRefresh(r) PROVE AbandonInv'
  BY <1>31 DEF SendRefresh
<1>32. CASE Restore  BY <1>32 DEF Restore
<1>33. CASE TunnelExits  BY <1>33 DEF TunnelExits
<1>34. CASE Shutdown  BY <1>34 DEF Shutdown
<1>35. CASE Restart  BY <1>35 DEF Restart
<1>36. CASE Terminated  BY <1>36 DEF Terminated, vars
<1>37. CASE UNCHANGED vars  BY <1>37 DEF vars
<1> QED
  BY <1>1, <1>2, <1>3, <1>4, <1>5, <1>6, <1>7, <1>8, <1>9, <1>10,
     <1>11, <1>12, <1>13, <1>14, <1>15, <1>16, <1>17, <1>18, <1>19,
     <1>20, <1>21, <1>22, <1>23, <1>24, <1>25, <1>26, <1>27, <1>28,
     <1>29, <1>30, <1>31, <1>32, <1>33, <1>34, <1>35, <1>36, <1>37
     DEF Next, RunNext, Run, ConnectLoop, Monitor, WebUI

\* Every step of the supervisor is a step of TunnelService, or a stutter.
LEMMA ContractStep ==
  TypeOK /\ TypeOK' /\ EgressInv /\ AbandonInv /\ AbandonInv' /\ [Next]_vars
    => [Contract!Next]_(Contract!vars)
<1> USE ConstantsAssumption DEF ConstantsAssumption
<1> SUFFICES ASSUME TypeOK, TypeOK', EgressInv, AbandonInv, AbandonInv', [Next]_vars
             PROVE Contract!Next \/ UNCHANGED Contract!vars
  OBVIOUS
<1> USE DEF Stage, Child, Contract!vars, AbandonInv, EgressInv, NoAbandonedTunnel,
        EgressFollowsTunnel
<1> USE DEF TypeOK, FlagsOK, Others, Goto, GiveUp, Attempting, Leaving, Working,
        loopVars, tunVars, listVars, routeVars, refreshVars, procVars
<1>1. CASE RunStart  BY <1>1 DEF RunStart
<1>2. CASE LoopHead  BY <1>2 DEF LoopHead
<1>3. CASE FetchDone  BY <1>3 DEF FetchDone
<1>4. CASE Select  BY <1>4 DEF Select
<1>5. CASE WaitElapsed  BY <1>5 DEF WaitElapsed
<1>6. CASE WaitAborted  BY <1>6 DEF WaitAborted
<1>7. CASE LoopExhausted  BY <1>7 DEF LoopExhausted
<1>8. CASE TakeCandidate  BY <1>8 DEF TakeCandidate
<1>9. CASE AskFixed  BY <1>9 DEF AskFixed
<1>10. CASE Mark  BY <1>10 DEF Mark
<1>11. CASE StartTunnel  BY <1>11 DEF StartTunnel, Contract!Next, Contract!Launch
<1>12. CASE Handshake
  BY <1>12 DEF Handshake, Contract!Next, Contract!Connect, Contract!Leave
<1>13. CASE Configure  BY <1>13 DEF Configure, Contract!Next, Contract!Open, Contract!Leave
<1>14. CASE Settle  BY <1>14 DEF Settle, Contract!Next, Contract!Leave
<1>15. CASE InitialProbeOk  BY <1>15 DEF InitialProbeOk, Contract!Next, Contract!Serve
<1>16. CASE InitialProbeFailed  BY <1>16 DEF InitialProbeFailed
<1>17. CASE InitialProbesSpent
  BY <1>17 DEF InitialProbesSpent, Contract!Next, Contract!Leave
<1>18. CASE RetryElapsed  BY <1>18 DEF RetryElapsed
<1>19. CASE RetryCancelled  BY <1>19 DEF RetryCancelled, Contract!Next, Contract!Abandon
<1>20. CASE MonitorProbeOk  BY <1>20 DEF MonitorProbeOk
<1>21. CASE MonitorProbeFailed
  BY <1>21 DEF MonitorProbeFailed, Contract!Next, Contract!Leave
<1>22. CASE MonitorExit  BY <1>22 DEF MonitorExit, Contract!Next, Contract!Leave
<1>23. CASE MonitorCancelled  BY <1>23 DEF MonitorCancelled, Contract!Next, Contract!Leave
<1>24. CASE MonitorModeChanged
  BY <1>24 DEF MonitorModeChanged, Contract!Next, Contract!Leave
<1>25. CASE ClearEgress  BY <1>25 DEF ClearEgress, Contract!Next, Contract!Close
<1>26. CASE StopTunnel  BY <1>26 DEF StopTunnel, AfterStop, Contract!Next, Contract!Stop
<1>27. ASSUME NEW s \in Setters, SetRoute(s) PROVE Contract!Next \/ UNCHANGED Contract!vars
  BY <1>27 DEF SetRoute
<1>28. ASSUME NEW s \in Setters, SaveRoute(s) PROVE Contract!Next \/ UNCHANGED Contract!vars
  BY <1>28 DEF SaveRoute
<1>29. ASSUME NEW s \in Setters, WakeSupervisor(s) PROVE Contract!Next \/ UNCHANGED Contract!vars
  BY <1>29 DEF WakeSupervisor
<1>30. ASSUME NEW r \in Refreshers, RequestRefresh(r) PROVE Contract!Next \/ UNCHANGED Contract!vars
  BY <1>30 DEF RequestRefresh
<1>31. ASSUME NEW r \in Refreshers, SendRefresh(r) PROVE Contract!Next \/ UNCHANGED Contract!vars
  BY <1>31 DEF SendRefresh
<1>32. CASE Restore  BY <1>32 DEF Restore
<1>33. CASE TunnelExits  BY <1>33 DEF TunnelExits, Contract!Next, Contract!Exit
<1>34. CASE Shutdown  BY <1>34 DEF Shutdown
<1>35. CASE Restart  BY <1>35 DEF Restart, Contract!Next, Contract!Restart
<1>36. CASE Terminated  BY <1>36 DEF Terminated, vars
<1>37. CASE UNCHANGED vars  BY <1>37 DEF vars
<1> QED
  BY <1>1, <1>2, <1>3, <1>4, <1>5, <1>6, <1>7, <1>8, <1>9, <1>10,
     <1>11, <1>12, <1>13, <1>14, <1>15, <1>16, <1>17, <1>18, <1>19,
     <1>20, <1>21, <1>22, <1>23, <1>24, <1>25, <1>26, <1>27, <1>28,
     <1>29, <1>30, <1>31, <1>32, <1>33, <1>34, <1>35, <1>36, <1>37
     DEF Next, RunNext, Run, ConnectLoop, Monitor, WebUI

\* In both network modes and on every path of the loop, the supervisor implements
\* TunnelService.
THEOREM TunnelRefinement == Spec => ImplementsTunnelService
<1>1. Init => EgressInv /\ AbandonInv /\ Contract!Init
  BY Zenon DEF Init, EgressInv, NoAbandonedTunnel, EgressFollowsTunnel, AbandonInv,
     Contract!Init, Stage, Child
<1> QED
  BY <1>1, Typing, EgressInductive, AbandonInductive, ContractStep, PTL
     DEF Spec, ImplementsTunnelService, Contract!Spec
===============================================================================
