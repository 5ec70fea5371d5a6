---------------------------- MODULE DaemonProofs ----------------------------
(***************************************************************************)
(* Proofs about Daemon: for any number of connections and requests, any    *)
(* workload and any configuration.  The second half needs to know what a   *)
(* kill has done so far and what became of the workload, up to: the daemon *)
(* implements the abstract session.                                        *)
(***************************************************************************)
EXTENDS Daemon, TLAPS

\* transition_quiet never leaves the set of states, and only makes legal moves.
LEMMA QuietState ==
  ASSUME NEW s \in SessionStates, NEW t \in SessionStates
  PROVE  Quiet(s, t) \in SessionStates /\ Accepts(s, Quiet(s, t))
  BY DEF Quiet, Accepts

\* What recording the kinds ks does to the counts.
LEMMA AppendCounts ==
  ASSUME TraceTyped, NEW ks, Append(ks)
  PROVE  /\ TraceTyped' /\ sealed' = sealed
         /\ \A k \in Kinds : /\ k \notin ks => cnt'[k] = cnt[k]
                             /\ k \in ks => cnt'[k] = Bump(cnt[k])
                             /\ cnt[k] > 0 => cnt'[k] > 0
         /\ ~Counted => tail' = tail
         /\ Counted => tail' = Bump(tail)
  BY DEF TraceTyped, Append, Bump

\* The trace keeps its type whichever way an event is recorded.
LEMMA TraceType ==
  ASSUME TraceTyped, NEW ks, Append(ks) \/ TryAppend(ks) \/ UNCHANGED traceVars
  PROVE  TraceTyped'
  <1>1. CASE Append(ks) BY <1>1, AppendCounts
  <1>2. CASE UNCHANGED traceVars BY <1>2 DEF TraceTyped, traceVars
  <1>. QED BY <1>1, <1>2 DEF TryAppend

\* The lock's fields keep their types when a kill is started or skipped.
LEMMA KillLockedType ==
  ASSUME LockTyped, HandleTyped, NEW t \in Threads, KillLocked(t)
  PROVE  LockTyped'
  BY DEF KillLocked, StartKill, lockVars, LockTyped, HandleTyped, KillSteps

\* So does whatever a supervisory action does.
LEMMA SuperviseType ==
  ASSUME StateTyped, WatchTyped, LockTyped, HandleTyped, TraceTyped,
         NEW t \in Threads, NEW action \in SupervisoryActions, NEW ks, Supervise(t, action, ks)
  PROVE  st' \in SessionStates /\ quarantined' \in BOOLEAN /\ LockTyped' /\ TraceTyped'
  <1>1. TraceTyped' BY TraceType DEF Supervise
  <1>q. st \in SessionStates /\ Quiet(st, "QUARANTINED") \in SessionStates
    BY QuietState DEF StateTyped, SessionStates
  <1>l. UNCHANGED lockVars => LockTyped' BY DEF LockTyped, lockVars
  <1>2. CASE action = "record"
    BY <1>1, <1>2, <1>q, <1>l DEF Supervise, WatchTyped
  <1>3. CASE action = "quarantine"
    BY <1>1, <1>3, <1>q, <1>l DEF Supervise, WatchTyped
  <1>4. CASE action = "kill"
    BY <1>1, <1>4, <1>q, KillLockedType DEF Supervise, WatchTyped
  <1>. QED BY <1>2, <1>3, <1>4 DEF SupervisoryActions

\* A termination leaves well-typed processes behind.
LEMMA TerminateType ==
  ASSUME ProcTyped, TerminateTree \/ (\E S \in SUBSET tree : Leaves(S))
  PROVE  ProcTyped'
  BY DEF TerminateTree, Leaves, ProcTyped, procVars

\* Untouched parts of the state keep their types.
LEMMA Frames ==
  /\ StateTyped /\ UNCHANGED stateVars => StateTyped'
  /\ MainTyped /\ UNCHANGED mainVars => MainTyped'
  /\ ProcTyped /\ UNCHANGED procVars => ProcTyped'
  /\ HandleTyped /\ UNCHANGED handleVars => HandleTyped'
  /\ WatchTyped /\ UNCHANGED watchVars => WatchTyped'
  /\ LockTyped /\ UNCHANGED lockVars => LockTyped'
  /\ ClockTyped /\ UNCHANGED clockVars => ClockTyped'
  /\ ClientTyped /\ UNCHANGED clientVars => ClientTyped'
  /\ IpcTyped /\ UNCHANGED ipcVars => IpcTyped'
  /\ TraceTyped /\ UNCHANGED traceVars => TraceTyped'
  <1>1. StateTyped /\ UNCHANGED stateVars => StateTyped' BY DEF StateTyped, stateVars
  <1>2. MainTyped /\ UNCHANGED mainVars => MainTyped' BY DEF MainTyped, mainVars
  <1>3. ProcTyped /\ UNCHANGED procVars => ProcTyped' BY DEF ProcTyped, procVars
  <1>4. HandleTyped /\ UNCHANGED handleVars => HandleTyped' BY DEF HandleTyped, handleVars
  <1>5. WatchTyped /\ UNCHANGED watchVars => WatchTyped' BY DEF WatchTyped, watchVars
  <1>6. LockTyped /\ UNCHANGED lockVars => LockTyped' BY DEF LockTyped, lockVars
  <1>7. ClockTyped /\ UNCHANGED clockVars => ClockTyped' BY DEF ClockTyped, clockVars
  <1>8. ClientTyped /\ UNCHANGED clientVars => ClientTyped' BY DEF ClientTyped, clientVars
  <1>9. IpcTyped /\ UNCHANGED ipcVars => IpcTyped' BY DEF IpcTyped, ipcVars
  <1>10. TraceTyped /\ UNCHANGED traceVars => TraceTyped' BY DEF TraceTyped, traceVars
  <1>. QED BY <1>1, <1>2, <1>3, <1>4, <1>5, <1>6, <1>7, <1>8, <1>9, <1>10

\* Each step keeps the type of each part of the state.
LEMMA TypeStep == TypeOK /\ [Next]_vars => TypeOK'
  <1> SUFFICES ASSUME TypeOK, [Next]_vars PROVE TypeOK' OBVIOUS
  <1> USE DaemonAssumption, Frames
  <1>t. /\ StateTyped /\ MainTyped /\ ProcTyped /\ HandleTyped /\ WatchTyped /\ LockTyped
        /\ ClockTyped /\ ClientTyped /\ IpcTyped /\ TraceTyped
        /\ spc \in {"idle", "killed", "done"}
    BY DEF TypeOK
  <1>q. \A t \in SessionStates : Quiet(st, t) \in SessionStates
    BY <1>t, QuietState DEF StateTyped
  <1> HIDE DEF TypeOK
  <1>1. CASE KillEngage
    BY <1>1, <1>t DEF KillEngage, TypeOK, WatchTyped, LockTyped, KillSteps
  <1>2. CASE KillTerminate
    BY <1>2, <1>t, TerminateType DEF KillTerminate, TypeOK, LockTyped, KillSteps
  <1>3. CASE KillEvent
    <2>1. TraceTyped' BY <1>3, <1>t, TraceType DEF KillEvent
    <2>. QED BY <1>3, <1>t, <2>1 DEF KillEvent, Release, TypeOK, LockTyped, HandleTyped,
                                     WatchTyped, KillSteps
  <1>4. CASE KillDestroy
    <2>1. TraceTyped' BY <1>4, <1>t, TraceType DEF KillDestroy
    <2>. QED BY <1>4, <1>t, <2>1 DEF KillDestroy, Release, TypeOK, LockTyped, KillSteps
  <1>5. CASE KillDestroying
    <2>1. TraceTyped' BY <1>5, <1>t, TraceType DEF KillDestroying, DestroyUnit
    <2>2. ProcTyped' BY <1>5, <1>t, TerminateType DEF KillDestroying, DestroyUnit
    <2>. QED BY <1>5, <1>t, <2>1, <2>2 DEF KillDestroying, DestroyUnit, Release, TypeOK, LockTyped,
                                           HandleTyped, KillSteps
  <1>6. CASE KillAccount
    <2>1. TraceTyped' BY <1>6, <1>t, TraceType DEF KillAccount
    <2>2. st' \in SessionStates BY <1>6, <1>t, <1>q DEF KillAccount, SessionStates, StateTyped
    <2>. QED BY <1>6, <1>t, <2>1, <2>2 DEF KillAccount, Release, TypeOK, LockTyped, StateTyped,
                                           WatchTyped, KillSteps
  <1>7. CASE Prepare \/ Started \/ Inspect
    <2>1. TraceTyped' BY <1>7, <1>t, TraceType DEF Prepare, Started, Inspect
    <2>2. MainTyped' BY <1>7, <1>t DEF Prepare, Started, Inspect, MainTyped, MainPcs
    <2>. QED BY <1>7, <1>t, <2>1, <2>2 DEF Prepare, Started, Inspect, TypeOK, StateTyped, stateVars
  <1>8. CASE ServeIpc
    <2>1. TraceTyped' BY <1>8, <1>t, TraceType DEF ServeIpc
    <2>. QED BY <1>8, <1>t, <2>1 DEF ServeIpc, TypeOK, MainTyped, IpcTyped, MainPcs
  <1>9. CASE PrepareFails \/ Starting \/ ServeIpcFails \/ SpawnFails \/ Unverified \/ Running
    <2>1. StateTyped'
      BY <1>9, <1>t, <1>q DEF PrepareFails, Starting, ServeIpcFails, SpawnFails, Unverified,
                              Running, Raise, StateTyped, SessionStates
    <2>2. MainTyped'
      BY <1>9, <1>t DEF PrepareFails, Starting, ServeIpcFails, SpawnFails, Unverified,
                        Running, Raise, MainTyped, MainPcs
    <2>. QED BY <1>9, <1>t, <2>1, <2>2 DEF PrepareFails, Starting, ServeIpcFails, SpawnFails,
                                           Unverified, Running, TypeOK
  <1>40. CASE LaunchFails
    <2>1. StateTyped' BY <1>40, <1>t, <1>q DEF LaunchFails, Raise, StateTyped, SessionStates
    <2>2. MainTyped' BY <1>40, <1>t DEF LaunchFails, Raise, MainTyped, MainPcs
    <2>3. ProcTyped' BY <1>40, <1>t, TerminateType DEF LaunchFails
    <2>. QED BY <1>40, <1>t, <2>1, <2>2, <2>3 DEF LaunchFails, TypeOK
  <1>10. CASE Spawn \/ Adopt \/ Attach
    <2>1. MainTyped' BY <1>10, <1>t DEF Spawn, Adopt, Attach, MainTyped, MainPcs
    <2>2. ProcTyped' BY <1>10, <1>t DEF Spawn, Adopt, Attach, ProcTyped, procVars
    <2>3. HandleTyped' BY <1>10, <1>t DEF Spawn, Adopt, Attach, HandleTyped, handleVars
    <2>. QED BY <1>10, <1>t, <2>1, <2>2, <2>3 DEF Spawn, Adopt, Attach, TypeOK
  <1>11. CASE WatchQuit \/ WatchPoll \/ CheckTimeout \/ Shutdown \/ CountEvents
    <2>1. MainTyped'
      BY <1>11, <1>t DEF WatchQuit, WatchPoll, CheckTimeout, Shutdown, CountEvents, MainTyped,
                         MainPcs
    <2>. QED BY <1>11, <1>t, <2>1 DEF WatchQuit, WatchPoll, CheckTimeout, Shutdown, CountEvents,
                                      TypeOK
  <1>12. CASE CheckHeartbeat \/ Claim \/ Seal
    <2>1. MainTyped' BY <1>12, <1>t DEF CheckHeartbeat, Claim, Seal, MainTyped, MainPcs
    <2>2. StateTyped' /\ ClockTyped' /\ TraceTyped'
      BY <1>12, <1>t DEF CheckHeartbeat, Claim, Seal, StateTyped, ClockTyped, TraceTyped,
                         stateVars, clockVars, traceVars
    <2>. QED BY <1>12, <1>t, <2>1, <2>2 DEF CheckHeartbeat, Claim, Seal, TypeOK
  <1>13. CASE HeartbeatLost
    <2>1. st' \in SessionStates /\ quarantined' \in BOOLEAN /\ LockTyped' /\ TraceTyped'
      BY <1>13, <1>t, SuperviseType DEF HeartbeatLost, Threads
    <2>2. StateTyped' /\ WatchTyped'
      BY <1>13, <1>t, <2>1 DEF HeartbeatLost, StateTyped, WatchTyped
    <2>. QED BY <1>13, <1>t, <2>1, <2>2 DEF HeartbeatLost, TypeOK, MainTyped, MainPcs
  <1>14. CASE TimeoutKill \/ ShutdownKill
    <2>1. TraceTyped' BY <1>14, <1>t, TraceType DEF TimeoutKill, ShutdownKill
    <2>2. LockTyped' BY <1>14, <1>t, KillLockedType DEF TimeoutKill, ShutdownKill, Threads
    <2>3. MainTyped' BY <1>14, <1>t DEF TimeoutKill, ShutdownKill, MainTyped, MainPcs
    <2>. QED BY <1>14, <1>t, <2>1, <2>2, <2>3 DEF TimeoutKill, ShutdownKill, TypeOK
  <1>15. CASE EnsureStopped \/ Judge
    <2>1. TraceTyped' BY <1>15, <1>t, TraceType DEF EnsureStopped, Judge, Conclude
    <2>2. MainTyped' BY <1>15, <1>t DEF EnsureStopped, Judge, Conclude, MainTyped, MainPcs, Phases
    <2>. QED BY <1>15, <1>t, <2>1, <2>2 DEF EnsureStopped, Judge, TypeOK
  <1>16. CASE TerminateNow
    <2>1. TraceTyped' BY <1>16, <1>t, TraceType DEF TerminateNow, Conclude
    <2>2. ProcTyped' BY <1>16, <1>t, TerminateType DEF TerminateNow
    <2>3. MainTyped' BY <1>16, <1>t DEF TerminateNow, Conclude, MainTyped, MainPcs, Phases
    <2>. QED BY <1>16, <1>t, <2>1, <2>2, <2>3 DEF TerminateNow, TypeOK
  <1>17. CASE Decide
    <2>1. Verdict \in SessionStates BY DEF Verdict, SessionStates
    <2>2. StateTyped' BY <1>17, <1>t, <1>q, <2>1 DEF Decide, StateTyped
    <2>. QED BY <1>17, <1>t, <2>2 DEF Decide, TypeOK, MainTyped, MainPcs
  <1>18. CASE Destroy
    <2>1. TraceTyped' BY <1>18, <1>t, TraceType DEF Destroy
    <2>. QED BY <1>18, <1>t, <2>1 DEF Destroy, TypeOK, MainTyped, MainPcs
  <1>19. CASE Destroying
    <2>1. TraceTyped' BY <1>19, <1>t, TraceType DEF Destroying, DestroyUnit
    <2>2. ProcTyped' BY <1>19, <1>t, TerminateType DEF Destroying, DestroyUnit
    <2>3. HandleTyped' BY <1>19, <1>t DEF Destroying, DestroyUnit, HandleTyped
    <2>. QED BY <1>19, <1>t, <2>1, <2>2, <2>3 DEF Destroying, TypeOK, MainTyped, MainPcs
  <1>20. CASE StopIpc \/ DrainDone
    <2>1. MainTyped' BY <1>20, <1>t DEF StopIpc, DrainDone, MainTyped, MainPcs
    <2>2. IpcTyped' BY <1>20, <1>t DEF StopIpc, DrainDone, IpcTyped
    <2>. QED BY <1>20, <1>t, <2>1, <2>2 DEF StopIpc, DrainDone, TypeOK
  <1>21. CASE DrainTimeout
    <2>1. TraceTyped' BY <1>21, <1>t, TraceType DEF DrainTimeout
    <2>2. StateTyped' BY <1>21, <1>t, <1>q DEF DrainTimeout, StateTyped, SessionStates
    <2>. QED BY <1>21, <1>t, <2>1, <2>2 DEF DrainTimeout, TypeOK, MainTyped, MainPcs, IpcTyped
  <1>22. CASE RecordVanished \/ RecordLifecycle \/ RecordSeal
    <2>1. TraceTyped' BY <1>22, <1>t, TraceType DEF RecordVanished, RecordLifecycle, RecordSeal
    <2>2. MainTyped'
      BY <1>22, <1>t DEF RecordVanished, RecordLifecycle, RecordSeal, MainTyped, MainPcs
    <2>. QED BY <1>22, <1>t, <2>1, <2>2 DEF RecordVanished, RecordLifecycle, RecordSeal, TypeOK
  <1>23. ASSUME NEW w \in Workers,
                Accept(w) \/ Leave(w) \/ (\E kind \in Requests : Admit(w, kind)) \/ Dispatch(w)
         PROVE  TypeOK'
    <2>1. IpcTyped'
      BY <1>23, <1>t DEF Accept, Leave, Admit, Dispatch, Answered, Goto, IpcTyped, WorkerPcs
    <2>. QED BY <1>23, <1>t, <2>1 DEF Accept, Leave, Admit, Dispatch, TypeOK
  <1>24. ASSUME NEW w \in Workers,
                ClientConnected(w) \/ ClientAuthenticated(w) \/ ProtocolViolation(w)
         PROVE  TypeOK'
    <2>1. TraceTyped'
      BY <1>24, <1>t, TraceType DEF ClientConnected, ClientAuthenticated, ProtocolViolation
    <2>2. IpcTyped'
      BY <1>24, <1>t DEF ClientConnected, ClientAuthenticated, ProtocolViolation, Goto, IpcTyped,
                         WorkerPcs
    <2>3. ClockTyped' /\ ClientTyped'
      BY <1>24, <1>t DEF ClientConnected, ClientAuthenticated, ProtocolViolation, ClockTyped,
                         ClientTyped, clockVars, clientVars
    <2>. QED BY <1>24, <1>t, <2>1, <2>2, <2>3
             DEF ClientConnected, ClientAuthenticated, ProtocolViolation, TypeOK
  <1>25. ASSUME NEW w \in Workers, Sanitize(w) \/ HandleEvent(w) \/ HandleHeartbeat(w)
                                   \/ HandleSessionEnd(w)
         PROVE  TypeOK'
    <2>1. TraceTyped'
      BY <1>25, <1>t, TraceType DEF Sanitize, HandleEvent, HandleHeartbeat, HandleSessionEnd
    <2>2. IpcTyped'
      BY <1>25, <1>t DEF Sanitize, HandleEvent, HandleHeartbeat, HandleSessionEnd, Answered, Goto,
                         IpcTyped, WorkerPcs
    <2>3. ClockTyped' /\ ClientTyped'
      BY <1>25, <1>t DEF Sanitize, HandleEvent, HandleHeartbeat, HandleSessionEnd, ClockTyped,
                         ClientTyped, clockVars, clientVars
    <2>. QED BY <1>25, <1>t, <2>1, <2>2, <2>3
             DEF Sanitize, HandleEvent, HandleHeartbeat, HandleSessionEnd, TypeOK
  <1>26. ASSUME NEW w \in Workers, ClientDisconnected(w) PROVE TypeOK'
    <2>1. TraceTyped' BY <1>26, <1>t, TraceType DEF ClientDisconnected, Supervise
    <2>2. LockTyped'
      BY <1>26, <1>t, KillLockedType DEF ClientDisconnected, Supervise, Threads,
                                         SupervisoryActions
    <2>3. StateTyped' /\ WatchTyped'
      <3>1. st' \in SessionStates /\ quarantined' \in BOOLEAN
        BY <1>26, <1>t, SuperviseType DEF ClientDisconnected, StateTyped, WatchTyped, Threads
      <3>. QED BY <1>26, <1>t, <3>1 DEF ClientDisconnected, StateTyped, WatchTyped
    <2>4. IpcTyped' BY <1>26, <1>t DEF ClientDisconnected, Goto, IpcTyped, WorkerPcs
    <2>. QED BY <1>26, <1>t, <2>1, <2>2, <2>3, <2>4 DEF ClientDisconnected, TypeOK
  <1>27. ASSUME NEW w \in Workers, HandleEvaluate(w) PROVE TypeOK'
    <2>1. TraceTyped' BY <1>27, <1>t, TraceType DEF HandleEvaluate
    <2>2. LockTyped'
      <3>1. CASE KillLocked(w) BY <3>1, <1>t, KillLockedType DEF Threads
      <3>2. CASE StartKill(w, attached)
        BY <3>2, <1>t DEF StartKill, LockTyped, HandleTyped, Threads, KillSteps
      <3>. QED BY <1>27, <1>t, <3>1, <3>2 DEF HandleEvaluate
    <2>3. StateTyped' /\ WatchTyped'
      BY <1>27, <1>t, <1>q DEF HandleEvaluate, StateTyped, WatchTyped, SessionStates
    <2>4. IpcTyped' BY <1>27, <1>t DEF HandleEvaluate, Answered, Goto, IpcTyped, WorkerPcs
    <2>. QED BY <1>27, <1>t, <2>1, <2>2, <2>3, <2>4 DEF HandleEvaluate, TypeOK
  <1>28. ASSUME NEW w \in Workers, HandleKillRequest(w) PROVE TypeOK'
    <2>1. TraceTyped' BY <1>28, <1>t, TraceType DEF HandleKillRequest
    <2>2. LockTyped' BY <1>28, <1>t, KillLockedType DEF HandleKillRequest, Threads
    <2>3. IpcTyped' BY <1>28, <1>t DEF HandleKillRequest, Answered, Goto, IpcTyped, WorkerPcs
    <2>. QED BY <1>28, <1>t, <2>1, <2>2, <2>3 DEF HandleKillRequest, TypeOK
  <1>29. CASE Stop
    <2>1. LockTyped' BY <1>29, <1>t, KillLockedType DEF Stop, Threads
    <2>. QED BY <1>29, <1>t, <2>1 DEF Stop, TypeOK
  <1>30. CASE StopQuits \/ RequestShutdown
    <2>1. StateTyped' BY <1>30, <1>t DEF StopQuits, RequestShutdown, StateTyped
    <2>. QED BY <1>30, <1>t, <2>1 DEF StopQuits, RequestShutdown, TypeOK
  <1>31. CASE WorkloadExits
    BY <1>31, <1>t DEF WorkloadExits, ProcTyped, TypeOK
  <1>32. CASE HeartbeatAges \/ LimitPasses
    <2>1. ClockTyped' BY <1>32, <1>t DEF HeartbeatAges, LimitPasses, ClockTyped
    <2>. QED BY <1>32, <1>t, <2>1 DEF HeartbeatAges, LimitPasses, TypeOK
  <1>33. CASE UNCHANGED vars
    BY <1>33, <1>t DEF vars, TypeOK
  <1>. QED
    BY <1>1, <1>2, <1>3, <1>4, <1>5, <1>6, <1>7, <1>8, <1>9, <1>10, <1>11, <1>12, <1>13,
       <1>14, <1>15, <1>16, <1>17, <1>18, <1>19, <1>20, <1>21, <1>22, <1>23, <1>24, <1>25,
       <1>26, <1>27, <1>28, <1>29, <1>30, <1>31, <1>32, <1>33, <1>40
    DEF Next, Main, Setup, Watch, Finalize, KillStep, Worker, Returned

\* The fields a fresh WatcherDaemon starts with have their types.
LEMMA TypeInit == Init => TypeOK
  <1> SUFFICES ASSUME Init PROVE TypeOK OBVIOUS
  <1>1. StateTyped BY DEF Init, StateTyped, SessionStates
  <1>2. MainTyped BY DEF Init, MainTyped, MainPcs, Phases
  <1>3. ProcTyped /\ HandleTyped /\ WatchTyped
    BY DEF Init, ProcTyped, HandleTyped, WatchTyped
  <1>4. LockTyped /\ ClockTyped /\ ClientTyped
    BY DEF Init, LockTyped, ClockTyped, ClientTyped, KillSteps
  <1>5. IpcTyped BY DaemonAssumption DEF Init, IpcTyped, WorkerPcs
  <1>6. TraceTyped
    <2>1. 0 \in 0 .. 2 OBVIOUS
    <2>2. cnt \in [Kinds -> 0 .. 2] BY <2>1 DEF Init
    <2>. QED BY <2>1, <2>2 DEF Init, TraceTyped
  <1>. QED BY <1>1, <1>2, <1>3, <1>4, <1>5, <1>6 DEF Init, TypeOK

\* Every field of the daemon keeps its type; in particular the session state
\* is always one of SessionState and the trace counters never leave their range.
THEOREM TypeCorrect == Spec => []TypeOK
  BY TypeInit, TypeStep, PTL DEF Spec

(***************************************************************************)
(* The order of finalisation: what holds the lock when, and what the drain *)
(* has established once it is over.                                        *)
(***************************************************************************)
PostDrain == {"vanished", "lifecycle", "count", "sealEvent", "seal", "done"}
Finalising == {"ensure", "terminate", "judge", "decide", "drain", "drainwait"} \cup PostDrain

\* A kill is in progress exactly while the lock is held over several steps.
LockHeld == lock = "free" <=> kstep = "idle"

\* _shutting_down is set while main finalises, and then main no longer kills.
Phased ==
  /\ shutting <=> \/ mpc \in Finalising
                  \/ mpc \in {"destroy", "destroying"} /\ mcont # "unverified"
  /\ lock = "main" => mpc \in {"limit", "watch", "claim"}
  /\ lock = "stopper" => ~shutting

\* The admission gate follows main: no connection before it opens.
Gated ==
  /\ gate = "closed" => lock \notin Workers /\ \A w \in Workers : wpc[w] = "idle"
  /\ gate = "open" => mpc \notin {"drainwait"} \cup PostDrain
  /\ gate = "draining" => mpc = "drainwait"
  /\ gate \in {"drained", "timedout"} => mpc \in PostDrain

\* After a clean drain every other thread that could write is gone.
Alone ==
  mpc \in PostDrain /\ gate # "timedout" =>
    lock = "free" /\ \A w \in Workers : wpc[w] \in {"idle", "exited"}

SealedLast == sealed => mpc = "done"

OrderInv == LockHeld /\ Phased /\ Gated /\ Alone /\ SealedLast

\* Recording does not seal.
LEMMA RecordKeepsOpen ==
  \A ks : Append(ks) \/ TryAppend(ks) \/ UNCHANGED traceVars => sealed' = sealed
  BY DEF Append, TryAppend, traceVars

\* _kill_locked takes the lock for its caller, or does nothing.
LEMMA KillLockedLock ==
  ASSUME NEW t, KillLocked(t)
  PROVE  \/ lock' = t /\ kstep' \in {"engage", "destroy"}
         \/ lock' = lock /\ kstep' = kstep
  BY DEF KillLocked, StartKill, lockVars

\* Each step keeps the order of finalisation.
LEMMA OrderStep == TypeOK /\ OrderInv /\ [Next]_vars => OrderInv'
  <1> SUFFICES ASSUME TypeOK, OrderInv, [Next]_vars PROVE OrderInv' OBVIOUS
  <1> USE DaemonAssumption, RecordKeepsOpen DEF OrderInv
  <1>t. /\ lock \in Workers \cup {"main", "stopper", "free"}
        /\ wpc \in [Workers -> WorkerPcs]
    BY DEF TypeOK, LockTyped, IpcTyped, Threads
  <1>f. UNCHANGED <<lock, kstep, shutting, mpc, mcont, gate, wpc, sealed>> => OrderInv'
    BY DEF LockHeld, Phased, Gated, Alone, SealedLast
  <1>1. CASE KillEngage \/ KillTerminate
    BY <1>1 DEF KillEngage, KillTerminate, LockHeld, Phased, Gated, Alone, SealedLast,
                stateVars, mainVars, ipcVars, traceVars
  <1>2. CASE KillEvent \/ KillDestroy \/ KillDestroying \/ KillAccount
    <2>1. /\ UNCHANGED <<shutting, mpc, mcont, gate, wpc, sealed>> /\ kstep # "idle"
          /\ \/ lock' = "free" /\ kstep' = "idle"
             \/ lock' = lock /\ kstep' # "idle"
      BY <1>2 DEF KillEvent, KillDestroy, KillDestroying, KillAccount, DestroyUnit, Release,
                  stateVars, mainVars, ipcVars, traceVars
    <2>. QED BY <2>1, <1>t DEF LockHeld, Phased, Gated, Alone, SealedLast
  <1>3. CASE Setup
    <2>1. /\ UNCHANGED <<lock, kstep, shutting, wpc, sealed>>
          /\ mpc \in {"prepare", "starting", "serve", "spawn", "adopt", "attach", "started",
                      "inspect", "unverified", "running"}
      BY <1>3 DEF Setup, Prepare, PrepareFails, Starting, ServeIpc, ServeIpcFails, Spawn, SpawnFails, LaunchFails,
                  Adopt, Attach, Started, Inspect, Unverified, Running, stateVars, lockVars, ipcVars,
                  traceVars
    <2>2. /\ mpc' \notin Finalising
          /\ mpc' \in {"destroy", "destroying"} => mcont' = "unverified"
      BY <1>3 DEF Setup, Prepare, PrepareFails, Starting, ServeIpc, ServeIpcFails, Spawn, SpawnFails, LaunchFails,
                  Adopt, Attach, Started, Inspect, Unverified, Running, Raise, Finalising, PostDrain
    <2>3. gate' = gate \/ gate' = "open"
      BY <1>3 DEF Setup, Prepare, PrepareFails, Starting, ServeIpc, ServeIpcFails, Spawn, SpawnFails, LaunchFails,
                  Adopt, Attach, Started, Inspect, Unverified, Running, ipcVars
    <2>. QED BY <2>1, <2>2, <2>3, <1>t
             DEF LockHeld, Phased, Gated, Alone, SealedLast, Finalising, PostDrain
  <1>4. CASE WatchQuit \/ WatchPoll \/ CheckHeartbeat \/ CheckTimeout \/ Shutdown
    <2>1. /\ UNCHANGED <<lock, kstep, shutting, gate, wpc, sealed>>
          /\ mpc \in {"watch", "beat", "limit", "shutdown"}
          /\ mpc \in {"watch", "limit"} => lock # "main"
          /\ mpc' \in {"shutdown", "beat", "claim", "beatlost", "limit", "timeout", "watch", "askkill"}
      BY <1>4 DEF WatchQuit, WatchPoll, CheckHeartbeat, CheckTimeout, Shutdown, stateVars, lockVars,
                  ipcVars, traceVars
    <2>. QED BY <2>1, <1>t DEF LockHeld, Phased, Gated, Alone, SealedLast, Finalising, PostDrain
  <1>5. CASE HeartbeatLost \/ TimeoutKill \/ ShutdownKill
    <2>1. /\ UNCHANGED <<shutting, gate, wpc, sealed>>
          /\ mpc \in {"beatlost", "timeout", "askkill"} /\ lock = "free"
          /\ mpc' \in {"limit", "watch", "claim"}
      BY <1>5 DEF HeartbeatLost, TimeoutKill, ShutdownKill, Supervise, stateVars, ipcVars
    <2>2. \/ lock' = "main" /\ kstep' \in {"engage", "destroy"}
          \/ lock' = lock /\ kstep' = kstep
      BY <1>5, KillLockedLock DEF HeartbeatLost, TimeoutKill, ShutdownKill, Supervise, lockVars,
                                  SupervisoryActions
    <2>. QED BY <2>1, <2>2, <1>t
             DEF LockHeld, Phased, Gated, Alone, SealedLast, Finalising, PostDrain
  <1>6. CASE Claim
    BY <1>6, <1>t DEF Claim, LockHeld, Phased, Gated, Alone, SealedLast, Finalising, PostDrain,
                      lockVars, ipcVars, traceVars
  <1>7. CASE EnsureStopped \/ TerminateNow \/ Judge \/ Decide
    <2>1. /\ UNCHANGED <<lock, kstep, shutting, gate, wpc, sealed>>
          /\ mpc \in {"ensure", "terminate", "judge", "decide"}
          /\ \/ mpc' \in {"terminate", "decide"}
             \/ mpc' = "destroy" /\ mcont' # "unverified"
      BY <1>7 DEF EnsureStopped, TerminateNow, Judge, Decide, Conclude, stateVars, lockVars, ipcVars,
                  traceVars
    <2>. QED BY <2>1, <1>t DEF LockHeld, Phased, Gated, Alone, SealedLast, Finalising, PostDrain
  <1>8. CASE Destroy \/ Destroying
    <2>1. /\ UNCHANGED <<lock, kstep, shutting, gate, wpc, sealed, mcont>>
          /\ mpc \in {"destroy", "destroying"}
          /\ mpc' \in {"destroying", mcont} /\ mcont \in {"drain", "judge", "unverified"}
      BY <1>8 DEF Destroy, Destroying, DestroyUnit, stateVars, lockVars, ipcVars,
                  traceVars, TypeOK, MainTyped
    <2>. QED BY <2>1, <1>t DEF LockHeld, Phased, Gated, Alone, SealedLast, Finalising, PostDrain
  <1>9. CASE StopIpc
    BY <1>9, <1>t DEF StopIpc, LockHeld, Phased, Gated, Alone, SealedLast, Finalising, PostDrain,
                      stateVars, lockVars, traceVars
  <1>10. CASE DrainDone
    BY <1>10, <1>t DEF DrainDone, WorkerGone, LockHeld, Phased, Gated, Alone, SealedLast,
                       Finalising, PostDrain, stateVars, lockVars, traceVars
  <1>11. CASE DrainTimeout
    BY <1>11, <1>t DEF DrainTimeout, LockHeld, Phased, Gated, Alone, SealedLast,
                       Finalising, PostDrain, lockVars
  <1>12. CASE RecordVanished \/ RecordLifecycle \/ CountEvents \/ RecordSeal \/ Seal
    <2>1. /\ UNCHANGED <<lock, kstep, shutting, gate, wpc>>
          /\ mpc \in PostDrain /\ mpc' \in PostDrain
          /\ sealed' = sealed \/ mpc' = "done"
          /\ mpc # "done"
      BY <1>12 DEF RecordVanished, RecordLifecycle, CountEvents, RecordSeal, Seal, PostDrain,
                   stateVars, lockVars, ipcVars, traceVars
    <2>. QED BY <2>1, <1>t DEF LockHeld, Phased, Gated, Alone, SealedLast, Finalising, PostDrain
  <1>13. ASSUME NEW w \in Workers, Accept(w) PROVE OrderInv'
    BY <1>13, <1>t DEF Accept, Goto, LockHeld, Phased, Gated, Alone, SealedLast, stateVars, mainVars,
                       lockVars, traceVars
  <1>14. ASSUME NEW w \in Workers,
                ClientConnected(w) \/ ClientAuthenticated(w) \/ ProtocolViolation(w) \/ Leave(w)
                  \/ (\E kind \in Requests : Admit(w, kind)) \/ Dispatch(w) \/ Sanitize(w)
                  \/ HandleEvent(w) \/ HandleHeartbeat(w) \/ HandleSessionEnd(w)
         PROVE  OrderInv'
    <2>1. /\ UNCHANGED <<lock, kstep, shutting, mpc, mcont, gate, sealed>>
          /\ wpc[w] \notin {"idle", "exited"}
          /\ \E pc : wpc' = [wpc EXCEPT ![w] = pc]
      BY <1>14, <1>t DEF ClientConnected, ClientAuthenticated, ProtocolViolation, Leave, Admit,
           Dispatch, Sanitize, HandleEvent, HandleHeartbeat, HandleSessionEnd, Handles, Answered,
           Goto, stateVars, mainVars, lockVars
    <2>. QED BY <2>1, <1>t DEF LockHeld, Phased, Gated, Alone, SealedLast
  <1>15. ASSUME NEW w \in Workers,
                ClientDisconnected(w) \/ HandleEvaluate(w) \/ HandleKillRequest(w)
         PROVE  OrderInv'
    <2>1. /\ UNCHANGED <<shutting, mpc, mcont, gate, sealed>>
          /\ wpc[w] \notin {"idle", "exited"} /\ lock = "free"
          /\ \E pc : wpc' = [wpc EXCEPT ![w] = pc]
      BY <1>15, <1>t DEF ClientDisconnected, Supervise, HandleEvaluate, HandleKillRequest, Handles,
           Answered, Goto, stateVars, mainVars
    <2>2. \/ lock' = w /\ kstep' # "idle"
          \/ lock' = lock /\ kstep' = kstep
      BY <1>15, KillLockedLock DEF ClientDisconnected, Supervise, HandleEvaluate,
           HandleKillRequest, StartKill, SupervisoryActions, lockVars
    <2>. QED BY <2>1, <2>2, <1>t DEF LockHeld, Phased, Gated, Alone, SealedLast
  <1>16. CASE Stop
    <2>1. /\ UNCHANGED <<shutting, mpc, mcont, gate, wpc, sealed>> /\ lock = "free"
          /\ \/ lock' = "stopper" /\ kstep' # "idle" /\ ~shutting
             \/ lock' = lock /\ kstep' = kstep
      BY <1>16, KillLockedLock DEF Stop, stateVars, mainVars, ipcVars, traceVars, lockVars
    <2>. QED BY <2>1, <1>t DEF LockHeld, Phased, Gated, Alone, SealedLast, Finalising, PostDrain
  <1>17. CASE StopQuits \/ RequestShutdown \/ WorkloadExits \/ HeartbeatAges \/ LimitPasses
    BY <1>17, <1>f DEF StopQuits, RequestShutdown, WorkloadExits, HeartbeatAges, LimitPasses,
                       stateVars, mainVars, lockVars, ipcVars, traceVars
  <1>18. CASE UNCHANGED vars
    BY <1>18, <1>f DEF vars, stateVars, mainVars, lockVars, ipcVars, traceVars
  <1>. QED
    BY <1>1, <1>2, <1>3, <1>4, <1>5, <1>6, <1>7, <1>8, <1>9, <1>10, <1>11, <1>12, <1>13,
       <1>14, <1>15, <1>16, <1>17, <1>18
    DEF Next, Main, Watch, Finalize, KillStep, Worker, Returned

\* A fresh daemon is in order: nothing held, open or sealed.
LEMMA OrderInit == Init => OrderInv
  BY DaemonAssumption DEF Init, OrderInv, LockHeld, Phased, Gated, Alone, SealedLast, Finalising,
                          PostDrain

\* Types and the order of finalisation are invariants of the daemon.
LEMMA OrderHolds == Spec => [](TypeOK /\ OrderInv)
  BY TypeInit, TypeStep, OrderInit, OrderStep, PTL DEF Spec

\* A kill by stop() never runs beside finalisation.
THEOREM StopBeforeFinalisation == Spec => []StopKillsBeforeFinalisation
  <1>1. OrderInv => StopKillsBeforeFinalisation
    BY DEF OrderInv, Phased, StopKillsBeforeFinalisation
  <1>. QED BY <1>1, OrderHolds, PTL

(***************************************************************************)
(* What each step writes to the trace.                                     *)
(***************************************************************************)
\* The step records at most one event of each tracked kind in K.
Recs(K) == \E ks \in SUBSET K : Append(ks) \/ UNCHANGED traceVars

\* Its effect on the counts, the tail and the seal.
LEMMA RecsEffect ==
  ASSUME TraceTyped, NEW K \in SUBSET Kinds, Recs(K)
  PROVE  /\ \A k \in Kinds \ K : cnt'[k] = cnt[k]
         /\ \A k \in Kinds : cnt[k] > 0 => cnt'[k] > 0
         /\ sealed' = sealed
         /\ ~Counted => tail' = tail
  <1> PICK ks \in SUBSET K : Append(ks) \/ UNCHANGED traceVars BY DEF Recs
  <1>1. CASE Append(ks) BY <1>1, AppendCounts
  <1>2. CASE UNCHANGED traceVars BY <1>2 DEF traceVars
  <1>. QED BY <1>1, <1>2

\* Swallowing TraceSealedError is recording at most that event.
LEMMA TryRecs == ASSUME NEW K, Append(K) \/ TryAppend(K) \/ UNCHANGED traceVars PROVE Recs(K)
  BY DEF Recs, TryAppend

\* Recording less than K is recording at most K.
LEMMA RecsWeaker == ASSUME NEW K, NEW L \in SUBSET K, Recs(L) PROVE Recs(K)
  BY DEF Recs

\* Which step may record which kind; every other step records none of them.
Records ==
  \/ KillEvent /\ Recs({"KILL_SWITCH"})
  \/ KillAccount /\ Recs({"PROCESS_TERMINATION"})
  \/ (KillDestroying \/ Destroying) /\ Recs({"KILL_FAILED"})
  \/ (TerminateNow \/ Judge) /\ Recs({"TERMINATION_UNVERIFIED"})
  \/ RecordLifecycle /\ Recs({"PROCESS_EXITED"})
  \/ ((\E w \in Workers : ClientDisconnected(w)) \/ RecordVanished) /\ Recs({"IPC_LOST"})
  \/ Recs({})
  \/ Seal

\* Each step records what Records grants it: one case per action.
LEMMA StepRecords == [Next]_vars => Records
  <1> SUFFICES ASSUME [Next]_vars PROVE Records OBVIOUS
  <1> USE TryRecs DEF Records
  <1>n. UNCHANGED traceVars => Recs({}) OBVIOUS
  <1>1. CASE KillEngage \/ KillTerminate BY <1>1, <1>n DEF KillEngage, KillTerminate
  <1>2. CASE KillEvent BY <1>2, <1>n DEF KillEvent
  <1>3. CASE KillDestroy BY <1>3, <1>n DEF KillDestroy
  <1>4. CASE KillDestroying
    <2>1. Append({}) \/ Append({"KILL_FAILED"}) \/ UNCHANGED traceVars
      BY <1>4 DEF KillDestroying, DestroyUnit
    <2>. QED BY <2>1, <1>4
  <1>5. CASE KillAccount BY <1>5, <1>n DEF KillAccount
  <1>6. CASE Setup
    BY <1>6, <1>n DEF Setup, Prepare, PrepareFails, Starting, ServeIpc, ServeIpcFails, Spawn,
                      SpawnFails, LaunchFails, Adopt, Attach, Started, Inspect, Unverified, Running
  <1>7. CASE WatchQuit \/ WatchPoll \/ CheckHeartbeat \/ CheckTimeout \/ Shutdown \/ TimeoutKill
             \/ HeartbeatLost \/ ShutdownKill
    BY <1>7, <1>n DEF WatchQuit, WatchPoll, CheckHeartbeat, CheckTimeout, Shutdown, HeartbeatLost,
                      Supervise, TimeoutKill, ShutdownKill
  <1>8. CASE Claim \/ EnsureStopped \/ Decide \/ StopIpc \/ DrainDone \/ DrainTimeout
             \/ CountEvents \/ RecordSeal
    BY <1>8, <1>n DEF Claim, EnsureStopped, Decide, StopIpc, DrainDone, DrainTimeout, CountEvents,
                      RecordSeal
  <1>9. CASE TerminateNow \/ Judge
    <2>1. Append({}) \/ Append({"TERMINATION_UNVERIFIED"})
      BY <1>9 DEF TerminateNow, Judge, Conclude
    <2>. QED BY <2>1, <1>9
  <1>10. CASE Destroy BY <1>10, <1>n DEF Destroy
  <1>11. CASE Destroying
    <2>1. Append({}) \/ Append({"KILL_FAILED"}) BY <1>11 DEF Destroying, DestroyUnit
    <2>. QED BY <2>1, <1>11
  <1>12. CASE RecordVanished BY <1>12, <1>n DEF RecordVanished
  <1>13. CASE RecordLifecycle
    <2>1. Append({}) \/ Append({"PROCESS_EXITED"}) BY <1>13 DEF RecordLifecycle
    <2>. QED BY <2>1, <1>13
  <1>14. ASSUME NEW w \in Workers, ClientDisconnected(w) PROVE Records
    <2>1. Append({"IPC_LOST"}) \/ TryAppend({}) BY <1>14 DEF ClientDisconnected, Supervise
    <2>. QED BY <2>1, <1>14
  <1>15. ASSUME NEW w \in Workers,
                Accept(w) \/ ClientConnected(w) \/ ClientAuthenticated(w) \/ ProtocolViolation(w)
                  \/ Leave(w) \/ (\E kind \in Requests : Admit(w, kind)) \/ Dispatch(w) \/ Sanitize(w)
                  \/ HandleEvaluate(w) \/ HandleEvent(w) \/ HandleHeartbeat(w)
                  \/ HandleKillRequest(w) \/ HandleSessionEnd(w)
         PROVE  Records
    <2>1. Append({}) \/ TryAppend({}) \/ UNCHANGED traceVars
      BY <1>15 DEF Accept, ClientConnected, ClientAuthenticated, ProtocolViolation, Leave, Admit,
           Dispatch, Sanitize, HandleEvaluate, HandleEvent, HandleHeartbeat, HandleKillRequest,
           HandleSessionEnd
    <2>. QED BY <2>1
  <1>16. CASE Stop \/ StopQuits \/ RequestShutdown \/ WorkloadExits \/ HeartbeatAges \/ LimitPasses
    BY <1>16, <1>n DEF Stop, StopQuits, RequestShutdown, WorkloadExits, HeartbeatAges, LimitPasses
  <1>17. CASE UNCHANGED vars BY <1>17, <1>n DEF vars
  <1>. QED
    BY <1>1, <1>2, <1>3, <1>4, <1>5, <1>6, <1>7, <1>8, <1>9, <1>10, <1>11, <1>12, <1>13,
       <1>14, <1>15, <1>16, <1>17
    DEF Next, Main, Watch, Finalize, KillStep, Worker, Returned

\* The same, kind by kind.
LEMMA CountSteps ==
  ASSUME TypeOK, [Next]_vars
  PROVE  /\ KillEvent \/ cnt'["KILL_SWITCH"] = cnt["KILL_SWITCH"]
         /\ KillAccount \/ cnt'["PROCESS_TERMINATION"] = cnt["PROCESS_TERMINATION"]
         /\ KillDestroying \/ Destroying \/ cnt'["KILL_FAILED"] = cnt["KILL_FAILED"]
         /\ TerminateNow \/ Judge
              \/ cnt'["TERMINATION_UNVERIFIED"] = cnt["TERMINATION_UNVERIFIED"]
         /\ RecordLifecycle \/ cnt'["PROCESS_EXITED"] = cnt["PROCESS_EXITED"]
         /\ \A k \in Kinds : cnt[k] > 0 => cnt'[k] > 0
         /\ Seal \/ sealed' = sealed
         /\ ~Counted => tail' = tail
  <1>1. Records BY StepRecords
  <1>2. TraceTyped BY DEF TypeOK
  <1>3. CASE Seal BY <1>3 DEF Seal
  <1>4. ASSUME NEW K \in SUBSET Kinds, Recs(K)
        PROVE  /\ \A k \in Kinds \ K : cnt'[k] = cnt[k]
               /\ \A k \in Kinds : cnt[k] > 0 => cnt'[k] > 0
               /\ sealed' = sealed
               /\ ~Counted => tail' = tail
    BY <1>2, <1>4, RecsEffect
  <1>. QED BY <1>1, <1>3, <1>4 DEF Records, Kinds

(***************************************************************************)
(* Nobody but main moves after a clean drain.                              *)
(***************************************************************************)
\* Steps of stop(), of a signal, of the workload and of the clock.
Bystander ==
  UNCHANGED <<st, prepared, shutting, mainVars, watchVars, lockVars, clientVars, ipcVars, traceVars>>

\* After a clean drain only the tail of _finalize and bystanders can step.
LEMMA AloneStep ==
  ASSUME TypeOK, OrderInv, [Next]_vars, mpc \in PostDrain, gate # "timedout"
  PROVE  RecordVanished \/ RecordLifecycle \/ CountEvents \/ RecordSeal \/ Seal \/ Bystander
  <1>1. lock = "free" /\ kstep = "idle" /\ shutting /\ gate # "open"
        /\ \A w \in Workers : wpc[w] \in {"idle", "exited"}
    BY DEF OrderInv, LockHeld, Phased, Gated, Alone, Finalising
  <1>2. ~KillStep
    BY <1>1 DEF KillStep, KillEngage, KillTerminate, KillEvent, KillDestroy, KillDestroying,
                KillAccount
  <1>3. ~Setup /\ ~Watch
    BY DEF PostDrain, Setup, Prepare, PrepareFails, Starting, ServeIpc, ServeIpcFails, Spawn,
           SpawnFails, LaunchFails, Adopt, Attach, Started, Inspect, Unverified, Running, Watch, WatchQuit,
           WatchPoll, CheckHeartbeat, HeartbeatLost, CheckTimeout, TimeoutKill, Shutdown,
           ShutdownKill
  <1>4. Finalize => RecordVanished \/ RecordLifecycle \/ CountEvents \/ RecordSeal \/ Seal
    BY DEF PostDrain, Finalize, Claim, EnsureStopped, TerminateNow, Judge, Decide, Destroy, Destroying,
           StopIpc, DrainDone, DrainTimeout
  <1>5. ASSUME NEW w \in Workers PROVE ~Worker(w)
    BY <1>1 DEF Worker, Accept, ClientConnected, ClientAuthenticated, ProtocolViolation, Leave,
           ClientDisconnected, Admit, Dispatch, Sanitize, HandleEvaluate, HandleEvent,
           HandleHeartbeat, HandleKillRequest, HandleSessionEnd, Handles
  <1>6. Stop => Bystander BY <1>1 DEF Stop, Bystander, stateVars
  <1>7. StopQuits \/ RequestShutdown \/ WorkloadExits \/ HeartbeatAges \/ LimitPasses => Bystander
    BY DEF StopQuits, RequestShutdown, WorkloadExits, HeartbeatAges, LimitPasses, Bystander,
           stateVars
  <1>8. UNCHANGED vars => Bystander BY DEF vars, Bystander, stateVars
  <1>. QED BY <1>2, <1>3, <1>4, <1>5, <1>6, <1>7, <1>8 DEF Next, Main, Returned

\* Main's position, its phase and the gate are moved by main alone.
LEMMA MainOnly ==
  ASSUME [Next]_vars
  PROVE  Main \/ UNCHANGED <<mpc, mcont, phase, gate, prepared, refused, shutting>>
  <1>1. KillStep => UNCHANGED <<mpc, mcont, phase, gate, prepared, refused, shutting>>
    BY DEF KillStep, KillEngage, KillTerminate, KillEvent, KillDestroy, KillDestroying, KillAccount,
           mainVars, ipcVars, stateVars
  <1>2. ASSUME NEW w \in Workers, Worker(w)
        PROVE  UNCHANGED <<mpc, mcont, phase, gate, prepared, refused, shutting>>
    BY <1>2 DEF Worker, Accept, ClientConnected, ClientAuthenticated, ProtocolViolation, Leave,
           ClientDisconnected, Admit, Dispatch, Sanitize, HandleEvaluate, HandleEvent,
           HandleHeartbeat, HandleKillRequest, HandleSessionEnd, mainVars, stateVars
  <1>3. Stop \/ StopQuits \/ RequestShutdown \/ WorkloadExits \/ HeartbeatAges \/ LimitPasses
          \/ Returned \/ UNCHANGED vars
        => UNCHANGED <<mpc, mcont, phase, gate, prepared, refused, shutting>>
    BY DEF Stop, StopQuits, RequestShutdown, WorkloadExits, HeartbeatAges, LimitPasses, Returned,
           vars, mainVars, ipcVars, stateVars
  <1>. QED BY <1>1, <1>2, <1>3 DEF Next

\* Towards the end main moves forward only, and a timed-out drain stays one.
LEMMA MainForward ==
  ASSUME TypeOK, [Next]_vars
  PROVE  /\ mpc \in PostDrain /\ gate = "timedout" => gate' = "timedout"
         /\ Counted => mpc' \in {"sealEvent", "seal", "done"}
         /\ mpc' = "sealEvent" /\ mpc # "sealEvent" => mpc = "count"
         /\ mpc' = "seal" /\ mpc # "seal" => mpc = "sealEvent"
         /\ mpc' \in {"lifecycle", "count", "sealEvent", "seal"} => mpc \in PostDrain
  <1>1. CASE UNCHANGED <<mpc, mcont, phase, gate, prepared, refused, shutting>>
    BY <1>1 DEF Counted, PostDrain
  <1>2. CASE Setup
    BY <1>2 DEF Setup, Prepare, PrepareFails, Starting, ServeIpc, ServeIpcFails, Spawn, SpawnFails, LaunchFails,
                Adopt, Attach, Started, Inspect, Unverified, Running, Raise, Counted, PostDrain
  <1>3. CASE Watch
    BY <1>3 DEF Watch, WatchQuit, WatchPoll, CheckHeartbeat, HeartbeatLost, CheckTimeout, TimeoutKill,
                Shutdown, ShutdownKill, Counted, PostDrain
  <1>4. CASE Claim \/ EnsureStopped \/ TerminateNow \/ Judge \/ Decide \/ StopIpc \/ DrainDone
             \/ DrainTimeout
    BY <1>4 DEF Claim, EnsureStopped, TerminateNow, Judge, Conclude, Decide, StopIpc, DrainDone,
                DrainTimeout, Counted, PostDrain
  <1>5. CASE Destroy \/ Destroying
    BY <1>5 DEF TypeOK, MainTyped, Destroy, Destroying, Counted, PostDrain
  <1>6. CASE RecordVanished \/ RecordLifecycle \/ CountEvents \/ RecordSeal \/ Seal
    BY <1>6 DEF RecordVanished, RecordLifecycle, CountEvents, RecordSeal, Seal, Counted, PostDrain,
                ipcVars
  <1>. QED BY <1>1, <1>2, <1>3, <1>4, <1>5, <1>6, MainOnly DEF Main, Finalize

\* How far the trace has grown since its length was read for TRACE_SEALED.
CleanTail ==
  /\ ~Counted => tail = 0
  /\ gate # "timedout" => /\ mpc = "sealEvent" => tail = 0
                          /\ mpc = "seal" \/ sealed => tail = 1

\* The lost client is on record once main has looked for it.
LostKept ==
  gate # "timedout" /\ (mpc \in {"lifecycle", "count", "sealEvent", "seal"} \/ sealed)
    /\ authed /\ ~goodbye => cnt["IPC_LOST"] > 0

\* Each step keeps the tail of a cleanly drained trace to the seal event, and
\* the record of a lost client.
LEMMA CleanStep ==
  TypeOK /\ OrderInv /\ CleanTail /\ LostKept /\ [Next]_vars => CleanTail' /\ LostKept'
  <1> SUFFICES ASSUME TypeOK, OrderInv, CleanTail, LostKept, [Next]_vars
               PROVE  CleanTail' /\ LostKept'
    OBVIOUS
  <1>t. tail \in 0 .. 2 /\ sealed \in BOOLEAN /\ TraceTyped BY DEF TypeOK, TraceTyped
  <1>c. /\ \A k \in Kinds : cnt[k] > 0 => cnt'[k] > 0
        /\ Seal \/ sealed' = sealed
        /\ ~Counted => tail' = tail
    BY CountSteps
  <1>s. sealed => mpc = "done" BY DEF OrderInv, SealedLast
  <1>1. CASE mpc \in PostDrain /\ gate # "timedout"
    <2>a. \A ks : Append(ks) => /\ sealed' = sealed
                                /\ tail' = IF Counted THEN Bump(tail) ELSE tail
                                /\ "IPC_LOST" \in ks => cnt'["IPC_LOST"] = Bump(cnt["IPC_LOST"])
      BY DEF Append, Kinds
    <2>1. CASE RecordVanished
      <3>1. CleanTail'
        BY <2>1, <2>a, <1>s DEF RecordVanished, CleanTail, Counted, traceVars, ipcVars
      <3>2. cnt["IPC_LOST"] \in 0 .. 2 BY <1>t DEF TraceTyped, Kinds
      <3>3. LostKept'
        BY <2>1, <2>a, <1>c, <3>2 DEF RecordVanished, LostKept, clientVars, Bump, Kinds, traceVars
      <3>. QED BY <3>1, <3>3
    <2>2. CASE RecordLifecycle \/ CountEvents
      BY <2>2, <2>a, <1>s, <1>c DEF RecordLifecycle, CountEvents, CleanTail, LostKept, Counted, traceVars,
                        ipcVars, clientVars, Kinds
    <2>3. CASE RecordSeal
      BY <2>3, <2>a, <1>s, <1>c DEF RecordSeal, CleanTail, LostKept, Counted, Bump,
                        ipcVars, clientVars, Kinds
    <2>4. CASE Seal
      BY <2>4, <1>s, <1>c DEF Seal, CleanTail, LostKept, Counted, ipcVars, clientVars, Kinds
    <2>5. CASE Bystander
      BY <2>5 DEF Bystander, CleanTail, LostKept, Counted, mainVars, ipcVars, clientVars, traceVars
    <2>. QED BY <1>1, <2>1, <2>2, <2>3, <2>4, <2>5, AloneStep
  <1>2. CASE mpc \in PostDrain /\ gate = "timedout"
    BY <1>2, <1>c, MainForward DEF CleanTail, LostKept, Counted
  <1>3. CASE mpc \notin PostDrain
    <2>1. ~Counted /\ ~sealed /\ ~Seal BY <1>3, <1>s DEF Counted, PostDrain, Seal
    <2>2. mpc' \notin {"lifecycle", "count", "sealEvent", "seal"} /\ ~sealed' /\ tail' = 0
      BY <1>3, <1>c, <1>t, <2>1, MainForward DEF CleanTail
    <2>. QED BY <2>2 DEF CleanTail, LostKept, Counted
  <1>. QED BY <1>1, <1>2, <1>3

\* Both are invariants of the daemon.
LEMMA CleanHolds == Spec => [](CleanTail /\ LostKept)
  <1>1. Init => CleanTail /\ LostKept BY DEF Init, CleanTail, LostKept, Counted
  <1>. QED BY <1>1, CleanStep, OrderHolds, PTL DEF Spec

\* The length TRACE_SEALED declares is the length of a cleanly drained trace.
THEOREM SealedCountCorrect == Spec => []SealedCountExact
  <1>1. CleanTail => SealedCountExact BY DEF CleanTail, SealedCountExact
  <1>. QED BY <1>1, CleanHolds, PTL

\* No client vanishes from a cleanly drained session without a record.
THEOREM LostClientsRecorded == Spec => []LostClientRecorded
  <1>1. LostKept => LostClientRecorded BY DEF LostKept, LostClientRecorded
  <1>. QED BY <1>1, CleanHolds, PTL

\* No step changes trace, state or kill switch after a clean seal.
THEOREM SealFreezes == Spec => FrozenAfterSeal
  <1>1. TypeOK /\ OrderInv /\ [Next]_vars =>
          [sealed /\ gate # "timedout" => UNCHANGED <<traceVars, st, engaged>>]_vars
    <2> SUFFICES ASSUME TypeOK, OrderInv, [Next]_vars, sealed, gate # "timedout"
                 PROVE  UNCHANGED <<traceVars, st, engaged>>
      OBVIOUS
    <2>1. mpc = "done" BY DEF OrderInv, SealedLast
    <2>2. Bystander
      BY <2>1, AloneStep DEF PostDrain, RecordVanished, RecordLifecycle, CountEvents, RecordSeal, Seal
    <2>. QED BY <2>2 DEF Bystander, watchVars
  <1>. QED BY <1>1, OrderHolds, PTL DEF Spec, FrozenAfterSeal

(***************************************************************************)
(* The accounting of a kill.                                               *)
(***************************************************************************)
\* What the steps of a kill have done, and what is on record because of it.
KillInv ==
  /\ kstep = "engage" => ~engaged
  /\ ~engaged => ~killEvt /\ ~termRec /\ kstep \in {"idle", "engage"}
  /\ kstep \in {"terminate", "event"} => ~killEvt
  /\ killEvt \/ kstep # "idle" \/ ~engaged
  /\ kstep \in {"destroy", "destroying", "account"} => killEvt
  /\ kstep # "idle" => ~termRec
  /\ ~killEvt => cnt["KILL_SWITCH"] = 0
  /\ ~termRec => cnt["PROCESS_TERMINATION"] = 0
  /\ cnt["KILL_SWITCH"] <= 1 /\ cnt["PROCESS_TERMINATION"] <= 1
  /\ gate # "timedout" => /\ engaged /\ kstep = "idle" => termRec
                          /\ killEvt => cnt["KILL_SWITCH"] = 1
                          /\ termRec => cnt["PROCESS_TERMINATION"] = 1

\* How a kill begins: engaged by whoever finds the switch armed, resumed to
\* complete the accounting otherwise.  Only the kill's own steps go on.
LEMMA KillStarts ==
  ASSUME [Next]_vars, LockHeld
  PROVE  \/ KillStep
         \/ /\ UNCHANGED <<engaged, killEvt, termRec>>
            /\ \/ kstep' = kstep
               \/ kstep = "idle" /\ ~engaged /\ kstep' = "engage"
               \/ kstep = "idle" /\ engaged /\ ~termRec /\ kstep' = "destroy"
  <1> DEFINE Starts == \/ kstep' = kstep
                       \/ kstep = "idle" /\ ~engaged /\ kstep' = "engage"
                       \/ kstep = "idle" /\ engaged /\ ~termRec /\ kstep' = "destroy"
  <1>k. ASSUME NEW t, KillLocked(t), lock = "free" PROVE Starts
    BY <1>k DEF KillLocked, StartKill, lockVars, LockHeld
  <1>u. UNCHANGED lockVars => Starts BY DEF lockVars
  <1>w. UNCHANGED watchVars => UNCHANGED <<engaged, killEvt, termRec>> BY DEF watchVars
  <1> SUFFICES KillStep \/ (UNCHANGED <<engaged, killEvt, termRec>> /\ Starts)
    BY DEF Starts
  <1> HIDE DEF Starts
  <1>1. CASE Setup
    BY <1>1, <1>u, <1>w DEF Setup, Prepare, PrepareFails, Starting, ServeIpc, ServeIpcFails,
                Spawn, SpawnFails, LaunchFails, Adopt, Attach, Started, Inspect, Unverified, Running
  <1>2. CASE WatchQuit \/ WatchPoll \/ CheckHeartbeat \/ CheckTimeout \/ Shutdown
    BY <1>2, <1>u, <1>w DEF WatchQuit, WatchPoll, CheckHeartbeat, CheckTimeout, Shutdown
  <1>3. CASE HeartbeatLost \/ TimeoutKill \/ ShutdownKill
    BY <1>3, <1>k, <1>u, <1>w, DaemonAssumption DEF HeartbeatLost, TimeoutKill, ShutdownKill,
                Supervise, SupervisoryActions
  <1>4. CASE Finalize
    BY <1>4, <1>u, <1>w DEF Finalize, Claim, EnsureStopped, TerminateNow, Judge, Decide, Destroy,
                Destroying, StopIpc, DrainDone, DrainTimeout, RecordVanished, RecordLifecycle,
                CountEvents, RecordSeal, Seal
  <1>5. ASSUME NEW w \in Workers,
               Accept(w) \/ ClientConnected(w) \/ ClientAuthenticated(w) \/ ProtocolViolation(w)
                 \/ Leave(w) \/ (\E kind \in Requests : Admit(w, kind)) \/ Dispatch(w) \/ Sanitize(w)
                 \/ HandleEvent(w) \/ HandleHeartbeat(w) \/ HandleSessionEnd(w)
        PROVE  UNCHANGED <<engaged, killEvt, termRec>> /\ Starts
    BY <1>5, <1>u, <1>w DEF Accept, ClientConnected, ClientAuthenticated, ProtocolViolation, Leave,
         Admit, Dispatch, Sanitize, HandleEvent, HandleHeartbeat, HandleSessionEnd
  <1>6. ASSUME NEW w \in Workers,
               ClientDisconnected(w) \/ HandleKillRequest(w)
        PROVE  UNCHANGED <<engaged, killEvt, termRec>> /\ Starts
    BY <1>6, <1>k, <1>u, <1>w, DaemonAssumption DEF ClientDisconnected, HandleKillRequest, Handles,
         Supervise, SupervisoryActions
  <1>7. ASSUME NEW w \in Workers, HandleEvaluate(w)
        PROVE  UNCHANGED <<engaged, killEvt, termRec>> /\ Starts
    <2>1. lock = "free" /\ UNCHANGED <<engaged, killEvt, termRec>> BY <1>7 DEF HandleEvaluate, Handles
    <2>2. ~engaged /\ StartKill(w, attached) => Starts
      BY <2>1 DEF StartKill, Starts, LockHeld
    <2>. QED BY <1>7, <2>1, <2>2, <1>k, <1>u DEF HandleEvaluate
  <1>8. CASE Stop BY <1>8, <1>k, <1>u, <1>w DEF Stop
  <1>9. CASE StopQuits \/ RequestShutdown \/ WorkloadExits \/ HeartbeatAges \/ LimitPasses
             \/ UNCHANGED vars
    BY <1>9, <1>u, <1>w DEF StopQuits, RequestShutdown, WorkloadExits, HeartbeatAges, LimitPasses, vars
  <1>. QED
    BY <1>1, <1>2, <1>3, <1>4, <1>5, <1>6, <1>7, <1>8, <1>9
       DEF Next, Main, Watch, Worker, Returned

\* Each step keeps the accounting: the kill moves on by its own steps alone, and
\* nobody else records its two events.
LEMMA KillInvStep == TypeOK /\ OrderInv /\ KillInv /\ [Next]_vars => KillInv'
  <1> SUFFICES ASSUME TypeOK, OrderInv, KillInv, [Next]_vars PROVE KillInv' OBVIOUS
  <1>t. /\ engaged \in BOOLEAN /\ killEvt \in BOOLEAN /\ termRec \in BOOLEAN
        /\ kstep \in KillSteps /\ cnt["KILL_SWITCH"] \in 0 .. 2
        /\ cnt["PROCESS_TERMINATION"] \in 0 .. 2
    BY DEF TypeOK, WatchTyped, LockTyped, TraceTyped, Kinds
  <1>g. gate = "timedout" => gate' = "timedout"
    BY MainForward DEF OrderInv, Gated
  <1>o. kstep # "idle" /\ gate # "timedout" => ~sealed
    BY DEF OrderInv, LockHeld, Alone, SealedLast, PostDrain
  <1>c. /\ KillEvent \/ cnt'["KILL_SWITCH"] = cnt["KILL_SWITCH"]
        /\ KillAccount \/ cnt'["PROCESS_TERMINATION"] = cnt["PROCESS_TERMINATION"]
    BY CountSteps
  <1>a. ASSUME NEW ks, Append(ks), NEW k \in ks \cap Kinds PROVE cnt'[k] = Bump(cnt[k])
    BY <1>a DEF Append
  <1>1. CASE ~KillStep
    <2>1. ~KillEvent /\ ~KillAccount BY <1>1 DEF KillStep
    <2>2. LockHeld BY DEF OrderInv
    <2>3. /\ UNCHANGED <<engaged, killEvt, termRec>>
          /\ \/ kstep' = kstep
             \/ kstep = "idle" /\ ~engaged /\ kstep' = "engage"
             \/ kstep = "idle" /\ engaged /\ ~termRec /\ kstep' = "destroy"
      BY <1>1, <2>2, KillStarts
    <2>. QED BY <2>1, <2>3, <1>c, <1>g, <1>t DEF KillInv
  <1>2. CASE KillEngage
    <2>1. ~KillEvent /\ ~KillAccount BY <1>2 DEF KillEngage, KillEvent, KillAccount
    <2>. QED BY <1>2, <2>1, <1>c, <1>g, <1>t DEF KillEngage, KillInv
  <1>3. CASE KillTerminate
    <2>1. ~KillEvent /\ ~KillAccount BY <1>3 DEF KillTerminate, KillEvent, KillAccount
    <2>. QED BY <1>3, <2>1, <1>c, <1>g, <1>t DEF KillTerminate, KillInv, watchVars
  <1>4. CASE KillEvent
    <2>1. ~KillAccount BY <1>4 DEF KillEvent, KillAccount
    <2>2. ~killEvt /\ engaged /\ ~termRec BY <1>4, <1>t DEF KillEvent, KillInv
    <2>3. /\ killEvt' = TRUE /\ engaged' = engaged /\ termRec' = termRec /\ gate' = gate
          /\ \/ sealed /\ kstep' = "idle" /\ cnt'["KILL_SWITCH"] = cnt["KILL_SWITCH"]
             \/ kstep' = "destroy" /\ cnt'["KILL_SWITCH"] = Bump(cnt["KILL_SWITCH"])
      BY <1>4, <2>2, <1>a DEF KillEvent, Release, traceVars, ipcVars, Kinds
    <2>4. cnt["KILL_SWITCH"] = 0 BY <2>2 DEF KillInv
    <2>5. kstep # "idle" BY <1>4 DEF KillEvent
    <2>. QED BY <2>1, <2>2, <2>3, <2>4, <2>5, <1>o, <1>c, <1>t DEF KillInv, Bump
  <1>5. CASE KillDestroy
    <2>1. ~KillEvent /\ ~KillAccount BY <1>5 DEF KillDestroy, KillEvent, KillAccount
    <2>2. /\ UNCHANGED <<engaged, killEvt, termRec>> /\ gate' = gate /\ kstep = "destroy"
          /\ \/ kstep' \in {"account", "destroying"}
             \/ sealed /\ kstep' = "idle"
      BY <1>5 DEF KillDestroy, Release, watchVars, ipcVars
    <2>. QED BY <2>1, <2>2, <1>o, <1>c, <1>t DEF KillInv
  <1>6. CASE KillDestroying
    <2>1. ~KillEvent /\ ~KillAccount BY <1>6 DEF KillDestroying, KillEvent, KillAccount
    <2>2. /\ UNCHANGED <<engaged, killEvt, termRec>> /\ gate' = gate /\ kstep = "destroying"
          /\ \/ kstep' = "account"
             \/ sealed /\ kstep' = "idle"
      BY <1>6 DEF KillDestroying, Release, watchVars, ipcVars
    <2>. QED BY <2>1, <2>2, <1>o, <1>c, <1>t DEF KillInv
  <1>7. CASE KillAccount
    <2>1. ~KillEvent BY <1>7 DEF KillEvent, KillAccount
    <2>2. ~termRec /\ engaged /\ killEvt BY <1>7, <1>t DEF KillAccount, KillInv
    <2>3. /\ termRec' = TRUE /\ UNCHANGED <<engaged, killEvt>> /\ gate' = gate /\ kstep' = "idle"
          /\ kstep # "idle"
          /\ \/ sealed /\ cnt'["PROCESS_TERMINATION"] = cnt["PROCESS_TERMINATION"]
             \/ cnt'["PROCESS_TERMINATION"] = Bump(cnt["PROCESS_TERMINATION"])
      BY <1>7, <2>2, <1>a DEF KillAccount, Release, traceVars, ipcVars, Kinds
    <2>4. cnt["PROCESS_TERMINATION"] = 0 BY <2>2 DEF KillInv
    <2>. QED BY <2>1, <2>2, <2>3, <2>4, <1>o, <1>c, <1>t DEF KillInv, Bump
  <1>. QED BY <1>1, <1>2, <1>3, <1>4, <1>5, <1>6, <1>7 DEF KillStep

\* The accounting of a kill is an invariant of the daemon.
LEMMA KillInvHolds == Spec => []KillInv
  <1>1. Init => KillInv BY DEF Init, KillInv, Kinds
  <1>. QED BY <1>1, KillInvStep, OrderHolds, PTL DEF Spec

\* Every kill is accounted for once, and completely before a clean seal.
THEOREM KillsAccounted == Spec => []KillAccountedOnce
  <1>1. TypeOK /\ OrderInv /\ KillInv => KillAccountedOnce
    <2> SUFFICES ASSUME TypeOK, OrderInv, KillInv PROVE KillAccountedOnce OBVIOUS
    <2>1. sealed /\ gate # "timedout" => kstep = "idle"
      BY DEF OrderInv, LockHeld, Alone, SealedLast, PostDrain
    <2>. QED BY <2>1 DEF KillInv, KillAccountedOnce
  <1>. QED BY <1>1, OrderHolds, KillInvHolds, PTL

(***************************************************************************)
(* The workload.                                                           *)
(***************************************************************************)
\* The root leaves with an exit status, and only once.
Departs == IF Alive /\ "root" \notin tree' THEN code' \in {"zero", "nonzero"} ELSE code' = code

\* After the spawn processes only disappear, and only a termination of a
\* running root is a forced one.
LEMMA TreeSteps ==
  ASSUME TypeOK, [Next]_vars
  PROVE  /\ Spawn \/ (tree' \subseteq tree /\ Departs)
         /\ KillTerminate \/ KillDestroying \/ LaunchFails \/ TerminateNow \/ Destroying
              \/ forced' = forced
         /\ ~Alive => forced' = forced
  <1>t. forced \in BOOLEAN BY DEF TypeOK, ProcTyped
  <1>l. ASSUME NEW S \in SUBSET tree, Leaves(S)
        PROVE  tree' \subseteq tree /\ Departs /\ (~Alive => forced' = forced)
    BY <1>l, <1>t DEF Leaves, Departs, Alive
  <1>u. UNCHANGED procVars => tree' \subseteq tree /\ Departs /\ forced' = forced
    BY DEF procVars, Departs, Alive
  <1>1. CASE KillTerminate BY <1>1, <1>l, <1>u DEF KillTerminate, TerminateTree
  <1>2. CASE KillDestroying BY <1>2, <1>l DEF KillDestroying, DestroyUnit
  <1>3. CASE KillEngage \/ KillEvent \/ KillDestroy \/ KillAccount
    BY <1>3, <1>u DEF KillEngage, KillEvent, KillDestroy, KillAccount
  <1>4. CASE Spawn BY <1>4 DEF Spawn
  <1>5. CASE Prepare \/ PrepareFails \/ Starting \/ ServeIpc \/ ServeIpcFails \/ SpawnFails \/ Adopt
             \/ Attach \/ Started \/ Inspect \/ Unverified \/ Running
    BY <1>5, <1>u DEF Prepare, PrepareFails, Starting, ServeIpc, ServeIpcFails, SpawnFails, Adopt,
                      Attach, Started, Inspect, Unverified, Running
  <1>6. CASE Watch
    BY <1>6, <1>u DEF Watch, WatchQuit, WatchPoll, CheckHeartbeat, HeartbeatLost, CheckTimeout,
                      TimeoutKill, Shutdown, ShutdownKill
  <1>7. CASE TerminateNow \/ LaunchFails
    BY <1>7, <1>l, <1>u DEF TerminateNow, LaunchFails, TerminateTree
  <1>8. CASE Destroying BY <1>8, <1>l DEF Destroying, DestroyUnit
  <1>9. CASE Claim \/ EnsureStopped \/ Judge \/ Decide \/ Destroy \/ StopIpc \/ DrainDone
             \/ DrainTimeout \/ RecordVanished \/ RecordLifecycle \/ CountEvents \/ RecordSeal \/ Seal
    BY <1>9, <1>u DEF Claim, EnsureStopped, Judge, Decide, Destroy, StopIpc, DrainDone, DrainTimeout,
                      RecordVanished, RecordLifecycle, CountEvents, RecordSeal, Seal
  <1>10. ASSUME NEW w \in Workers, Worker(w) PROVE UNCHANGED procVars
    BY <1>10 DEF Worker, Accept, ClientConnected, ClientAuthenticated, ProtocolViolation, Leave,
           ClientDisconnected, Admit, Dispatch, Sanitize, HandleEvaluate, HandleEvent,
           HandleHeartbeat, HandleKillRequest, HandleSessionEnd
  <1>11. CASE WorkloadExits BY <1>11 DEF WorkloadExits, Departs, Alive
  <1>12. CASE Stop \/ StopQuits \/ RequestShutdown \/ HeartbeatAges \/ LimitPasses \/ UNCHANGED vars
    BY <1>12, <1>u DEF Stop, StopQuits, RequestShutdown, HeartbeatAges, LimitPasses, vars
  <1>. QED
    BY <1>1, <1>2, <1>3, <1>4, <1>5, <1>6, <1>7, <1>8, <1>9, <1>10, <1>11, <1>12, <1>u
    DEF Next, Main, Setup, Finalize, KillStep, Returned

\* The handles are set by main, and the outcome of a destruction by whoever
\* destroys the unit.
LEMMA HandleSteps ==
  ASSUME [Next]_vars
  PROVE  /\ Adopt \/ (known' = known /\ unit' = unit)
         /\ KillDestroying \/ Destroying \/ contTerm' = contTerm
  <1>u. UNCHANGED handleVars => UNCHANGED <<known, unit, contTerm>> BY DEF handleVars
  <1>1. CASE KillStep
    BY <1>1, <1>u DEF KillStep, KillEngage, KillTerminate, KillEvent, KillDestroy, KillDestroying,
                      KillAccount
  <1>2. CASE Setup
    BY <1>2, <1>u DEF Setup, Prepare, PrepareFails, Starting, ServeIpc, ServeIpcFails, Spawn,
                      SpawnFails, LaunchFails, Adopt, Attach, Started, Inspect, Unverified, Running
  <1>3. CASE Watch
    BY <1>3, <1>u DEF Watch, WatchQuit, WatchPoll, CheckHeartbeat, HeartbeatLost, CheckTimeout,
                      TimeoutKill, Shutdown, ShutdownKill
  <1>4. CASE Finalize
    BY <1>4, <1>u DEF Finalize, Claim, EnsureStopped, TerminateNow, Judge, Decide, Destroy,
                Destroying, StopIpc, DrainDone, DrainTimeout, RecordVanished, RecordLifecycle,
                CountEvents, RecordSeal, Seal
  <1>5. ASSUME NEW w \in Workers, Worker(w) PROVE UNCHANGED handleVars
    BY <1>5 DEF Worker, Accept, ClientConnected, ClientAuthenticated, ProtocolViolation, Leave,
           ClientDisconnected, Admit, Dispatch, Sanitize, HandleEvaluate, HandleEvent,
           HandleHeartbeat, HandleKillRequest, HandleSessionEnd
  <1>6. CASE Stop \/ StopQuits \/ RequestShutdown \/ WorkloadExits \/ HeartbeatAges \/ LimitPasses
             \/ UNCHANGED vars
    BY <1>6, <1>u DEF Stop, StopQuits, RequestShutdown, WorkloadExits, HeartbeatAges, LimitPasses, vars
  <1>. QED BY <1>1, <1>2, <1>3, <1>4, <1>5, <1>6, <1>u DEF Next, Main, Returned

\* Positions at which _ensure_workload_stopped has reported its phase, and
\* those after the last _destroy_unit.
Destroyed == mpc \in {"drain", "drainwait"} \cup PostDrain
Judged == \/ mpc = "decide" \/ Destroyed
          \/ mpc \in {"destroy", "destroying"} /\ mcont = "drain"

\* What is known about the workload before and after it has its handle.
Handles0 ==
  /\ mpc \in {"prepare", "starting", "serve", "spawn"} =>
       tree = {} /\ code = "none" /\ ~known
  /\ mpc = "adopt" => ~known
  /\ Alive => code = "none"

\* A unit, its destruction, and what the destruction showed.
Units ==
  /\ unit <=> Enforced /\ known
  /\ kstep = "destroying" \/ mpc = "destroying" \/ contTerm # "none" => unit
  /\ contTerm = "empty" => tree = {}
  /\ contTerm = "survivors" => cnt["KILL_FAILED"] > 0
  /\ Destroyed /\ unit => contTerm # "none"

\* What each reported phase means.
PhaseMeans ==
  /\ phase # "none" <=> Judged
  /\ phase = "already_exited" => known /\ ~Alive
  /\ phase = "not_started" => ~known
  /\ phase = "terminated" => ~Alive
  /\ phase = "termination_unverified" <=> cnt["TERMINATION_UNVERIFIED"] > 0
  /\ cnt["PROCESS_EXITED"] > 0 => phase = "already_exited"

WorkInv == Handles0 /\ Units /\ PhaseMeans

\* Each step keeps what is known about the workload.
LEMMA WorkStep == TypeOK /\ OrderInv /\ WorkInv /\ [Next]_vars => WorkInv'
  <1> SUFFICES ASSUME TypeOK, OrderInv, WorkInv, [Next]_vars PROVE WorkInv' OBVIOUS
  <1>t. /\ mcont \in {"drain", "judge", "unverified"} /\ Enforced \in BOOLEAN
        /\ known \in BOOLEAN /\ unit \in BOOLEAN
        /\ \A k \in Kinds : cnt[k] \in 0 .. 2
        /\ \A k \in Kinds : cnt'[k] \in 0 .. 2
    <2>1. TypeOK' BY TypeStep
    <2>. QED BY <2>1, DaemonAssumption DEF TypeOK, MainTyped, HandleTyped, TraceTyped
  <1>c. /\ KillDestroying \/ Destroying \/ cnt'["KILL_FAILED"] = cnt["KILL_FAILED"]
        /\ TerminateNow \/ Judge
              \/ cnt'["TERMINATION_UNVERIFIED"] = cnt["TERMINATION_UNVERIFIED"]
        /\ RecordLifecycle \/ cnt'["PROCESS_EXITED"] = cnt["PROCESS_EXITED"]
        /\ cnt["KILL_FAILED"] > 0 => cnt'["KILL_FAILED"] > 0
        /\ cnt["TERMINATION_UNVERIFIED"] > 0 => cnt'["TERMINATION_UNVERIFIED"] > 0
    BY CountSteps DEF Kinds
  <1>a. ASSUME NEW ks, Append(ks), NEW k \in ks \cap Kinds PROVE cnt'[k] > 0
    BY <1>a, <1>t DEF Append, Bump
  <1>h. /\ Adopt \/ (known' = known /\ unit' = unit)
        /\ KillDestroying \/ Destroying \/ contTerm' = contTerm
    BY HandleSteps
  <1>p. Spawn \/ (tree' \subseteq tree /\ Departs) BY TreeSteps
  <1>k. kstep' # "destroying" \/ kstep' = kstep \/ NeedsDestroy
    <2>1. KillStep => kstep' # "destroying" \/ NeedsDestroy
      BY DEF KillStep, KillEngage, KillTerminate, KillEvent, KillDestroy, KillDestroying,
             KillAccount, Release
    <2>. QED BY <2>1, KillStarts DEF OrderInv
  <1>k2. KillDestroying => kstep = "destroying" BY DEF KillDestroying
  <1>d. ASSUME KillDestroying \/ Destroying
        PROVE  \/ /\ contTerm' = "empty" /\ tree' = {}
               \/ /\ contTerm' = "survivors" /\ cnt'["KILL_FAILED"] > 0
               \/ contTerm' = contTerm
    <2>1. DestroyUnit \/ contTerm' = contTerm BY <1>d DEF KillDestroying, Destroying
    <2>2. ASSUME DestroyUnit
          PROVE  \/ /\ contTerm' = "empty" /\ tree' = {}
                 \/ /\ contTerm' = "survivors" /\ cnt'["KILL_FAILED"] > 0
      <3> PICK S \in SUBSET tree :
             /\ Leaves(S)
             /\ contTerm' = IF S = {} THEN "empty" ELSE "survivors"
             /\ Append(IF S = {} THEN {} ELSE {"KILL_FAILED"})
        BY <2>2 DEF DestroyUnit
      <3>1. CASE S = {} BY <3>1 DEF Leaves
      <3>2. CASE S # {}
        <4>1. Append({"KILL_FAILED"}) /\ contTerm' = "survivors" BY <3>2
        <4>. QED BY <4>1, <1>a DEF Kinds
      <3>. QED BY <3>1, <3>2
    <2>. QED BY <2>1, <2>2
  <1> USE <1>t
  <1>1. CASE UNCHANGED <<mpc, mcont, phase>>
    <2>1. ~Adopt /\ ~Spawn /\ ~TerminateNow /\ ~Judge /\ ~RecordLifecycle /\ ~Destroying
      BY <1>1 DEF Adopt, Spawn, TerminateNow, Judge, Conclude, RecordLifecycle, Destroying
    <2>2. Handles0' BY <1>1, <1>h, <1>p, <2>1 DEF WorkInv, Handles0, Alive, Departs
    <2>3. Units'
      <3>1. CASE KillDestroying
        <4>0. kstep = "destroying" BY <1>k2, <3>1
        <4>a. unit BY <4>0 DEF WorkInv, Units
        <4>b. known' = known /\ unit' = unit BY <1>h, <2>1
        <4>c. tree' \subseteq tree BY <1>p, <2>1
        <4>1. unit /\ unit' /\ tree' \subseteq tree /\ known' = known BY <4>a, <4>b, <4>c
        <4>2. \/ /\ contTerm' = "empty" /\ tree' = {}
              \/ /\ contTerm' = "survivors" /\ cnt'["KILL_FAILED"] > 0
              \/ contTerm' = contTerm
          BY <1>d, <3>1
        <4>3. /\ contTerm' = "empty" => tree' = {}
              /\ contTerm' = "survivors" => cnt'["KILL_FAILED"] > 0
              /\ contTerm # "none" => contTerm' # "none"
          BY <4>1, <4>2, <1>c DEF WorkInv, Units
        <4>4. unit' <=> Enforced /\ known' BY <4>1, <1>h, <2>1 DEF WorkInv, Units
        <4>. QED BY <1>1, <4>1, <4>3, <4>4 DEF WorkInv, Units, Destroyed
      <3>2. CASE ~KillDestroying
        BY <1>1, <1>h, <1>p, <1>c, <1>k, <2>1, <3>2 DEF WorkInv, Units, Destroyed, NeedsDestroy
      <3>. QED BY <3>1, <3>2
    <2>4. PhaseMeans'
      BY <1>1, <1>h, <1>p, <1>c, <2>1 DEF WorkInv, PhaseMeans, Judged, Destroyed, Alive
    <2>. QED BY <2>2, <2>3, <2>4 DEF WorkInv
  <1>n. ASSUME ~Destroying, ~KillDestroying PROVE contTerm' = contTerm
    BY <1>n, <1>h
  <1>2. CASE mpc' # mpc /\ (Prepare \/ PrepareFails \/ Starting \/ ServeIpc \/ ServeIpcFails
                            \/ SpawnFails \/ Attach \/ Started \/ Inspect \/ Unverified \/ Running)
    <2>1. /\ UNCHANGED <<tree, code, forced, known, unit, contTerm, kstep, phase>>
          /\ mpc \in {"prepare", "starting", "serve", "spawn", "attach", "started", "inspect",
                      "unverified", "running"}
          /\ \/ mpc' \in {"starting", "serve", "spawn"} /\ mpc \in {"prepare", "starting", "serve"}
             \/ mpc' \in {"claim", "started", "inspect", "running", "watch"}
             \/ mpc' = "destroy" /\ mcont' = "unverified"
      BY <1>2 DEF Prepare, PrepareFails, Starting, ServeIpc, ServeIpcFails, SpawnFails, Attach, Started,
                  Inspect, Unverified, Running, Raise, procVars, handleVars, lockVars
    <2>2. ~TerminateNow /\ ~Judge /\ ~RecordLifecycle
      BY <2>1 DEF TerminateNow, Judge, RecordLifecycle
    <2>3. Handles0' BY <2>1 DEF WorkInv, Handles0, Alive
    <2>4. Units' BY <2>1, <1>c DEF WorkInv, Units, Destroyed, PostDrain
    <2>5. PhaseMeans'
      BY <2>1, <2>2, <1>c DEF WorkInv, PhaseMeans, Judged, Destroyed, PostDrain, Alive
    <2>. QED BY <2>3, <2>4, <2>5 DEF WorkInv
  <1>13. CASE LaunchFails
    <2>1. /\ UNCHANGED <<known, unit, contTerm, kstep, phase, mcont>>
          /\ mpc = "adopt" /\ mpc' = "claim"
      BY <1>13 DEF LaunchFails, Raise, handleVars, lockVars
    <2>2. ~TerminateNow /\ ~Judge /\ ~RecordLifecycle /\ ~Spawn
      BY <2>1 DEF TerminateNow, Judge, RecordLifecycle, Spawn
    <2>3. Handles0' BY <2>1, <2>2, <1>p DEF WorkInv, Handles0, Alive, Departs
    <2>4. Units' BY <2>1, <2>2, <1>p, <1>c DEF WorkInv, Units, Destroyed, PostDrain
    <2>5. PhaseMeans'
      BY <2>1, <2>2, <1>c DEF WorkInv, PhaseMeans, Judged, Destroyed, PostDrain
    <2>. QED BY <2>3, <2>4, <2>5 DEF WorkInv
  <1>3. CASE Spawn \/ Adopt
    <2>1. /\ UNCHANGED <<code, forced, contTerm, kstep, phase, mcont>>
          /\ \/ mpc = "spawn" /\ mpc' = "adopt" /\ UNCHANGED <<known, unit>>
             \/ mpc = "adopt" /\ mpc' = "attach" /\ tree' = tree /\ known' = TRUE /\ unit' = Enforced
      BY <1>3 DEF Spawn, Adopt, procVars, handleVars, lockVars
    <2>2. ~TerminateNow /\ ~Judge /\ ~RecordLifecycle
      BY <2>1 DEF TerminateNow, Judge, RecordLifecycle
    <2>3. Handles0' BY <2>1 DEF WorkInv, Handles0, Alive
    <2>4. Units' BY <2>1, <1>c DEF WorkInv, Units, Handles0, Destroyed, PostDrain
    <2>5. PhaseMeans'
      BY <2>1, <2>2, <1>c DEF WorkInv, PhaseMeans, Judged, Destroyed, PostDrain
    <2>. QED BY <2>3, <2>4, <2>5 DEF WorkInv
  <1>4. CASE mpc' # mpc /\ (Watch \/ Claim)
    <2>1. /\ UNCHANGED <<tree, code, forced, known, unit, contTerm, phase, mcont>>
          /\ mpc \in {"watch", "beat", "beatlost", "limit", "timeout", "shutdown", "askkill", "claim"}
          /\ mpc' \in {"watch", "beat", "beatlost", "limit", "timeout", "shutdown", "askkill", "claim",
                       "ensure"}
      BY <1>4 DEF Watch, WatchQuit, WatchPoll, CheckHeartbeat, HeartbeatLost, CheckTimeout, TimeoutKill,
                  Shutdown, ShutdownKill, Claim, procVars, handleVars
    <2>2. ~TerminateNow /\ ~Judge /\ ~RecordLifecycle
      BY <2>1 DEF TerminateNow, Judge, RecordLifecycle
    <2>3. Handles0' BY <2>1 DEF WorkInv, Handles0, Alive
    <2>4. Units' BY <2>1, <1>c, <1>k DEF WorkInv, Units, Destroyed, PostDrain, NeedsDestroy
    <2>5. PhaseMeans'
      BY <2>1, <2>2, <1>c DEF WorkInv, PhaseMeans, Judged, Destroyed, PostDrain, Alive
    <2>. QED BY <2>3, <2>4, <2>5 DEF WorkInv
  <1>5. CASE EnsureStopped
    <2>1. /\ UNCHANGED <<tree, code, forced, known, unit, contTerm, kstep>> /\ mpc = "ensure"
          /\ \/ mpc' = "destroy" /\ mcont' = "judge" /\ phase' = phase
             \/ mpc' = "terminate" /\ phase' = phase
             \/ /\ mpc' = "decide" /\ ~(known /\ Alive)
                /\ phase' = IF known THEN "already_exited" ELSE "not_started"
      BY <1>5 DEF EnsureStopped, procVars, handleVars, lockVars
    <2>2. ~TerminateNow /\ ~Judge /\ ~RecordLifecycle
      BY <2>1 DEF TerminateNow, Judge, RecordLifecycle
    <2>3. Handles0' BY <2>1 DEF WorkInv, Handles0, Alive
    <2>4. Units' BY <2>1, <1>c DEF WorkInv, Units, Destroyed, PostDrain
    <2>5. phase = "none" BY <2>1 DEF WorkInv, PhaseMeans, Judged, Destroyed, PostDrain
    <2>6. PhaseMeans'
      BY <2>1, <2>2, <2>5, <1>c DEF WorkInv, PhaseMeans, Judged, Destroyed, PostDrain, Alive
    <2>. QED BY <2>3, <2>4, <2>6 DEF WorkInv
  <1>6. CASE TerminateNow \/ Judge
    <2>1. /\ UNCHANGED <<known, unit, contTerm, kstep, mcont>> /\ mpc \in {"terminate", "judge"}
          /\ mpc' = "decide"
      BY <1>6 DEF TerminateNow, Judge, Conclude, handleVars, lockVars
    <2>2. ~Spawn /\ ~RecordLifecycle BY <2>1 DEF Spawn, RecordLifecycle
    <2>3. PICK verified \in BOOLEAN : Conclude(verified) /\ (verified => "root" \notin tree')
      <3>1. CASE TerminateNow BY <3>1 DEF TerminateNow
      <3>2. CASE Judge
        <4>1. Conclude(contTerm = "empty") /\ tree' = tree BY <3>2 DEF Judge, procVars
        <4>2. contTerm = "empty" => tree = {} BY DEF WorkInv, Units
        <4>. QED BY <4>1, <4>2
      <3>. QED BY <1>6, <3>1, <3>2
    <2>4. Handles0' BY <2>1, <2>2, <1>p DEF WorkInv, Handles0, Alive, Departs
    <2>5. Units' BY <2>1, <2>2, <1>c, <1>p DEF WorkInv, Units, Destroyed, PostDrain
    <2>6. phase = "none" BY <2>1 DEF WorkInv, PhaseMeans, Judged, Destroyed, PostDrain
    <2>7. cnt["TERMINATION_UNVERIFIED"] = 0 /\ cnt'["PROCESS_EXITED"] = cnt["PROCESS_EXITED"]
      BY <2>2, <2>6, <1>c DEF WorkInv, PhaseMeans, Kinds
    <2>8. CASE verified
      <3>1. phase' = "terminated" /\ cnt'["TERMINATION_UNVERIFIED"] = 0 /\ "root" \notin tree'
        BY <2>3, <2>7, <2>8 DEF Conclude, Append, Kinds
      <3>2. PhaseMeans'
        BY <2>1, <2>6, <2>7, <3>1 DEF WorkInv, PhaseMeans, Judged, Destroyed, PostDrain, Alive
      <3>. QED BY <2>4, <2>5, <3>2 DEF WorkInv
    <2>9. CASE ~verified
      <3>1. phase' = "termination_unverified" /\ cnt'["TERMINATION_UNVERIFIED"] > 0
        BY <2>3, <2>9, <1>a DEF Conclude, Kinds
      <3>2. PhaseMeans'
        BY <2>1, <2>6, <2>7, <3>1 DEF WorkInv, PhaseMeans, Judged, Destroyed, PostDrain
      <3>. QED BY <2>4, <2>5, <3>2 DEF WorkInv
    <2>. QED BY <2>8, <2>9
  <1>7. CASE Decide
    <2>1. /\ UNCHANGED <<tree, code, forced, known, unit, contTerm, kstep, phase>> /\ mpc = "decide"
          /\ mpc' = "destroy" /\ mcont' = "drain"
      BY <1>7 DEF Decide, procVars, handleVars, lockVars
    <2>2. ~TerminateNow /\ ~Judge /\ ~RecordLifecycle
      BY <2>1 DEF TerminateNow, Judge, RecordLifecycle
    <2>3. Handles0' BY <2>1 DEF WorkInv, Handles0, Alive
    <2>4. Units' BY <2>1, <1>c DEF WorkInv, Units, Destroyed, PostDrain
    <2>5. PhaseMeans'
      BY <2>1, <2>2, <1>c DEF WorkInv, PhaseMeans, Judged, Destroyed, PostDrain, Alive
    <2>. QED BY <2>3, <2>4, <2>5 DEF WorkInv
  <1>8. CASE Destroy
    <2>1. /\ UNCHANGED <<tree, code, forced, known, unit, contTerm, kstep, phase, mcont>>
          /\ mpc = "destroy"
          /\ \/ mpc' = "destroying" /\ NeedsDestroy
             \/ mpc' = mcont /\ ~NeedsDestroy
      BY <1>8 DEF Destroy, procVars, handleVars, lockVars
    <2>2. ~TerminateNow /\ ~Judge /\ ~RecordLifecycle
      BY <2>1 DEF TerminateNow, Judge, RecordLifecycle
    <2>3. Handles0' BY <2>1 DEF WorkInv, Handles0, Alive
    <2>4. Units' BY <2>1, <1>c DEF WorkInv, Units, Destroyed, PostDrain, NeedsDestroy
    <2>5. PhaseMeans'
      BY <2>1, <2>2, <1>c DEF WorkInv, PhaseMeans, Judged, Destroyed, PostDrain, Alive
    <2>. QED BY <2>3, <2>4, <2>5 DEF WorkInv
  <1>9. CASE Destroying
    <2>1. /\ UNCHANGED <<known, unit, kstep, phase, mcont>> /\ mpc = "destroying" /\ mpc' = mcont
      BY <1>9 DEF Destroying, lockVars
    <2>2. ~TerminateNow /\ ~Judge /\ ~RecordLifecycle /\ ~Spawn
      BY <2>1 DEF TerminateNow, Judge, RecordLifecycle, Spawn
    <2>3. Handles0' BY <2>1, <2>2, <1>p DEF WorkInv, Handles0, Alive, Departs
    <2>4. Units'
      <3>1. DestroyUnit BY <1>9 DEF Destroying
      <3>2. contTerm' # "none" BY <3>1 DEF DestroyUnit
      <3>3. unit BY <2>1 DEF WorkInv, Units
      <3>4. /\ contTerm' = "empty" => tree' = {}
            /\ contTerm' = "survivors" => cnt'["KILL_FAILED"] > 0
        BY <1>9, <1>d, <1>c, <1>p, <2>2 DEF WorkInv, Units
      <3>. QED BY <2>1, <3>2, <3>3, <3>4 DEF WorkInv, Units, Destroyed
    <2>5. PhaseMeans'
      BY <2>1, <2>2, <1>c, <1>p DEF WorkInv, PhaseMeans, Judged, Destroyed, PostDrain, Alive
    <2>. QED BY <2>3, <2>4, <2>5 DEF WorkInv
  <1>10. CASE mpc' # mpc /\ (StopIpc \/ DrainDone \/ DrainTimeout \/ RecordVanished \/ RecordLifecycle
                             \/ CountEvents \/ RecordSeal \/ Seal)
    <2>1. /\ UNCHANGED <<tree, code, forced, known, unit, contTerm, kstep, phase, mcont>>
          /\ mpc \in {"drain", "drainwait"} \cup PostDrain
          /\ mpc' \in {"drain", "drainwait"} \cup PostDrain
      BY <1>10 DEF StopIpc, DrainDone, DrainTimeout, RecordVanished, RecordLifecycle, CountEvents,
                   RecordSeal, Seal, PostDrain, procVars, handleVars, lockVars
    <2>2. ~TerminateNow /\ ~Judge BY <2>1 DEF TerminateNow, Judge, PostDrain
    <2>3. Handles0' BY <2>1 DEF WorkInv, Handles0, Alive, PostDrain
    <2>4. Units' BY <2>1, <1>c DEF WorkInv, Units, Destroyed, PostDrain
    <2>5. cnt'["PROCESS_EXITED"] > 0 => phase = "already_exited"
      <3>1. CASE RecordLifecycle /\ phase # "already_exited"
        BY <3>1 DEF RecordLifecycle, Append, Kinds, WorkInv, PhaseMeans
      <3>. QED BY <3>1, <1>c DEF WorkInv, PhaseMeans
    <2>6. PhaseMeans'
      BY <2>1, <2>2, <2>5, <1>c DEF WorkInv, PhaseMeans, Judged, Destroyed, PostDrain, Alive
    <2>. QED BY <2>3, <2>4, <2>6 DEF WorkInv
  <1>11. CASE Main /\ mpc' # mpc
    BY <1>2, <1>3, <1>4, <1>5, <1>6, <1>7, <1>8, <1>9, <1>10, <1>11, <1>13
       DEF Main, Setup, Finalize
  <1>12. CASE Main /\ mpc' = mpc
    <2>1. FALSE
      BY <1>12 DEF Main, Setup, Watch, Finalize, Prepare, PrepareFails, Starting, ServeIpc,
           ServeIpcFails, Spawn, SpawnFails, LaunchFails, Adopt, Attach, Started, Inspect, Unverified, Running, Raise,
           WatchQuit, WatchPoll, CheckHeartbeat, HeartbeatLost, CheckTimeout, TimeoutKill, Shutdown,
           ShutdownKill, Claim, EnsureStopped, TerminateNow, Judge, Conclude, Decide, Destroy, Destroying,
           StopIpc, DrainDone, DrainTimeout, RecordVanished, RecordLifecycle, CountEvents,
           RecordSeal, Seal
    <2>. QED BY <2>1
  <1>. QED BY <1>1, <1>11, <1>12, MainOnly

\* What is known about the workload is an invariant of the daemon.
LEMMA WorkHolds == Spec => []WorkInv
  <1>1. Init => WorkInv
    BY DEF Init, WorkInv, Handles0, Units, PhaseMeans, Judged, Destroyed, PostDrain, Alive, Kinds
  <1>. QED BY <1>1, WorkStep, OrderHolds, PTL DEF Spec

\* After the last destruction, whoever of an adopted workload is still running
\* is on record.
LEMMA SurvivorsShown ==
  ASSUME TypeOK, WorkInv, Destroyed, known, Protected # {}
  PROVE  Flagged
  <1>t. /\ cnt["TERMINATION_UNVERIFIED"] \in 0 .. 2 /\ cnt["KILL_FAILED"] \in 0 .. 2
        /\ contTerm \in {"none", "empty", "survivors"} /\ phase \in Phases
    BY DEF TypeOK, TraceTyped, HandleTyped, MainTyped, Kinds
  <1>1. tree # {} BY DEF Protected
  <1>3. CASE Enforced
    <2>1. contTerm # "none" BY <1>3 DEF WorkInv, Units
    <2>. QED BY <2>1, <1>1, <1>t DEF WorkInv, Units, Flagged
  <1>4. CASE ~Enforced
    <2>1. Alive BY <1>4 DEF Protected, Alive
    <2>2. phase # "none" BY DEF WorkInv, PhaseMeans, Judged
    <2>3. phase = "termination_unverified" BY <2>1, <2>2, <1>t DEF WorkInv, PhaseMeans, Phases
    <2>. QED BY <2>3, <1>t DEF WorkInv, PhaseMeans, Flagged
  <1>. QED BY <1>3, <1>4

\* No trace is sealed over a running workload the daemon was handed without
\* saying so.
THEOREM SurvivorsFlagged == Spec => []NoUnflaggedSurvivor
  <1>1. TypeOK /\ OrderInv /\ WorkInv => NoUnflaggedSurvivor
    <2>1. OrderInv /\ sealed => Destroyed BY DEF OrderInv, SealedLast, Destroyed, PostDrain
    <2>. QED BY <2>1, SurvivorsShown DEF NoUnflaggedSurvivor
  <1>. QED BY <1>1, OrderHolds, WorkHolds, PTL

\* PROCESS_EXITED is only ever written about an exit that was observed.
THEOREM ExitsObserved == Spec => []ExitWasObserved
  <1>1. TypeOK /\ WorkInv => ExitWasObserved
    BY DEF WorkInv, PhaseMeans, ExitWasObserved, TypeOK, TraceTyped, Kinds
  <1>. QED BY <1>1, OrderHolds, WorkHolds, PTL

(***************************************************************************)
(* The session state.                                                      *)
(***************************************************************************)
\* Which steps ask the state machine for which state.
LEMMA StateSteps ==
  ASSUME [Next]_vars
  PROVE  \/ st' \in {st, Quiet(st, "KILLED"), Quiet(st, "QUARANTINED")} /\ ~Decide
         \/ /\ st' = Quiet(st, "FAILED")
            /\ DrainTimeout \/ (mpc' = "claim" /\ Setup)
         \/ Starting /\ st' = "STARTING" /\ Accepts(st, "STARTING") /\ mpc' = "serve"
         \/ Running /\ st' = "RUNNING" /\ Accepts(st, "RUNNING") /\ mpc' = "watch"
         \/ Decide /\ st' = Quiet(st, Verdict)
  <1> DEFINE Asked == st' \in {st, Quiet(st, "KILLED"), Quiet(st, "QUARANTINED")}
  <1>u. UNCHANGED stateVars => Asked BY DEF stateVars
  <1>s. ASSUME NEW t, NEW a \in SupervisoryActions, NEW ks, Supervise(t, a, ks) PROVE Asked
    BY <1>s DEF Supervise, SupervisoryActions
  <1>d. mpc # "decide" \/ mpc' = mpc => ~Decide BY DEF Decide
  <1>1. CASE KillStep
    <2>1. Asked BY <1>1, <1>u DEF KillStep, KillEngage, KillTerminate, KillEvent, KillDestroy,
                               KillDestroying, KillAccount
    <2>2. mpc' = mpc BY <1>1 DEF KillStep, KillEngage, KillTerminate, KillEvent, KillDestroy,
                               KillDestroying, KillAccount, mainVars
    <2>. QED BY <2>1, <2>2, <1>d
  <1>2. CASE Prepare \/ ServeIpc \/ Spawn \/ Adopt \/ Attach \/ Started \/ Inspect
    BY <1>2 DEF Prepare, ServeIpc, Spawn, Adopt, Attach, Started, Inspect, stateVars, Decide
  <1>3. CASE PrepareFails \/ ServeIpcFails \/ SpawnFails \/ LaunchFails \/ Unverified
    BY <1>3 DEF PrepareFails, ServeIpcFails, SpawnFails, LaunchFails, Unverified, Raise, Setup
  <1>4. CASE Starting BY <1>4 DEF Starting, Raise, Setup
  <1>5. CASE Running BY <1>5 DEF Running, Raise, Setup
  <1>6. CASE WatchQuit \/ WatchPoll \/ CheckHeartbeat \/ CheckTimeout \/ TimeoutKill \/ Shutdown
             \/ ShutdownKill
    BY <1>6 DEF WatchQuit, WatchPoll, CheckHeartbeat, CheckTimeout, TimeoutKill, Shutdown,
                ShutdownKill, stateVars, Decide
  <1>7. CASE HeartbeatLost
    BY <1>7, <1>s, <1>d, DaemonAssumption DEF HeartbeatLost
  <1>8. CASE Claim \/ EnsureStopped \/ TerminateNow \/ Judge \/ Destroy \/ Destroying \/ StopIpc
             \/ DrainDone \/ RecordVanished \/ RecordLifecycle \/ CountEvents \/ RecordSeal \/ Seal
    BY <1>8 DEF Claim, EnsureStopped, TerminateNow, Judge, Destroy, Destroying, StopIpc, DrainDone,
         RecordVanished, RecordLifecycle, CountEvents, RecordSeal, Seal, stateVars, Decide
  <1>9. CASE DrainTimeout \/ Decide BY <1>9 DEF DrainTimeout, Decide
  <1>10. ASSUME NEW w \in Workers, Worker(w) PROVE Asked /\ mpc' = mpc
    <2>1. mpc' = mpc
      BY <1>10 DEF Worker, Accept, ClientConnected, ClientAuthenticated, ProtocolViolation, Leave,
           ClientDisconnected, Admit, Dispatch, Sanitize, HandleEvaluate, HandleEvent,
           HandleHeartbeat, HandleKillRequest, HandleSessionEnd, mainVars
    <2>2. CASE ClientDisconnected(w) BY <2>1, <2>2, <1>s, DaemonAssumption DEF ClientDisconnected
    <2>3. CASE HandleEvaluate(w) BY <2>1, <2>3 DEF HandleEvaluate
    <2>4. CASE ~ClientDisconnected(w) /\ ~HandleEvaluate(w)
      BY <1>10, <2>1, <2>4, <1>u DEF Worker, Accept, ClientConnected, ClientAuthenticated,
           ProtocolViolation, Leave, Admit, Dispatch, Sanitize, HandleEvent,
           HandleHeartbeat, HandleKillRequest, HandleSessionEnd
    <2>. QED BY <2>1, <2>2, <2>3, <2>4
  <1>11. CASE Stop \/ StopQuits \/ RequestShutdown \/ WorkloadExits \/ HeartbeatAges \/ LimitPasses
              \/ UNCHANGED vars
    BY <1>11, <1>d DEF Stop, StopQuits, RequestShutdown, WorkloadExits, HeartbeatAges, LimitPasses,
         vars, stateVars, mainVars
  <1>. QED
    BY <1>1, <1>2, <1>3, <1>4, <1>5, <1>6, <1>7, <1>8, <1>9, <1>10, <1>11, <1>d
    DEF Next, Main, Setup, Watch, Finalize, Returned

\* The state only moves along the legal transitions, and the kill switch is
\* never disengaged.
LEMMA LegalSteps ==
  ASSUME TypeOK, OrderInv, [Next]_vars
  PROVE  Accepts(st, st') /\ (engaged => engaged')
  <1>t. st \in SessionStates BY DEF TypeOK, StateTyped
  <1>1. /\ Accepts(st, st) /\ Accepts(st, Quiet(st, "KILLED")) /\ Accepts(st, Quiet(st, "QUARANTINED"))
        /\ Accepts(st, Quiet(st, "FAILED")) /\ Accepts(st, Quiet(st, Verdict))
    BY <1>t DEF Accepts, Quiet
  <1>2. Accepts(st, st') BY <1>1, StateSteps
  <1>3. KillStep => engaged' = engaged \/ engaged' = TRUE
    BY DEF KillStep, KillEngage, KillTerminate, KillEvent, KillDestroy, KillDestroying, KillAccount,
           watchVars
  <1>. QED BY <1>2, <1>3, KillStarts DEF OrderInv

\* Setup after the state left CREATED, and finalisation after the decision.
InSetup == \/ mpc \in {"serve", "spawn", "adopt", "attach", "started", "inspect", "unverified",
                       "running"}
           \/ mpc \in {"destroy", "destroying"} /\ mcont = "unverified"
Concluding == Destroyed \/ (mpc \in {"destroy", "destroying"} /\ mcont = "drain")

\* The state main's position implies.
StateAt ==
  /\ mpc \in {"prepare", "starting"} <=> st = "CREATED"
  /\ st = "STARTING" => InSetup
  /\ Concluding => st \in TERMINAL_STATES

\* What COMPLETED means, and where a forced termination without a kill shows.
Voluntary ==
  /\ st = "COMPLETED" => phase = "already_exited" /\ code = "zero" /\ ~forced
  /\ forced /\ ~engaged => \/ mpc \in {"unverified", "judge"}
                           \/ st \in {"FAILED", "KILLED"}
                           \/ phase \in {"terminated", "termination_unverified"}

\* How a session ends whose workload was given up.
Deserted == Abandoned => st \in {"FAILED", "KILLED"}

StateInv == StateAt /\ Voluntary /\ Deserted

\* How main moves between the stretches that StateAt tells apart.
LEMMA Stretches ==
  ASSUME TypeOK, [Next]_vars
  PROVE  /\ mpc' \in {"prepare", "starting"} => mpc \in {"prepare", "starting"}
         /\ mpc \in {"prepare", "starting"} /\ mpc' \notin {"prepare", "starting"} =>
              \/ Starting /\ st' = "STARTING" /\ mpc' = "serve"
              \/ st' = Quiet(st, "FAILED") /\ mpc' = "claim"
         /\ InSetup => \/ InSetup'
                       \/ st' = Quiet(st, "FAILED") /\ mpc' = "claim"
                       \/ Running /\ st' = "RUNNING" /\ mpc' = "watch"
         /\ Concluding' => Concluding \/ Decide
  <1>1. CASE Setup
    BY <1>1 DEF Setup, Prepare, PrepareFails, Starting, ServeIpc, ServeIpcFails, Spawn, SpawnFails, LaunchFails,
           Adopt, Attach, Started, Inspect, Unverified, Running, Raise, InSetup, Concluding, Destroyed,
           PostDrain
  <1>2. CASE Watch
    BY <1>2 DEF Watch, WatchQuit, WatchPoll, CheckHeartbeat, HeartbeatLost, CheckTimeout, TimeoutKill,
           Shutdown, ShutdownKill, InSetup, Concluding, Destroyed, PostDrain
  <1>t. mcont \in {"drain", "judge", "unverified"} BY DEF TypeOK, MainTyped
  <1>3. CASE Claim \/ EnsureStopped \/ TerminateNow \/ Judge \/ Decide
    BY <1>3 DEF Claim, EnsureStopped, TerminateNow, Judge, Conclude, Decide, InSetup, Concluding,
           Destroyed, PostDrain
  <1>5. CASE Destroy
    BY <1>5, <1>t DEF Destroy, InSetup, Concluding, Destroyed, PostDrain
  <1>6. CASE Destroying
    BY <1>6, <1>t DEF Destroying, InSetup, Concluding, Destroyed, PostDrain
  <1>7. CASE StopIpc \/ DrainDone \/ DrainTimeout \/ RecordVanished \/ RecordLifecycle
             \/ CountEvents \/ RecordSeal \/ Seal
    BY <1>7 DEF StopIpc, DrainDone, DrainTimeout, RecordVanished, RecordLifecycle, CountEvents,
           RecordSeal, Seal, InSetup, Concluding, Destroyed, PostDrain
  <1>4. CASE UNCHANGED <<mpc, mcont>>
    BY <1>4 DEF InSetup, Concluding, Destroyed
  <1>. QED BY <1>1, <1>2, <1>3, <1>4, <1>5, <1>6, <1>7, MainOnly DEF Main, Finalize

\* Each step keeps the session state in keeping with main's position.
LEMMA StateAtStep == TypeOK /\ OrderInv /\ StateAt /\ [Next]_vars => StateAt'
  <1> SUFFICES ASSUME TypeOK, OrderInv, StateAt, [Next]_vars PROVE StateAt' OBVIOUS
  <1>t. st \in SessionStates BY DEF TypeOK, StateTyped
  <1>l. Accepts(st, st') BY LegalSteps
  <1>1. (mpc \in {"prepare", "starting"} <=> st = "CREATED")'
    <2>1. CASE mpc \in {"prepare", "starting"} /\ mpc' \in {"prepare", "starting"}
      <3>1. st = "CREATED" BY <2>1 DEF StateAt
      <3>2. ~DrainTimeout /\ ~Decide /\ ~Running /\ mpc' \notin {"claim", "serve"}
        BY <2>1 DEF DrainTimeout, Decide, Running
      <3>3. st' \in {st, Quiet(st, "KILLED"), Quiet(st, "QUARANTINED")} BY <3>2, StateSteps
      <3>. QED BY <3>1, <3>3, <2>1 DEF Quiet, Accepts, ALLOWED_TRANSITIONS, SessionStates
    <2>2. CASE mpc \in {"prepare", "starting"} /\ mpc' \notin {"prepare", "starting"}
      <3>1. st = "CREATED" BY <2>2 DEF StateAt
      <3>2. Quiet(st, "FAILED") = "FAILED"
        BY <3>1 DEF Quiet, Accepts, ALLOWED_TRANSITIONS, SessionStates
      <3>. QED BY <3>2, <2>2, Stretches
    <2>3. CASE mpc \notin {"prepare", "starting"}
      <3>1. mpc' \notin {"prepare", "starting"} /\ st # "CREATED" BY <2>3, Stretches DEF StateAt
      <3>2. st' # "CREATED" BY <3>1, <1>l, <1>t DEF Accepts, ALLOWED_TRANSITIONS, SessionStates
      <3>. QED BY <3>1, <3>2
    <2>. QED BY <2>1, <2>2, <2>3
  <1>2. (st = "STARTING" => InSetup)'
    <2> SUFFICES ASSUME st' = "STARTING" PROVE InSetup' OBVIOUS
    <2>1. CASE st = "STARTING"
      <3>1. Quiet(st, "FAILED") = "FAILED"
        BY <2>1 DEF Quiet, Accepts, ALLOWED_TRANSITIONS, SessionStates
      <3>. QED BY <2>1, <3>1, Stretches DEF StateAt
    <2>2. CASE st # "STARTING"
      <3>1. st = "CREATED"
        BY <2>2, <1>l, <1>t DEF Accepts, ALLOWED_TRANSITIONS, SessionStates
      <3>2. Quiet(st, "KILLED") # "STARTING" /\ Quiet(st, "QUARANTINED") # "STARTING"
              /\ Quiet(st, "FAILED") # "STARTING" /\ Quiet(st, Verdict) # "STARTING"
        BY <3>1 DEF Quiet, Verdict
      <3>3. mpc' = "serve" BY <2>2, <3>2, StateSteps
      <3>. QED BY <3>3 DEF InSetup
    <2>. QED BY <2>1, <2>2
  <1>3. (Concluding => st \in TERMINAL_STATES)'
    <2> SUFFICES ASSUME Concluding' PROVE st' \in TERMINAL_STATES OBVIOUS
    <2>1. CASE Concluding
      <3>1. st \in TERMINAL_STATES BY <2>1 DEF StateAt
      <3>. QED BY <3>1, <1>l DEF Accepts, ALLOWED_TRANSITIONS, SessionStates, TERMINAL_STATES
    <2>2. CASE Decide
      <3>1. st' = Quiet(st, Verdict) /\ mpc = "decide" BY <2>2 DEF Decide
      <3>2. st \notin {"CREATED", "STARTING"} BY <3>1 DEF StateAt, InSetup
      <3>3. Verdict \in TERMINAL_STATES BY DEF Verdict, TERMINAL_STATES
      <3>. QED BY <3>1, <3>2, <3>3, <1>t
               DEF Quiet, Accepts, ALLOWED_TRANSITIONS, SessionStates, TERMINAL_STATES
    <2>. QED BY <2>1, <2>2, Stretches
  <1>. QED BY <1>1, <1>2, <1>3 DEF StateAt

\* A reported phase is final, and after it the root's status is too.
LEMMA PhaseStays ==
  ASSUME TypeOK, WorkInv, [Next]_vars
  PROVE  /\ phase # "none" => phase' = phase
         /\ phase = "already_exited" => code' = code /\ forced' = forced
  <1>1. phase # "none" => Judged BY DEF WorkInv, PhaseMeans
  <1>2. Judged => ~EnsureStopped /\ ~TerminateNow /\ ~Judge /\ ~Spawn
    BY DEF Judged, Destroyed, PostDrain, EnsureStopped, TerminateNow, Judge, Spawn
  <1>3. EnsureStopped \/ TerminateNow \/ Judge \/ phase' = phase
    <2>1. Main => EnsureStopped \/ TerminateNow \/ Judge \/ phase' = phase
      BY DEF Main, Setup, Watch, Finalize, Prepare, PrepareFails, Starting, ServeIpc, ServeIpcFails,
           Spawn, SpawnFails, LaunchFails, Adopt, Attach, Started, Inspect, Unverified, Running,
           WatchQuit, WatchPoll, CheckHeartbeat, HeartbeatLost, CheckTimeout, TimeoutKill, Shutdown,
           ShutdownKill, Claim, Decide, Destroy, Destroying, StopIpc, DrainDone, DrainTimeout,
           RecordVanished, RecordLifecycle, CountEvents, RecordSeal, Seal
    <2>. QED BY <2>1, MainOnly
  <1>4. phase = "already_exited" => ~Alive BY DEF WorkInv, PhaseMeans
  <1>. QED BY <1>1, <1>2, <1>3, <1>4, TreeSteps DEF Departs

\* From "adopt" main either adopts the workload or gives the launch up ...
LEMMA AdoptLeaves ==
  ASSUME [Next]_vars, mpc = "adopt"
  PROVE  mpc' = mpc \/ Adopt \/ LaunchFails
  BY MainOnly DEF Main, Setup, Watch, Finalize, Prepare, PrepareFails, Starting, ServeIpc,
       ServeIpcFails, Spawn, SpawnFails, Attach, Started, Inspect, Unverified, Running,
       WatchQuit, WatchPoll, CheckHeartbeat, HeartbeatLost, CheckTimeout, TimeoutKill, Shutdown,
       ShutdownKill, Claim, EnsureStopped, TerminateNow, Judge, Decide, Destroy, Destroying,
       StopIpc, DrainDone, DrainTimeout, RecordVanished, RecordLifecycle, CountEvents,
       RecordSeal, Seal

\* ... and then the session has failed, or was killed before.
LEMMA LaunchFailsEnds ==
  ASSUME TypeOK, WorkInv, StateInv, LaunchFails
  PROVE  st' \in {"FAILED", "KILLED"}
  <1>1. mpc = "adopt" /\ st' = Quiet(st, "FAILED") BY DEF LaunchFails, Raise
  <1>2. phase = "none" BY <1>1 DEF WorkInv, PhaseMeans, Judged, Destroyed, PostDrain
  <1>3. st # "CREATED" /\ st # "COMPLETED" BY <1>1, <1>2 DEF StateInv, StateAt, Voluntary
  <1>4. st \in SessionStates BY DEF TypeOK, StateTyped
  <1>. QED BY <1>1, <1>3, <1>4 DEF Quiet, Accepts, ALLOWED_TRANSITIONS, SessionStates

\* Each step keeps COMPLETED for a root that left by itself with status 0.
LEMMA VoluntaryStep ==
  TypeOK /\ OrderInv /\ KillInv /\ WorkInv /\ StateInv /\ [Next]_vars => Voluntary'
  <1> SUFFICES ASSUME TypeOK, OrderInv, KillInv, WorkInv, StateInv, [Next]_vars PROVE Voluntary'
    OBVIOUS
  <1>t. st \in SessionStates /\ phase \in Phases /\ engaged \in BOOLEAN /\ forced \in BOOLEAN
        /\ mcont \in {"drain", "judge", "unverified"}
    BY DEF TypeOK, StateTyped, MainTyped, WatchTyped, ProcTyped
  <1>l. Accepts(st, st') /\ (engaged => engaged') BY LegalSteps
  <1>p. /\ phase # "none" => phase' = phase
        /\ phase = "already_exited" => code' = code /\ forced' = forced
    BY PhaseStays
  <1>1. (st = "COMPLETED" => phase = "already_exited" /\ code = "zero" /\ ~forced)'
    <2> SUFFICES ASSUME st' = "COMPLETED"
                 PROVE  phase' = "already_exited" /\ code' = "zero" /\ ~forced'
      OBVIOUS
    <2>1. CASE st = "COMPLETED" BY <2>1, <1>p DEF StateInv, Voluntary
    <2>2. CASE st # "COMPLETED"
      <3>1. Quiet(st, "KILLED") # "COMPLETED" /\ Quiet(st, "QUARANTINED") # "COMPLETED"
              /\ Quiet(st, "FAILED") # "COMPLETED"
        BY <2>2 DEF Quiet
      <3>2. Decide /\ st' = Quiet(st, Verdict) BY <2>2, <3>1, StateSteps
      <3>3. Verdict = "COMPLETED" /\ st \notin TERMINAL_STATES
        BY <3>2, <2>2, <1>t DEF Quiet, Accepts, ALLOWED_TRANSITIONS, SessionStates, TERMINAL_STATES
      <3>4. ~engaged /\ phase = "already_exited" /\ code = "zero" BY <3>3 DEF Verdict
      <3>5. mpc = "decide" BY <3>2 DEF Decide
      <3>6. ~forced BY <3>3, <3>4, <3>5 DEF StateInv, Voluntary, TERMINAL_STATES
      <3>. QED BY <3>4, <3>6, <1>p
    <2>. QED BY <2>1, <2>2
  <1>2. ASSUME forced', ~engaged'
        PROVE  \/ mpc' \in {"unverified", "judge"}
               \/ st' \in {"FAILED", "KILLED"}
               \/ phase' \in {"terminated", "termination_unverified"}
    <2>1. ~engaged BY <1>2, <1>l
    <2>2. ~KillTerminate /\ ~KillDestroying BY <2>1 DEF KillInv, KillTerminate, KillDestroying
    <2>3. CASE TerminateNow BY <2>3 DEF TerminateNow, Conclude
    <2>6. CASE LaunchFails BY <2>6, LaunchFailsEnds
    <2>4. CASE Destroying
      <3>1. mpc' = mcont /\ mpc = "destroying" /\ st' = st /\ phase' = phase
        BY <2>4 DEF Destroying, stateVars
      <3>2. CASE mcont = "drain"
        <4>1. unit /\ phase # "none" BY <3>1, <3>2 DEF WorkInv, Units, PhaseMeans, Judged
        <4>2. phase # "not_started" BY <4>1 DEF WorkInv, Units, PhaseMeans
        <4>3. phase = "already_exited" => forced
          BY <1>p, <1>2
        <4>. QED BY <2>1, <3>1, <3>2, <4>1, <4>2, <4>3, <1>t DEF Phases, StateInv, Voluntary
      <3>. QED BY <3>1, <3>2, <1>t
    <2>5. CASE ~TerminateNow /\ ~Destroying /\ ~LaunchFails
      <3>1. forced BY <1>2, <2>2, <2>5, TreeSteps
      <3>2. CASE st \in {"FAILED", "KILLED"}
        BY <3>2, <1>l DEF Accepts, ALLOWED_TRANSITIONS, SessionStates
      <3>3. CASE phase \in {"terminated", "termination_unverified"} BY <3>3, <1>p
      <3>4. CASE mpc = "unverified"
        <4>1. st # "CREATED" /\ st # "COMPLETED" BY <3>1, <3>4 DEF StateInv, StateAt, Voluntary
        <4>2. Quiet(st, "FAILED") \in {"FAILED", "KILLED"}
          BY <4>1, <1>t DEF Quiet, Accepts, ALLOWED_TRANSITIONS, SessionStates
        <4>3. mpc' = mpc \/ Unverified
          BY <3>4, MainOnly DEF Main, Setup, Watch, Finalize, Prepare, PrepareFails, Starting, ServeIpc,
               ServeIpcFails, Spawn, SpawnFails, LaunchFails, Adopt, Attach, Started, Inspect, Running,
               WatchQuit, WatchPoll, CheckHeartbeat, HeartbeatLost, CheckTimeout, TimeoutKill, Shutdown,
               ShutdownKill, Claim, EnsureStopped, TerminateNow, Judge, Decide, Destroy, Destroying,
               StopIpc, DrainDone, DrainTimeout, RecordVanished, RecordLifecycle, CountEvents,
               RecordSeal, Seal
        <4>4. Unverified => st' = Quiet(st, "FAILED") BY DEF Unverified, Raise
        <4>. QED BY <3>4, <4>2, <4>3, <4>4
      <3>5. CASE mpc = "judge"
        <4>1. mpc' = mpc \/ Judge
          BY <3>5, MainOnly DEF Main, Setup, Watch, Finalize, Prepare, PrepareFails, Starting, ServeIpc,
               ServeIpcFails, Spawn, SpawnFails, LaunchFails, Adopt, Attach, Started, Inspect, Unverified, Running,
               WatchQuit, WatchPoll, CheckHeartbeat, HeartbeatLost, CheckTimeout, TimeoutKill, Shutdown,
               ShutdownKill, Claim, EnsureStopped, TerminateNow, Decide, Destroy, Destroying,
               StopIpc, DrainDone, DrainTimeout, RecordVanished, RecordLifecycle, CountEvents,
               RecordSeal, Seal
        <4>2. Judge => phase' \in {"terminated", "termination_unverified"} BY DEF Judge, Conclude
        <4>. QED BY <3>5, <4>1, <4>2
      <3>. QED BY <3>1, <3>2, <3>3, <3>4, <3>5, <2>1 DEF StateInv, Voluntary
    <2>. QED BY <2>3, <2>4, <2>5, <2>6
  <1>. QED BY <1>1, <1>2 DEF Voluntary

\* Each step keeps a session failed or killed whose workload was given up.
LEMMA DesertedStep ==
  TypeOK /\ OrderInv /\ WorkInv /\ StateInv /\ [Next]_vars => Deserted'
  <1> SUFFICES ASSUME TypeOK, OrderInv, WorkInv, StateInv, [Next]_vars, Abandoned'
               PROVE  st' \in {"FAILED", "KILLED"}
    BY DEF Deserted
  <1>1. CASE Abandoned
    <2>1. st \in {"FAILED", "KILLED"} BY <1>1 DEF StateInv, Deserted
    <2>2. Accepts(st, st') BY LegalSteps
    <2>. QED BY <2>1, <2>2 DEF Accepts, ALLOWED_TRANSITIONS, SessionStates
  <1>2. CASE LaunchFails BY <1>2, LaunchFailsEnds
  <1>3. CASE ~Abandoned /\ ~LaunchFails
    <2>1. Alive' /\ ~known' /\ mpc' # "adopt" BY DEF Abandoned
    <2>2. ~Spawn /\ ~Adopt BY <2>1 DEF Spawn, Adopt
    <2>3. Alive /\ ~known BY <2>1, <2>2, TreeSteps, HandleSteps DEF Alive
    <2>4. mpc = "adopt" BY <1>3, <2>3 DEF Abandoned
    <2>. QED BY <1>3, <2>1, <2>2, <2>4, AdoptLeaves
  <1>. QED BY <1>1, <1>2, <1>3

\* The session state is as StateAt, Voluntary and Deserted say in every
\* reachable state.
LEMMA StateHolds == Spec => []StateInv
  <1>1. Init => StateInv
    BY DEF Init, StateInv, StateAt, Voluntary, InSetup, Concluding, Destroyed, PostDrain, Deserted,
           Abandoned, Alive
  <1>2. TypeOK /\ OrderInv /\ KillInv /\ WorkInv /\ StateInv /\ [Next]_vars => StateInv'
    BY StateAtStep, VoluntaryStep, DesertedStep DEF StateInv
  <1>. QED BY <1>1, <1>2, OrderHolds, KillInvHolds, WorkHolds, PTL DEF Spec

\* COMPLETED is never the work of the supervisor.
THEOREM CompletionVoluntary == Spec => []CompletedIsVoluntary
  <1>1. StateInv => CompletedIsVoluntary BY DEF StateInv, Voluntary, CompletedIsVoluntary
  <1>. QED BY <1>1, StateHolds, PTL

(***************************************************************************)
(* The daemon implements the abstract session.                             *)
(***************************************************************************)
\* Only the spawn leads main to "adopt".
LEMMA ToAdopt ==
  ASSUME TypeOK, [Next]_vars, ~Spawn, mpc # "adopt"
  PROVE  mpc' # "adopt"
  <1>t. mcont \in {"drain", "judge", "unverified"} BY DEF TypeOK, MainTyped
  <1>1. Setup => mpc' # "adopt"
    BY DEF Setup, Prepare, PrepareFails, Starting, ServeIpc, ServeIpcFails, SpawnFails, LaunchFails,
           Adopt, Attach, Started, Inspect, Unverified, Running, Raise
  <1>2. Watch => mpc' # "adopt"
    BY DEF Watch, WatchQuit, WatchPoll, CheckHeartbeat, HeartbeatLost, CheckTimeout, TimeoutKill,
           Shutdown, ShutdownKill
  <1>3. Finalize => mpc' # "adopt"
    BY <1>t DEF Finalize, Claim, EnsureStopped, TerminateNow, Judge, Conclude, Decide, Destroy,
           Destroying, StopIpc, DrainDone, DrainTimeout, RecordVanished, RecordLifecycle,
           CountEvents, RecordSeal, Seal
  <1>. QED BY <1>1, <1>2, <1>3, MainOnly DEF Main

\* The workload is started at most once, and only leaves or is given up after
\* that.
LEMMA WorkloadStep ==
  ASSUME TypeOK, OrderInv, WorkInv, [Next]_vars
  PROVE  \/ Workload' = Workload
         \/ Workload = "unborn" /\ Workload' = "running" /\ ~sealed
         \/ Workload = "running" /\ Workload' = "abandoned" /\ ~sealed
         \/ Workload \in {"running", "abandoned"} /\ Workload' = "gone"
  <1>1. CASE Spawn
    <2>1. Workload = "unborn" /\ ~sealed
      BY <1>1 DEF Spawn, Workload, Abandoned, Alive, WorkInv, Handles0, OrderInv, SealedLast
    <2>2. Workload' = "running" BY <1>1 DEF Spawn, Workload, Abandoned, Alive
    <2>. QED BY <2>1, <2>2
  <1>2. CASE ~Spawn
    <2>1. tree' \subseteq tree /\ Departs BY <1>2, TreeSteps
    <2>2. CASE ~Alive \/ ~Alive'
      <3>1. ~Alive => ~Alive' /\ code' = code BY <2>1 DEF Departs, Alive
      <3>2. Alive /\ ~Alive' => code' \in {"zero", "nonzero"} BY <2>1 DEF Departs, Alive
      <3>. QED BY <2>2, <3>1, <3>2 DEF Workload, Abandoned
    <2>3. CASE Alive /\ Alive'
      <3>1. Abandoned => Abandoned'
        <4>1. ASSUME Abandoned, Adopt PROVE FALSE BY <4>1 DEF Abandoned, Adopt
        <4>2. Abandoned => known' = known BY <4>1, HandleSteps
        <4>3. Abandoned => mpc' # "adopt" BY <1>2, ToAdopt DEF Abandoned
        <4>. QED BY <2>3, <4>2, <4>3 DEF Abandoned
      <3>2. ~Abandoned /\ Abandoned' => ~sealed
        <4> SUFFICES ASSUME ~Abandoned, Abandoned', sealed PROVE FALSE OBVIOUS
        <4>1. mpc = "done" BY DEF OrderInv, SealedLast
        <4>2. known BY <2>3, <4>1 DEF Abandoned
        <4>3. ~Adopt BY <4>1 DEF Adopt
        <4>. QED BY <4>2, <4>3, HandleSteps DEF Abandoned
      <3>. QED BY <2>3, <3>1, <3>2 DEF Workload
    <2>. QED BY <2>2, <2>3
  <1>. QED BY <1>1, <1>2

\* A record of survivors and a failed drain stay, the latter unchanged
\* after the seal; only Seal seals.
LEMMA RecordsStay ==
  ASSUME TypeOK, OrderInv, [Next]_vars
  PROVE  /\ Flagged => Flagged'
         /\ gate = "timedout" => gate' = "timedout"
         /\ sealed => gate' = gate
         /\ Seal \/ sealed' = sealed
  <1>t. TypeOK' BY TypeStep
  <1>c. /\ cnt["TERMINATION_UNVERIFIED"] > 0 => cnt'["TERMINATION_UNVERIFIED"] > 0
        /\ cnt["KILL_FAILED"] > 0 => cnt'["KILL_FAILED"] > 0
        /\ Seal \/ sealed' = sealed
    BY CountSteps DEF Kinds
  <1>1. Flagged => Flagged'
    <2>1. /\ cnt["TERMINATION_UNVERIFIED"] \in 0 .. 2 /\ cnt["KILL_FAILED"] \in 0 .. 2
          /\ cnt'["TERMINATION_UNVERIFIED"] \in 0 .. 2 /\ cnt'["KILL_FAILED"] \in 0 .. 2
      BY <1>t DEF TypeOK, TraceTyped, Kinds
    <2>. QED BY <2>1, <1>c DEF Flagged
  <1>2. gate = "timedout" => gate' = "timedout" BY MainForward DEF OrderInv, Gated
  <1>3. sealed => gate' = gate
    <2>1. sealed => mpc = "done" BY DEF OrderInv, SealedLast
    <2>2. Main => mpc # "done" \/ gate' = gate
      BY DEF Main, Setup, Watch, Finalize, Prepare, PrepareFails, Starting, ServeIpc, ServeIpcFails,
           Spawn, SpawnFails, LaunchFails, Adopt, Attach, Started, Inspect, Unverified, Running,
           WatchQuit, WatchPoll, CheckHeartbeat, HeartbeatLost, CheckTimeout, TimeoutKill, Shutdown,
           ShutdownKill, Claim, EnsureStopped, TerminateNow, Judge, Decide, Destroy, Destroying,
           StopIpc, DrainDone, DrainTimeout, RecordVanished, RecordLifecycle, CountEvents, RecordSeal,
           Seal, ipcVars
    <2>. QED BY <2>1, <2>2, MainOnly
  <1>. QED BY <1>1, <1>2, <1>3, <1>c

\* Every step of the daemon is a step of the session or leaves it alone.
LEMMA SessionStep ==
  ASSUME TypeOK, OrderInv, KillInv, WorkInv, StateInv, [Next]_vars
  PROVE  [Session!SNext]_(Session!svars)
  <1>w. /\ \/ Workload' = Workload
           \/ Workload = "unborn" /\ Workload' = "running" /\ ~sealed
           \/ Workload = "running" /\ Workload' = "abandoned" /\ ~sealed
           \/ Workload \in {"running", "abandoned"} /\ Workload' = "gone"
    BY WorkloadStep
  <1>d. Deserted'
    BY DesertedStep
  <1>1. CASE Seal
    <2>1. /\ mpc = "seal" /\ sealed' = TRUE
          /\ UNCHANGED <<st, engaged, tree, code, cnt, gate>>
      BY <1>1 DEF Seal, stateVars, watchVars, procVars, ipcVars
    <2>2. ~sealed BY <2>1 DEF OrderInv, SealedLast
    <2>3. Destroyed /\ Concluding BY <2>1 DEF Destroyed, Concluding, PostDrain
    <2>4. st \in TERMINAL_STATES BY <2>3 DEF StateInv, StateAt
    <2>5. Workload = "running" => Flagged
      <3>1. Workload = "running" => Alive /\ known
        BY <2>1 DEF Workload, Abandoned
      <3>2. Alive => Protected # {} BY DEF Alive, Protected
      <3>. QED BY <3>1, <3>2, <2>3, SurvivorsShown
    <2>6. st = "COMPLETED" => Workload = "gone"
      BY DEF StateInv, Voluntary, WorkInv, Handles0, Workload, Abandoned
    <2>7. Workload' = Workload /\ Flagged' = Flagged
      <3>1. known' = known /\ mpc' # "adopt" BY <1>1 DEF Seal, handleVars
      <3>. QED BY <2>1, <3>1 DEF Workload, Flagged, Abandoned, Alive
    <2>8. Session!Seal
      BY <2>1, <2>2, <2>4, <2>5, <2>6, <2>7 DEF Session!Seal, TERMINAL_STATES,
           Session!TERMINAL_STATES
    <2>. QED BY <2>8 DEF Session!SNext
  <1>2. CASE ~Seal /\ sealed /\ gate # "timedout"
    <2>1. mpc = "done" BY <1>2 DEF OrderInv, SealedLast
    <2>2. Bystander
      BY <2>1, <1>2, AloneStep DEF PostDrain, RecordVanished, RecordLifecycle, CountEvents, RecordSeal
    <2>3. UNCHANGED <<st, engaged, cnt, gate, sealed>>
      BY <2>2 DEF Bystander, watchVars, ipcVars, traceVars
    <2>4. Flagged' = Flagged BY <2>3 DEF Flagged
    <2>5. CASE Workload' = Workload
      BY <2>3, <2>4, <2>5 DEF Session!svars
    <2>6. CASE Workload \in {"running", "abandoned"} /\ Workload' = "gone"
      <3>1. Session!Depart
        BY <2>3, <2>4, <2>6 DEF Session!Depart
      <3>. QED BY <3>1 DEF Session!SNext
    <2>. QED BY <1>2, <1>w, <2>5, <2>6
  <1>3. CASE ~Seal /\ (sealed => gate = "timedout")
    <2>1. /\ Flagged => Flagged'
          /\ gate = "timedout" => gate' = "timedout"
          /\ sealed => gate' = gate
          /\ sealed' = sealed
      BY <1>3, RecordsStay
    <2>2. Accepts(st, st') /\ (engaged => engaged') BY LegalSteps
    <2>3. Session!WorkloadMoves BY <1>w DEF Session!WorkloadMoves
    <2>6. Workload' = "abandoned" => st' \in {"FAILED", "KILLED"}
      <3>1. Workload' = "abandoned" => Abandoned' BY DEF Workload
      <3>. QED BY <3>1, <1>d DEF Deserted
    <2>4. Session!Accepts(st, st')
      BY <2>2 DEF Accepts, Session!Accepts, ALLOWED_TRANSITIONS, Session!ALLOWED_TRANSITIONS,
           SessionStates, Session!SessionStates
    <2>5. Session!Act
      BY <1>3, <2>1, <2>2, <2>3, <2>4, <2>6 DEF Session!Act, Session!Becomes
    <2>. QED BY <2>5 DEF Session!SNext
  <1>. QED BY <1>1, <1>2, <1>3

\* Every behaviour of the daemon's threads is a behaviour of the abstract
\* session.
THEOREM DaemonImplementsSession == Spec => ImplementsSession
  <1>1. Init => Session!SInit BY DEF Init, Session!SInit, Workload, Abandoned, Flagged, Alive, Kinds
  <1>2. TypeOK /\ OrderInv /\ KillInv /\ WorkInv /\ StateInv /\ [Next]_vars
          => [Session!SNext]_(Session!svars)
    BY SessionStep
  <1>. QED BY <1>1, <1>2, OrderHolds, KillInvHolds, WorkHolds, StateHolds, PTL
           DEF Spec, ImplementsSession, Session!SSpec
=============================================================================
