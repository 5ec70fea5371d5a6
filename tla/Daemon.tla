------------------------------- MODULE Daemon -------------------------------
(***************************************************************************)
(* WatcherDaemon (supervisor/daemon.py): one supervised session, from      *)
(* run() to the sealed trace.                                              *)
(*                                                                         *)
(* Threads: "main" runs _prepare, _serve, _watch_process and _finalize;    *)
(* every element of Workers is one IPC connection's thread; "stopper" is a *)
(* caller of stop(); a signal handler calls request_shutdown(); the        *)
(* workload runs, forks and exits on its own.                              *)
(*                                                                         *)
(* `lock` is the daemon's RLock.  A critical section without a kill is one *)
(* atomic step; a kill is a sequence of steps (`kstep`) taken while its    *)
(* thread holds the lock.  Main's finalisation takes the lock only to      *)
(* claim it, so it runs beside such a kill: that is the interleaving this  *)
(* module is about.                                                        *)
(*                                                                         *)
(* The trace is abstracted to what the properties tell apart: how often    *)
(* each kind in Kinds was recorded (none, one, many), whether it is        *)
(* sealed, and how many events were appended after finalisation read its   *)
(* length for the seal event (`tail`).  The IPC server is abstracted to    *)
(* the admission gate its drain closes.                                    *)
(***************************************************************************)
EXTENDS Naturals, SessionState

CONSTANTS
  Workers,            \* IPC connections, each served by its own thread
  Descendants,        \* what the workload's root process may leave running
  Enforced,           \* config.enforced: the workload runs in a containment unit
  HeartbeatAction,    \* config.heartbeat_action
  IpcLostAction,      \* config.ipc_lost_action
  SessionTimeout,     \* config.session_timeout is set
  MaxRequests         \* bound: requests admitted by the server in one session

SupervisoryActions == {"record", "quarantine", "kill"}

ASSUME DaemonAssumption ==
  /\ Enforced \in BOOLEAN
  /\ SessionTimeout \in BOOLEAN
  /\ HeartbeatAction \in SupervisoryActions
  /\ IpcLostAction \in SupervisoryActions
  /\ MaxRequests \in Nat
  /\ "root" \notin Descendants
  /\ {"main", "stopper", "free"} \cap Workers = {}

VARIABLES
  st,           \* _state
  prepared,     \* _watcher is not None
  refused,      \* _enforcement_refused is set
  quit,         \* _quit
  shutReq,      \* _shutdown_requested
  shutting,     \* _shutting_down, set together with _finalised
  mpc, mcont,   \* main's position; where it continues after _destroy_unit
  phase,        \* the phase _ensure_workload_stopped reported
  tree,         \* protected processes running right now
  code,         \* the root's exit status: "none" while poll() returns None
  forced,       \* history: the supervisor terminated a running root
  known,        \* _process is set and started
  attached,     \* the watcher's _active_process is set
  unit,         \* _unit is not None
  contTerm,     \* _containment_termination
  engaged,      \* the kill switch is ENGAGED
  killEvt,      \* the watcher's _kill_event_written
  quarantined,  \* the watcher's _quarantined
  termRec,      \* _termination_recorded
  lock,         \* holder of the daemon lock
  kstep, ktarget, \* position of the kill in progress; whether it has a target
  hb, hbLost,   \* _last_heartbeat against the timeout; _heartbeat_lost
  over,         \* the session ran past session_timeout
  authed, goodbye, \* _client_authenticated; _client_said_goodbye
  gate,         \* the IPC server's admission state
  wpc, req, wauth, \* each worker's position, request, context.authenticated
  budget,       \* requests still to be admitted (bounded by MaxRequests)
  spc,          \* the stop() caller's position
  cnt, tail, sealed \* the trace

stateVars  == <<st, prepared, refused, quit, shutReq, shutting>>
mainVars   == <<mpc, mcont, phase>>
procVars   == <<tree, code, forced>>
handleVars == <<known, attached, unit, contTerm>>
watchVars  == <<engaged, killEvt, quarantined, termRec>>
lockVars   == <<lock, kstep, ktarget>>
clockVars  == <<hb, hbLost, over>>
clientVars == <<authed, goodbye>>
ipcVars    == <<gate, wpc, req, wauth, budget>>
traceVars  == <<cnt, tail, sealed>>

vars == <<stateVars, mainVars, procVars, handleVars, watchVars, lockVars,
          clockVars, clientVars, ipcVars, spc, traceVars>>

Kinds == {"KILL_SWITCH", "PROCESS_TERMINATION", "KILL_FAILED",
          "TERMINATION_UNVERIFIED", "PROCESS_EXITED", "IPC_LOST"}
Threads == Workers \cup {"main", "stopper"}
Requests == {"evaluate", "event", "heartbeat", "kill_request", "session_end"}
MainPcs == {"prepare", "starting", "serve", "spawn", "adopt", "attach",
            "started", "inspect", "running", "watch", "beat", "beatlost",
            "limit", "timeout", "shutdown", "askkill", "claim", "ensure",
            "terminate", "judge", "decide", "destroy", "destroying",
            "unverified", "drain", "drainwait", "vanished", "lifecycle",
            "count", "sealEvent", "seal", "done"}
WorkerPcs == {"idle", "accepted", "hello", "ready", "dispatch", "sanitize",
              "handle", "bye", "exited"}
Phases == {"none", "not_started", "already_exited", "terminated",
           "termination_unverified"}
KillSteps == {"idle", "engage", "terminate", "event", "destroy", "destroying",
              "account"}

Alive == "root" \in tree

(***************************************************************************)
(* The trace.  A sealed trace raises on append, so every recording step    *)
(* says what happens to its other effects when it is sealed.               *)
(***************************************************************************)
Bump(n) == IF n < 2 THEN n + 1 ELSE n

Counted == mpc \in {"sealEvent", "seal", "done"}

\* record() on an open trace: the events of ks, and any of untracked kinds.
Append(ks) ==
  /\ cnt' = [k \in Kinds |-> IF k \in ks THEN Bump(cnt[k]) ELSE cnt[k]]
  /\ tail' = IF Counted THEN Bump(tail) ELSE tail
  /\ UNCHANGED sealed

\* record() where the caller swallows TraceSealedError and does nothing after.
TryAppend(ks) == IF sealed THEN UNCHANGED traceVars ELSE Append(ks)

Init ==
  /\ st = "CREATED" /\ prepared = FALSE /\ refused = FALSE
  /\ quit = FALSE /\ shutReq = FALSE /\ shutting = FALSE
  /\ mpc = "prepare" /\ mcont = "drain" /\ phase = "none"
  /\ tree = {} /\ code = "none" /\ forced = FALSE
  /\ known = FALSE /\ attached = FALSE /\ unit = FALSE /\ contTerm = "none"
  /\ engaged = FALSE /\ killEvt = FALSE /\ quarantined = FALSE /\ termRec = FALSE
  /\ lock = "free" /\ kstep = "idle" /\ ktarget = FALSE
  /\ hb = "none" /\ hbLost = FALSE /\ over = FALSE
  /\ authed = FALSE /\ goodbye = FALSE
  /\ gate = "closed"
  /\ wpc = [w \in Workers |-> "idle"]
  /\ req = [w \in Workers |-> "none"]
  /\ wauth = [w \in Workers |-> FALSE]
  /\ budget = MaxRequests
  /\ spc = "idle"
  /\ cnt = [k \in Kinds |-> 0] /\ tail = 0 /\ sealed = FALSE

(***************************************************************************)
(* Terminating the workload.  S is what is still running afterwards: a     *)
(* process may ignore, outlive or escape the signals.  A root that handles *)
(* SIGTERM may well exit with status 0.                                    *)
(***************************************************************************)
Leaves(S) ==
  /\ tree' = S
  /\ forced' = (forced \/ Alive)
  /\ IF Alive /\ "root" \notin S THEN code' \in {"zero", "nonzero"} ELSE code' = code

\* LocalProcess.terminate_tree: nothing is signalled once the root has exited.
TerminateTree == IF Alive THEN \E S \in SUBSET tree : Leaves(S) ELSE UNCHANGED procVars

\* The part of _destroy_unit after CONTAINER_TERMINATION_STARTED: isolate,
\* terminate, verify_empty, record the outcome, remember it.
DestroyUnit ==
  \E S \in SUBSET tree :
    /\ Leaves(S)
    /\ contTerm' = IF S = {} THEN "empty" ELSE "survivors"
    /\ Append(IF S = {} THEN {} ELSE {"KILL_FAILED"})

NeedsDestroy == unit /\ contTerm = "none"

(***************************************************************************)
(* The kill, taken step by step by the thread that holds the lock.         *)
(* watcher.kill engages the switch, terminates its target and records      *)
(* KILL_SWITCH; the daemon then destroys the unit and writes the           *)
(* termination accounting.  _kill_locked aims at the process handle once   *)
(* it exists, a kill decided inside evaluate only at the attached process. *)
(***************************************************************************)
StartKill(t, target) == lock' = t /\ kstep' = "engage" /\ ktarget' = target

\* _kill_locked(): a session already killed only completes its accounting.
KillLocked(t) ==
  IF ~engaged THEN StartKill(t, known \/ attached)
  ELSE IF termRec THEN UNCHANGED lockVars
  ELSE lock' = t /\ kstep' = "destroy" /\ UNCHANGED ktarget

Release == lock' = "free" /\ kstep' = "idle" /\ ktarget' = FALSE

KillEngage ==
  /\ kstep = "engage"
  /\ engaged' = TRUE
  /\ kstep' = "terminate"
  /\ UNCHANGED <<stateVars, mainVars, procVars, handleVars, killEvt, quarantined,
                 termRec, lock, ktarget, clockVars, clientVars, ipcVars, spc, traceVars>>

KillTerminate ==
  /\ kstep = "terminate"
  /\ IF ktarget THEN TerminateTree ELSE UNCHANGED procVars
  /\ kstep' = "event"
  /\ UNCHANGED <<stateVars, mainVars, handleVars, watchVars, lock, ktarget,
                 clockVars, clientVars, ipcVars, spc, traceVars>>

\* The KILL_SWITCH event; a sealed trace raises and the caller gives up.
KillEvent ==
  /\ kstep = "event"
  /\ IF killEvt
       THEN kstep' = "destroy" /\ UNCHANGED <<killEvt, attached, lock, ktarget, traceVars>>
       ELSE /\ killEvt' = TRUE
            /\ attached' = FALSE
            /\ IF sealed THEN Release /\ UNCHANGED traceVars
               ELSE /\ Append({"KILL_SWITCH"})
                    /\ kstep' = "destroy" /\ UNCHANGED <<lock, ktarget>>
  /\ UNCHANGED <<stateVars, mainVars, procVars, known, unit, contTerm, engaged,
                 quarantined, termRec, clockVars, clientVars, ipcVars, spc>>

KillDestroy ==
  /\ kstep = "destroy"
  /\ IF ~NeedsDestroy
       THEN kstep' = "account" /\ UNCHANGED <<lock, ktarget, traceVars>>
     ELSE IF sealed THEN Release /\ UNCHANGED traceVars
     ELSE /\ Append({})
          /\ kstep' = "destroying" /\ UNCHANGED <<lock, ktarget>>
  /\ UNCHANGED <<stateVars, mainVars, procVars, handleVars, watchVars,
                 clockVars, clientVars, ipcVars, spc>>

\* When the trace was sealed meanwhile the unit is terminated all the same,
\* and recording the outcome raises.
KillDestroying ==
  /\ kstep = "destroying"
  /\ IF sealed
       THEN /\ \E S \in SUBSET tree : Leaves(S)
            /\ Release /\ UNCHANGED <<contTerm, traceVars>>
       ELSE DestroyUnit /\ kstep' = "account" /\ UNCHANGED <<lock, ktarget>>
  /\ UNCHANGED <<stateVars, mainVars, known, attached, unit, watchVars,
                 clockVars, clientVars, ipcVars, spc>>

\* Faulty variant: that the termination was recorded is not remembered.
KillAccountForgets ==
  /\ kstep = "account"
  /\ Release
  /\ IF termRec \/ sealed
       THEN UNCHANGED <<st, traceVars>>
       ELSE Append({"PROCESS_TERMINATION"}) /\ st' = Quiet(st, "KILLED")
  /\ UNCHANGED <<prepared, refused, quit, shutReq, shutting, mainVars, procVars, termRec,
                 handleVars, engaged, killEvt, quarantined, clockVars,
                 clientVars, ipcVars, spc>>

\* _after_kill_locked: PROCESS_TERMINATION once, then the state.
KillAccount ==
  /\ kstep = "account"
  /\ Release
  /\ termRec' = TRUE
  /\ IF termRec \/ sealed
       THEN UNCHANGED <<st, traceVars>>
       ELSE Append({"PROCESS_TERMINATION"}) /\ st' = Quiet(st, "KILLED")
  /\ UNCHANGED <<prepared, refused, quit, shutReq, shutting, mainVars, procVars,
                 handleVars, engaged, killEvt, quarantined, clockVars,
                 clientVars, ipcVars, spc>>

KillStep == KillEngage \/ KillTerminate \/ KillEvent \/ KillDestroy
            \/ KillDestroying \/ KillAccount

\* _apply_supervisory_action, after an event the caller has just recorded
\* with the kinds ks.
Supervise(t, action, ks) ==
  /\ Append(ks)
  /\ CASE action = "record" -> UNCHANGED <<st, quarantined, lockVars>>
       [] action = "quarantine" ->
            /\ quarantined' = TRUE
            /\ st' = IF quarantined THEN st ELSE Quiet(st, "QUARANTINED")
            /\ UNCHANGED lockVars
       [] action = "kill" -> KillLocked(t) /\ UNCHANGED <<st, quarantined>>

(***************************************************************************)
(* Main thread: setup.                                                     *)
(***************************************************************************)
\* run()'s except clauses: the state becomes FAILED if it can, and the
\* finally clause goes on to _finalize.
Raise(refuses) ==
  /\ st' = Quiet(st, "FAILED")
  /\ refused' = (refused \/ refuses)
  /\ mpc' = "claim"

Prepare ==
  /\ mpc = "prepare"
  /\ prepared' = TRUE
  /\ Append({})
  /\ mpc' = "starting"
  /\ UNCHANGED <<st, refused, quit, shutReq, shutting, mcont, phase, procVars,
                 handleVars, watchVars, lockVars, clockVars, clientVars, ipcVars, spc>>

\* The backend refuses, or storage cannot be created, before a watcher exists.
PrepareFails ==
  /\ mpc = "prepare"
  /\ \E refuses \in {FALSE, Enforced} : Raise(refuses)
  /\ UNCHANGED <<prepared, quit, shutReq, shutting, mcont, phase, procVars, handleVars,
                 watchVars, lockVars, clockVars, clientVars, ipcVars, spc, traceVars>>

Starting ==
  /\ mpc = "starting"
  /\ IF Accepts(st, "STARTING")
       THEN st' = "STARTING" /\ mpc' = "serve" /\ UNCHANGED refused
       ELSE Raise(FALSE)
  /\ UNCHANGED <<prepared, quit, shutReq, shutting, mcont, phase, procVars, handleVars,
                 watchVars, lockVars, clockVars, clientVars, ipcVars, spc, traceVars>>

\* The server starts admitting, then IPC_READY is recorded.
ServeIpc ==
  /\ mpc = "serve"
  /\ gate' = "open"
  /\ Append({})
  /\ mpc' = "spawn"
  /\ UNCHANGED <<stateVars, mcont, phase, procVars, handleVars, watchVars, lockVars,
                 clockVars, clientVars, wpc, req, wauth, budget, spc>>

ServeIpcFails ==
  /\ mpc = "serve"
  /\ Raise(FALSE)
  /\ UNCHANGED <<prepared, quit, shutReq, shutting, mcont, phase, procVars, handleVars,
                 watchVars, lockVars, clockVars, clientVars, ipcVars, spc, traceVars>>

\* Popen has started the workload, directly or behind the backend's guard, but
\* no handle the other threads look at has been assigned yet.
Spawn ==
  /\ mpc = "spawn"
  /\ tree' = {"root"} \cup Descendants
  /\ mpc' = "adopt"
  /\ UNCHANGED <<stateVars, mcont, phase, code, forced, handleVars, watchVars, lockVars,
                 clockVars, clientVars, ipcVars, spc, traceVars>>

\* Nothing was started: Popen raised, or in enforced mode a check before it.
SpawnFails ==
  /\ mpc = "spawn"
  /\ \E refuses \in {FALSE, Enforced} : Raise(refuses)
  /\ UNCHANGED <<prepared, quit, shutReq, shutting, mcont, phase, procVars, handleVars,
                 watchVars, lockVars, clockVars, clientVars, ipcVars, spc, traceVars>>

\* launch() gives up on a unit that may run the workload already: the guard's
\* report is missing or bad, or its process was not found.  _force_kill swallows
\* every error and nothing is verified; the daemon never learns of the unit.
LaunchFails ==
  /\ mpc = "adopt" /\ Enforced
  /\ TerminateTree
  /\ Raise(TRUE)
  /\ UNCHANGED <<prepared, quit, shutReq, shutting, mcont, phase, handleVars, watchVars,
                 lockVars, clockVars, clientVars, ipcVars, spc, traceVars>>

Adopt ==
  /\ mpc = "adopt"
  /\ known' = TRUE
  /\ unit' = Enforced
  /\ mpc' = "attach"
  /\ UNCHANGED <<stateVars, mcont, phase, procVars, attached, contTerm, watchVars, lockVars,
                 clockVars, clientVars, ipcVars, spc, traceVars>>

Attach ==
  /\ mpc = "attach"
  /\ attached' = TRUE
  /\ mpc' = "started"
  /\ UNCHANGED <<stateVars, mcont, phase, procVars, known, unit, contTerm, watchVars, lockVars,
                 clockVars, clientVars, ipcVars, spc, traceVars>>

\* PROCESS_STARTED, or in enforced mode the containment events first.
Started ==
  /\ mpc = "started"
  /\ Append({})
  /\ mpc' = IF Enforced THEN "inspect" ELSE "running"
  /\ UNCHANGED <<stateVars, mcont, phase, procVars, handleVars, watchVars, lockVars,
                 clockVars, clientVars, ipcVars, spc>>

\* The health check from outside: verified, or the unit is destroyed and the
\* session refused.
Inspect ==
  /\ mpc = "inspect"
  /\ Append({})
  /\ \/ mpc' = "running" /\ UNCHANGED mcont
     \/ mpc' = "destroy" /\ mcont' = "unverified"
  /\ UNCHANGED <<stateVars, phase, procVars, handleVars, watchVars, lockVars,
                 clockVars, clientVars, ipcVars, spc>>

Unverified ==
  /\ mpc = "unverified"
  /\ Raise(TRUE)
  /\ UNCHANGED <<prepared, quit, shutReq, shutting, mcont, phase, procVars, handleVars,
                 watchVars, lockVars, clockVars, clientVars, ipcVars, spc, traceVars>>

\* Faulty variant: the state is assigned without asking the state machine.
RunningUnchecked ==
  /\ mpc = "running"
  /\ st' = "RUNNING" /\ mpc' = "watch"
  /\ UNCHANGED <<prepared, refused, quit, shutReq, shutting, mcont, phase, procVars, handleVars,
                 watchVars, lockVars, clockVars, clientVars, ipcVars, spc, traceVars>>

\* transition(RUNNING) raises when a kill got there first.
Running ==
  /\ mpc = "running"
  /\ IF Accepts(st, "RUNNING")
       THEN st' = "RUNNING" /\ mpc' = "watch" /\ UNCHANGED refused
       ELSE Raise(FALSE)
  /\ UNCHANGED <<prepared, quit, shutReq, shutting, mcont, phase, procVars, handleVars,
                 watchVars, lockVars, clockVars, clientVars, ipcVars, spc, traceVars>>

(***************************************************************************)
(* Main thread: the watch loop.                                            *)
(***************************************************************************)
WatchQuit ==
  /\ mpc = "watch" /\ quit /\ lock # "main"
  /\ mpc' = "shutdown"
  /\ UNCHANGED <<stateVars, mcont, phase, procVars, handleVars, watchVars, lockVars,
                 clockVars, clientVars, ipcVars, spc, traceVars>>

WatchPoll ==
  /\ mpc = "watch" /\ ~quit /\ lock # "main"
  /\ mpc' = IF Alive THEN "beat" ELSE "claim"
  /\ UNCHANGED <<stateVars, mcont, phase, procVars, handleVars, watchVars, lockVars,
                 clockVars, clientVars, ipcVars, spc, traceVars>>

\* The elapsed time is read, and the loss noted, before the lock is taken.
CheckHeartbeat ==
  /\ mpc = "beat"
  /\ IF hb = "stale" /\ ~hbLost
       THEN mpc' = "beatlost" /\ hbLost' = TRUE
       ELSE mpc' = "limit" /\ UNCHANGED hbLost
  /\ UNCHANGED <<stateVars, mcont, phase, procVars, handleVars, watchVars, lockVars,
                 hb, over, clientVars, ipcVars, spc, traceVars>>

HeartbeatLost ==
  /\ mpc = "beatlost" /\ lock = "free"
  /\ Supervise("main", HeartbeatAction, {})
  /\ mpc' = "limit"
  /\ UNCHANGED <<prepared, refused, quit, shutReq, shutting, mcont, phase, procVars,
                 handleVars, engaged, killEvt, termRec, clockVars, clientVars, ipcVars, spc>>

CheckTimeout ==
  /\ mpc = "limit" /\ lock # "main"
  /\ mpc' = IF over THEN "timeout" ELSE "watch"
  /\ UNCHANGED <<stateVars, mcont, phase, procVars, handleVars, watchVars, lockVars,
                 clockVars, clientVars, ipcVars, spc, traceVars>>

\* SESSION_TIMEOUT and a kill, again on every tick while the loop goes on.
TimeoutKill ==
  /\ mpc = "timeout" /\ lock = "free"
  /\ Append({})
  /\ KillLocked("main")
  /\ mpc' = "watch"
  /\ UNCHANGED <<stateVars, mcont, phase, procVars, handleVars, watchVars,
                 clockVars, clientVars, ipcVars, spc>>

\* _perform_requested_shutdown: only a signal's request kills here.
Shutdown ==
  /\ mpc = "shutdown"
  /\ mpc' = IF shutReq /\ Alive THEN "askkill" ELSE "claim"
  /\ UNCHANGED <<stateVars, mcont, phase, procVars, handleVars, watchVars, lockVars,
                 clockVars, clientVars, ipcVars, spc, traceVars>>

ShutdownKill ==
  /\ mpc = "askkill" /\ lock = "free"
  /\ IF engaged THEN UNCHANGED <<lockVars, traceVars>>
     ELSE Append({}) /\ KillLocked("main")
  /\ mpc' = "claim"
  /\ UNCHANGED <<stateVars, mcont, phase, procVars, handleVars, watchVars,
                 clockVars, clientVars, ipcVars, spc>>

(***************************************************************************)
(* Main thread: _finalize.  Only the claim is made under the lock.         *)
(***************************************************************************)
Claim ==
  /\ mpc = "claim" /\ lock = "free"
  /\ shutting' = TRUE
  /\ mpc' = "ensure"
  /\ UNCHANGED <<st, prepared, refused, quit, shutReq, mcont, phase, procVars, handleVars,
                 watchVars, lockVars, clockVars, clientVars, ipcVars, spc, traceVars>>

\* _ensure_workload_stopped, up to SHUTDOWN_REQUESTED and TERMINATION_INITIATED.
EnsureStopped ==
  /\ mpc = "ensure"
  /\ IF known /\ Alive
       THEN Append({}) /\ UNCHANGED phase /\
            IF unit THEN mpc' = "destroy" /\ mcont' = "judge"
            ELSE mpc' = "terminate" /\ UNCHANGED mcont
       ELSE /\ phase' = IF known THEN "already_exited" ELSE "not_started"
            /\ mpc' = "decide" /\ UNCHANGED <<mcont, traceVars>>
  /\ UNCHANGED <<stateVars, procVars, handleVars, watchVars, lockVars,
                 clockVars, clientVars, ipcVars, spc>>

Conclude(verified) ==
  /\ phase' = IF verified THEN "terminated" ELSE "termination_unverified"
  /\ Append(IF verified THEN {} ELSE {"TERMINATION_UNVERIFIED"})
  /\ mpc' = "decide"

\* _terminate_workload_now on a plain process: the root must be waited for.  A
\* tree member that could not be signalled, or an exception, leaves it unverified
\* even when nothing is left; a descendant outside the process group survives
\* unreported.
TerminateNow ==
  /\ mpc = "terminate"
  /\ TerminateTree
  /\ \E verified \in BOOLEAN :
       /\ verified => "root" \notin tree'
       /\ Conclude(verified)
  /\ UNCHANGED <<stateVars, mcont, handleVars, watchVars, lockVars,
                 clockVars, clientVars, ipcVars, spc>>

\* ... and on a containment unit, from what _destroy_unit remembered.
Judge ==
  /\ mpc = "judge"
  /\ Conclude(contTerm = "empty")
  /\ UNCHANGED <<stateVars, mcont, procVars, handleVars, watchVars, lockVars,
                 clockVars, clientVars, ipcVars, spc>>

\* Faulty variant: the exit status is consulted before the kill switch.
VerdictExitFirst ==
  IF phase = "termination_unverified" THEN "FAILED"
  ELSE IF phase = "already_exited" /\ code = "zero" THEN "COMPLETED"
  ELSE IF engaged THEN "KILLED"
  ELSE "FAILED"

Verdict ==
  IF phase = "termination_unverified" THEN "FAILED"
  ELSE IF engaged THEN "KILLED"
  ELSE IF phase = "already_exited" /\ code = "zero" THEN "COMPLETED"
  ELSE "FAILED"

\* Faulty variant: an exited root is taken to mean an empty unit.
DecideLeavesUnit ==
  /\ mpc = "decide"
  /\ st' = Quiet(st, Verdict)
  /\ mpc' = "drain" /\ mcont' = "drain"
  /\ UNCHANGED <<prepared, refused, quit, shutReq, shutting, phase, procVars, handleVars,
                 watchVars, lockVars, clockVars, clientVars, ipcVars, spc, traceVars>>

Decide ==
  /\ mpc = "decide"
  /\ st' = Quiet(st, Verdict)
  /\ mpc' = "destroy" /\ mcont' = "drain"
  /\ UNCHANGED <<prepared, refused, quit, shutReq, shutting, phase, procVars, handleVars,
                 watchVars, lockVars, clockVars, clientVars, ipcVars, spc, traceVars>>

\* _destroy_unit called by main, without the lock.
Destroy ==
  /\ mpc = "destroy"
  /\ IF NeedsDestroy
       THEN Append({}) /\ mpc' = "destroying"
       ELSE mpc' = mcont /\ UNCHANGED traceVars
  /\ UNCHANGED <<stateVars, mcont, phase, procVars, handleVars, watchVars, lockVars,
                 clockVars, clientVars, ipcVars, spc>>

Destroying ==
  /\ mpc = "destroying"
  /\ DestroyUnit
  /\ mpc' = mcont
  /\ UNCHANGED <<stateVars, mcont, phase, known, attached, unit, watchVars, lockVars,
                 clockVars, clientVars, ipcVars, spc>>

\* _stop_ipc: without a server there is nothing to drain, and without a
\* watcher there is nothing to seal.
StopIpc ==
  /\ mpc = "drain"
  /\ IF gate = "closed"
       THEN mpc' = (IF prepared THEN "vanished" ELSE "done") /\ UNCHANGED gate
       ELSE mpc' = "drainwait" /\ gate' = "draining"
  /\ UNCHANGED <<stateVars, mcont, phase, procVars, handleVars, watchVars, lockVars,
                 clockVars, clientVars, wpc, req, wauth, budget, spc, traceVars>>

\* Faulty variant: only the handlers inside dispatch are waited for, and not
\* the worker threads whose hooks still write.
NotDispatching(w) == wpc[w] \notin {"dispatch", "sanitize", "handle"}

WorkerGone(w) == wpc[w] \in {"idle", "exited"} /\ lock # w

DrainDone ==
  /\ mpc = "drainwait" /\ \A w \in Workers : WorkerGone(w)
  /\ gate' = "drained"
  /\ mpc' = "vanished"
  /\ UNCHANGED <<stateVars, mcont, phase, procVars, handleVars, watchVars, lockVars,
                 clockVars, clientVars, wpc, req, wauth, budget, spc, traceVars>>

\* Faulty variant: no deadline, the drain waits for the worker.
DrainWaitsForever ==
  /\ mpc = "drainwait" /\ \A w \in Workers : WorkerGone(w)
  /\ gate' = "drained"
  /\ mpc' = "vanished"
  /\ UNCHANGED <<stateVars, mcont, phase, procVars, handleVars, watchVars, lockVars,
                 clockVars, clientVars, wpc, req, wauth, budget, spc, traceVars>>

\* The deadline passes with a worker alive: recorded, and the session goes on
\* to seal with that worker still about.
DrainTimeout ==
  /\ mpc = "drainwait" /\ \E w \in Workers : ~WorkerGone(w)
  /\ gate' = "timedout"
  /\ st' = Quiet(st, "FAILED")
  /\ Append({})
  /\ mpc' = "vanished"
  /\ UNCHANGED <<prepared, refused, quit, shutReq, shutting, mcont, phase, procVars,
                 handleVars, watchVars, lockVars, clockVars, clientVars, wpc, req, wauth,
                 budget, spc>>

\* Faulty variant: a client is reported only while its context is registered,
\* leaving the others to the disconnect hook.
RecordVanishedIfConnected ==
  /\ mpc = "vanished"
  /\ IF goodbye \/ (\A w \in Workers : wpc[w] \in {"idle", "bye", "exited"})
       THEN UNCHANGED traceVars
       ELSE lock = "free" /\ Append({"IPC_LOST"})
  /\ mpc' = "lifecycle"
  /\ UNCHANGED <<stateVars, mcont, phase, procVars, handleVars, watchVars, lockVars,
                 clockVars, clientVars, ipcVars, spc>>

\* _record_vanished_client
RecordVanished ==
  /\ mpc = "vanished"
  /\ IF goodbye \/ ~authed \/ cnt["IPC_LOST"] > 0
       THEN UNCHANGED traceVars
       ELSE lock = "free" /\ Append({"IPC_LOST"})
  /\ mpc' = "lifecycle"
  /\ UNCHANGED <<stateVars, mcont, phase, procVars, handleVars, watchVars, lockVars,
                 clockVars, clientVars, ipcVars, spc>>

\* PROCESS_EXITED only for an observed exit, then SESSION_END.
RecordLifecycle ==
  /\ mpc = "lifecycle"
  /\ Append(IF phase = "already_exited" THEN {"PROCESS_EXITED"} ELSE {})
  /\ mpc' = "count"
  /\ UNCHANGED <<stateVars, mcont, phase, procVars, handleVars, watchVars, lockVars,
                 clockVars, clientVars, ipcVars, spc>>

\* len(watcher.trace) + 1 is evaluated before TRACE_SEALED is appended.
CountEvents ==
  /\ mpc = "count"
  /\ mpc' = "sealEvent"
  /\ UNCHANGED <<stateVars, mcont, phase, procVars, handleVars, watchVars, lockVars,
                 clockVars, clientVars, ipcVars, spc, traceVars>>

RecordSeal ==
  /\ mpc = "sealEvent"
  /\ Append({})
  /\ mpc' = "seal"
  /\ UNCHANGED <<stateVars, mcont, phase, procVars, handleVars, watchVars, lockVars,
                 clockVars, clientVars, ipcVars, spc>>

\* watcher.seal(); verifying and writing the files changes no session state.
Seal ==
  /\ mpc = "seal"
  /\ sealed' = TRUE
  /\ mpc' = "done"
  /\ UNCHANGED <<stateVars, mcont, phase, procVars, handleVars, watchVars, lockVars,
                 clockVars, clientVars, ipcVars, spc, cnt, tail>>

(***************************************************************************)
(* IPC worker threads.  The server admits a request only while it is       *)
(* RUNNING; the hooks and the handshake are not gated by it.               *)
(***************************************************************************)
Goto(w, pc) == wpc' = [wpc EXCEPT ![w] = pc]

\* The session's token reached a process that may present it.
Launched == tree # {} \/ code # "none"

Registered(w) == wpc[w] \in {"accepted", "hello", "ready", "dispatch", "sanitize", "handle"}

\* server.authenticated_count
AuthenticatedContexts == {w \in Workers : Registered(w) /\ wauth[w]}

Accept(w) ==
  /\ wpc[w] = "idle" /\ gate = "open"
  /\ Goto(w, "accepted")
  /\ UNCHANGED <<stateVars, mainVars, procVars, handleVars, watchVars, lockVars, clockVars,
                 clientVars, gate, req, wauth, budget, spc, traceVars>>

\* on_client_connected
ClientConnected(w) ==
  /\ wpc[w] = "accepted" /\ lock = "free"
  /\ TryAppend({})
  /\ Goto(w, "hello")
  /\ UNCHANGED <<stateVars, mainVars, procVars, handleVars, watchVars, lockVars, clockVars,
                 clientVars, gate, req, wauth, budget, spc>>

\* _handshake succeeds, with on_client_authenticated.
ClientAuthenticated(w) ==
  /\ wpc[w] = "hello" /\ lock = "free" /\ Launched
  /\ wauth' = [wauth EXCEPT ![w] = TRUE]
  /\ authed' = TRUE
  /\ hb' = "fresh"
  /\ TryAppend({})
  /\ Goto(w, "ready")
  /\ UNCHANGED <<stateVars, mainVars, procVars, handleVars, watchVars, lockVars, hbLost, over,
                 goodbye, gate, req, budget, spc>>

\* A malformed, mismatched or replayed frame: on_protocol_violation records
\* it, and a fatal one ends the connection.  No writer claim is involved.
ProtocolViolation(w) ==
  /\ wpc[w] \in {"hello", "ready"} /\ lock = "free"
  /\ TryAppend({})
  /\ \/ Goto(w, "bye")
     \/ wpc[w] = "ready" /\ UNCHANGED wpc
  /\ UNCHANGED <<stateVars, mainVars, procVars, handleVars, watchVars, lockVars, clockVars,
                 clientVars, gate, req, wauth, budget, spc>>

\* The handshake timed out, the client closed, the transport failed, or the
\* drain released the worker: the context is unregistered.
Leave(w) ==
  /\ wpc[w] \in {"hello", "ready"} /\ lock # w
  /\ Goto(w, "bye")
  /\ UNCHANGED <<stateVars, mainVars, procVars, handleVars, watchVars, lockVars, clockVars,
                 clientVars, gate, req, wauth, budget, spc, traceVars>>

\* on_client_disconnected
ClientLost(w) ==
  /\ wauth[w] /\ st \notin TERMINAL_STATES /\ known /\ Alive
  /\ AuthenticatedContexts = {} /\ ~goodbye

ClientDisconnected(w) ==
  /\ wpc[w] = "bye" /\ lock = "free"
  /\ IF ~sealed /\ ClientLost(w)
       THEN Supervise(w, IpcLostAction, {"IPC_LOST"})
       ELSE TryAppend({}) /\ UNCHANGED <<st, quarantined, lockVars>>
  /\ Goto(w, "exited")
  /\ UNCHANGED <<prepared, refused, quit, shutReq, shutting, mainVars, procVars, handleVars,
                 engaged, killEvt, termRec, clockVars, clientVars, gate, req, wauth, budget, spc>>

\* _begin_write admits the request; during a drain it is refused unread.
Admit(w, kind) ==
  /\ wpc[w] = "ready" /\ lock # w /\ gate = "open" /\ budget > 0
  /\ budget' = budget - 1
  /\ req' = [req EXCEPT ![w] = kind]
  /\ Goto(w, "dispatch")
  /\ UNCHANGED <<stateVars, mainVars, procVars, handleVars, watchVars, lockVars, clockVars,
                 clientVars, gate, wauth, spc, traceVars>>

Answered(w) == Goto(w, "ready") /\ req' = [req EXCEPT ![w] = "none"]

Readonly == {"heartbeat", "session_end", "kill_request"}

DispatchRefuses(w) ==
  /\ req[w] \notin Readonly
  /\ \/ shutting
     \/ st \in TERMINAL_STATES /\ ~(req[w] = "evaluate" /\ engaged)

\* dispatch: its checks are made before, and not under, the lock.
Dispatch(w) ==
  /\ wpc[w] = "dispatch"
  /\ IF DispatchRefuses(w) THEN Answered(w)
     ELSE Goto(w, IF req[w] \in Readonly THEN "handle" ELSE "sanitize") /\ UNCHANGED req
  /\ UNCHANGED <<stateVars, mainVars, procVars, handleVars, watchVars, lockVars, clockVars,
                 clientVars, gate, wauth, budget, spc, traceVars>>

\* _sanitize_client_payload is a critical section of its own; it may record
\* CLIENT_FIELD_REJECTED, which raises on a sealed trace.
Sanitize(w) ==
  /\ wpc[w] = "sanitize" /\ lock = "free"
  /\ \/ Goto(w, "handle") /\ UNCHANGED <<req, traceVars>>
     \/ IF sealed THEN Answered(w) /\ UNCHANGED traceVars
        ELSE Append({}) /\ Goto(w, "handle") /\ UNCHANGED req
  /\ UNCHANGED <<stateVars, mainVars, procVars, handleVars, watchVars, lockVars, clockVars,
                 clientVars, gate, wauth, budget, spc>>

Handles(w, kind) == wpc[w] = "handle" /\ req[w] = kind /\ lock = "free"

\* What a policy or tripwire decides: nothing for the session ("pass"), a
\* quarantine or a kill.
HandleEvaluate(w) ==
  /\ Handles(w, "evaluate")
  /\ Answered(w)
  /\ IF sealed THEN UNCHANGED <<st, quarantined, lockVars, traceVars>>
     ELSE /\ Append({})
          /\ \/ /\ engaged
                /\ KillLocked(w) /\ UNCHANGED <<st, quarantined>>
             \/ /\ ~engaged
                /\ StartKill(w, attached) /\ UNCHANGED <<st, quarantined>>
             \/ /\ ~engaged
                /\ quarantined' \in {quarantined, TRUE}
                /\ st' = IF quarantined' THEN Quiet(st, "QUARANTINED") ELSE st
                /\ UNCHANGED lockVars
  /\ UNCHANGED <<prepared, refused, quit, shutReq, shutting, mainVars, procVars, handleVars,
                 engaged, killEvt, termRec, clockVars, clientVars, gate, wauth, budget, spc>>

HandleEvent(w) ==
  /\ Handles(w, "event")
  /\ Answered(w)
  /\ TryAppend({})
  /\ UNCHANGED <<stateVars, mainVars, procVars, handleVars, watchVars, lockVars, clockVars,
                 clientVars, gate, wauth, budget, spc>>

\* Recording a rejected field or the heartbeat itself is optional.
HandleHeartbeat(w) ==
  /\ Handles(w, "heartbeat")
  /\ Answered(w)
  /\ hb' = "fresh"
  /\ TryAppend({}) \/ UNCHANGED traceVars
  /\ UNCHANGED <<stateVars, mainVars, procVars, handleVars, watchVars, lockVars, hbLost, over,
                 clientVars, gate, wauth, budget, spc>>

\* A request with rejected fields records them first, and gives up if sealed.
HandleKillRequest(w) ==
  /\ Handles(w, "kill_request")
  /\ Answered(w)
  /\ \E rejected \in BOOLEAN :
       /\ IF rejected THEN TryAppend({}) ELSE UNCHANGED traceVars
       /\ IF engaged \/ (rejected /\ sealed) THEN UNCHANGED lockVars ELSE KillLocked(w)
  /\ UNCHANGED <<stateVars, mainVars, procVars, handleVars, watchVars, clockVars,
                 clientVars, gate, wauth, budget, spc>>

HandleSessionEnd(w) ==
  /\ Handles(w, "session_end")
  /\ Answered(w)
  /\ \E rejected \in BOOLEAN :
       /\ IF rejected THEN TryAppend({}) ELSE UNCHANGED traceVars
       /\ goodbye' = (goodbye \/ ~(rejected /\ sealed))
  /\ UNCHANGED <<stateVars, mainVars, procVars, handleVars, watchVars, lockVars, clockVars,
                 authed, gate, wauth, budget, spc>>

Worker(w) ==
  \/ Accept(w) \/ ClientConnected(w) \/ ClientAuthenticated(w) \/ ProtocolViolation(w)
  \/ Leave(w) \/ ClientDisconnected(w)
  \/ \E kind \in Requests : Admit(w, kind)
  \/ Dispatch(w) \/ Sanitize(w)
  \/ HandleEvaluate(w) \/ HandleEvent(w) \/ HandleHeartbeat(w)
  \/ HandleKillRequest(w) \/ HandleSessionEnd(w)

(***************************************************************************)
(* stop(), the signal handler, the workload and the clock.                 *)
(***************************************************************************)
\* Faulty variant: stop() does not look at _shutting_down.
StopAlways ==
  /\ spc = "idle" /\ lock = "free"
  /\ IF prepared /\ ~engaged THEN KillLocked("stopper") ELSE UNCHANGED lockVars
  /\ spc' = "killed"
  /\ UNCHANGED <<stateVars, mainVars, procVars, handleVars, watchVars, clockVars,
                 clientVars, ipcVars, traceVars>>

Stop ==
  /\ spc = "idle" /\ lock = "free"
  /\ IF prepared /\ ~engaged /\ ~shutting THEN KillLocked("stopper")
     ELSE UNCHANGED lockVars
  /\ spc' = "killed"
  /\ UNCHANGED <<stateVars, mainVars, procVars, handleVars, watchVars, clockVars,
                 clientVars, ipcVars, traceVars>>

StopQuits ==
  /\ spc = "killed" /\ lock # "stopper"
  /\ quit' = TRUE
  /\ spc' = "done"
  /\ UNCHANGED <<st, prepared, refused, shutReq, shutting, mainVars, procVars, handleVars,
                 watchVars, lockVars, clockVars, clientVars, ipcVars, traceVars>>

RequestShutdown ==
  /\ ~shutReq
  /\ shutReq' = TRUE
  /\ quit' = TRUE
  /\ UNCHANGED <<st, prepared, refused, shutting, mainVars, procVars, handleVars, watchVars,
                 lockVars, clockVars, clientVars, ipcVars, spc, traceVars>>

\* The root exits by itself; some of its descendants may go on.
WorkloadExits ==
  /\ Alive
  /\ tree' \in SUBSET (tree \ {"root"})
  /\ code' \in {"zero", "nonzero"}
  /\ UNCHANGED <<stateVars, mainVars, forced, handleVars, watchVars, lockVars, clockVars,
                 clientVars, ipcVars, spc, traceVars>>

HeartbeatAges ==
  /\ hb = "fresh"
  /\ hb' = "stale"
  /\ UNCHANGED <<stateVars, mainVars, procVars, handleVars, watchVars, lockVars, hbLost, over,
                 clientVars, ipcVars, spc, traceVars>>

LimitPasses ==
  /\ SessionTimeout /\ known /\ ~over
  /\ over' = TRUE
  /\ UNCHANGED <<stateVars, mainVars, procVars, handleVars, watchVars, lockVars, hb, hbLost,
                 clientVars, ipcVars, spc, traceVars>>

Setup == Prepare \/ PrepareFails \/ Starting \/ ServeIpc \/ ServeIpcFails \/ Spawn
         \/ SpawnFails \/ LaunchFails \/ Adopt \/ Attach \/ Started \/ Inspect \/ Unverified \/ Running

Watch == WatchQuit \/ WatchPoll \/ CheckHeartbeat \/ HeartbeatLost \/ CheckTimeout
         \/ TimeoutKill \/ Shutdown \/ ShutdownKill

Finalize == Claim \/ EnsureStopped \/ TerminateNow \/ Judge \/ Decide \/ Destroy
            \/ Destroying \/ StopIpc \/ DrainDone \/ DrainTimeout \/ RecordVanished
            \/ RecordLifecycle \/ CountEvents \/ RecordSeal \/ Seal

Main == Setup \/ Watch \/ Finalize

\* run() has returned; the remaining threads have nothing left they must do.
Returned == mpc = "done" /\ UNCHANGED vars

Next ==
  \/ Main
  \/ KillStep
  \/ \E w \in Workers : Worker(w)
  \/ Stop \/ StopQuits \/ RequestShutdown
  \/ WorkloadExits \/ HeartbeatAges \/ LimitPasses
  \/ Returned

(***************************************************************************)
(* The supervisor's own threads are scheduled: main, a kill in progress,   *)
(* and a stop() call once made.  Nothing is assumed of clients, workload   *)
(* or clock.                                                               *)
(***************************************************************************)
Fairness == WF_vars(Main) /\ WF_vars(KillStep) /\ WF_vars(StopQuits)

Spec == Init /\ [][Next]_vars /\ Fairness

(***************************************************************************)
(* Properties.                                                             *)
(***************************************************************************)
StateTyped ==
  /\ st \in SessionStates
  /\ prepared \in BOOLEAN /\ refused \in BOOLEAN /\ quit \in BOOLEAN
  /\ shutReq \in BOOLEAN /\ shutting \in BOOLEAN
MainTyped ==
  mpc \in MainPcs /\ mcont \in {"drain", "judge", "unverified"} /\ phase \in Phases
ProcTyped ==
  /\ tree \in SUBSET ({"root"} \cup Descendants)
  /\ code \in {"none", "zero", "nonzero"} /\ forced \in BOOLEAN
HandleTyped ==
  /\ known \in BOOLEAN /\ attached \in BOOLEAN /\ unit \in BOOLEAN
  /\ contTerm \in {"none", "empty", "survivors"}
WatchTyped ==
  engaged \in BOOLEAN /\ killEvt \in BOOLEAN /\ quarantined \in BOOLEAN /\ termRec \in BOOLEAN
LockTyped ==
  lock \in Threads \cup {"free"} /\ kstep \in KillSteps /\ ktarget \in BOOLEAN
ClockTyped == hb \in {"none", "fresh", "stale"} /\ hbLost \in BOOLEAN /\ over \in BOOLEAN
ClientTyped == authed \in BOOLEAN /\ goodbye \in BOOLEAN
IpcTyped ==
  /\ gate \in {"closed", "open", "draining", "drained", "timedout"}
  /\ wpc \in [Workers -> WorkerPcs]
  /\ req \in [Workers -> Requests \cup {"none"}]
  /\ wauth \in [Workers -> BOOLEAN]
  /\ budget \in 0 .. MaxRequests
TraceTyped == cnt \in [Kinds -> 0 .. 2] /\ tail \in 0 .. 2 /\ sealed \in BOOLEAN

\* Every variable holds a value the code's fields can hold.
TypeOK ==
  /\ StateTyped /\ MainTyped /\ ProcTyped /\ HandleTyped /\ WatchTyped /\ LockTyped
  /\ ClockTyped /\ ClientTyped /\ IpcTyped /\ TraceTyped
  /\ spc \in {"idle", "killed", "done"}

\* The event count TRACE_SEALED declares is the length of the sealed trace:
\* after a clean drain nothing but the seal event was appended between
\* reading the length and sealing (_finalize, step 4).
SealedCountExact == sealed /\ gate # "timedout" => tail = 1

Protected == IF Enforced THEN tree ELSE tree \cap {"root"}

Flagged == cnt["TERMINATION_UNVERIFIED"] + cnt["KILL_FAILED"] > 0

\* No trace is sealed over a running workload that was handed to the daemon
\* (over any process of the unit, in enforced mode) without saying so: whatever
\* interleaving led to finalisation, TERMINATION_UNVERIFIED or KILL_FAILED is in
\* the trace.  What a failed launch left is not covered: NothingLeftRunning.
NoUnflaggedSurvivor == sealed /\ known /\ Protected # {} => Flagged

\* Every kill path produces exactly one KILL_SWITCH and exactly one
\* PROCESS_TERMINATION (_after_kill_locked), and a cleanly drained trace is
\* never sealed with a kill half accounted.
KillAccountedOnce ==
  /\ cnt["KILL_SWITCH"] <= 1 /\ cnt["PROCESS_TERMINATION"] <= 1
  /\ sealed /\ gate # "timedout" /\ engaged =>
       cnt["KILL_SWITCH"] = 1 /\ cnt["PROCESS_TERMINATION"] = 1

\* A session is COMPLETED only if its root exited with 0 by itself: never
\* when the supervisor signalled a running root, even one that answers
\* SIGTERM by exiting with 0 (_finalize, step 1).
CompletedIsVoluntary == st = "COMPLETED" => code = "zero" /\ ~forced

\* PROCESS_EXITED asserts an observation: never of a root still running, nor
\* of one that finalisation itself had to terminate.
ExitWasObserved ==
  cnt["PROCESS_EXITED"] > 0 =>
    ~Alive /\ cnt["TERMINATION_UNVERIFIED"] = 0 /\ phase = "already_exited"

\* An authenticated client that never said goodbye is recorded as lost before
\* a cleanly drained trace is sealed, whichever of the disconnect hook and
\* the poll of the child came first (_record_vanished_client).
LostClientRecorded ==
  sealed /\ gate # "timedout" /\ authed /\ ~goodbye => cnt["IPC_LOST"] > 0

\* A kill by stop() completes before finalisation starts or is skipped; it
\* never runs beside it (docstring of stop).
StopKillsBeforeFinalisation == lock = "stopper" => ~shutting

\* Once a cleanly drained trace is sealed, no step changes the trace, the
\* session state or the kill switch any more.
FrozenAfterSeal ==
  [][sealed /\ gate # "timedout" => UNCHANGED <<traceVars, st, engaged>>]_vars

\* A request to stop, from a signal or from stop(), and the exit of the
\* supervised process both end with run() having returned: a hung client or a
\* kill in progress cannot keep it.
RunReturns ==
  /\ quit ~> mpc = "done"
  /\ (known /\ ~Alive) ~> mpc = "done"

(***************************************************************************)
(* The daemon implements the abstract session.                             *)
(***************************************************************************)
\* The daemon gave up the launch and holds no handle on what runs.
Abandoned == Alive /\ ~known /\ mpc # "adopt"

Workload ==
  IF Abandoned THEN "abandoned"
  ELSE IF Alive THEN "running"
  ELSE IF code = "none" THEN "unborn" ELSE "gone"

Session == INSTANCE SupervisedSession WITH
  state <- st,
  killed <- engaged,
  workload <- Workload,
  survivors <- Flagged,
  disorder <- (gate = "timedout"),
  sealed <- sealed

\* Every behaviour of the daemon's threads is a behaviour of SupervisedSession.
ImplementsSession == Session!SSpec

(***************************************************************************)
(* What the comments of the code say and the code does not keep.           *)
(***************************************************************************)
\* daemon.py:1914-1917: "Destroy the containment unit and prove it is empty before
\* the trace is sealed, so the final record describes a machine state in which
\* nothing from the sandbox is still running."  Said of every enforced session
\* but those whose record admits the failure; a launch that failed leaves the
\* daemon no unit to destroy (LaunchFails).
NothingLeftRunning == sealed /\ Enforced /\ ~Flagged => tree = {}

\* daemon.py:1265: a QUARANTINE must be reflected in the session state.
QuarantineReflected == quarantined => st # "RUNNING"

\* daemon.py:1887: a workload that could not be confirmed gone is never a
\* clean or a killed session, it is a failure.
UnverifiedIsFailed == sealed /\ phase = "termination_unverified" => st = "FAILED"

\* daemon.py:874: when processes of the unit survived, the session does not
\* end as a clean one.
SurvivorsNeverComplete == sealed /\ cnt["KILL_FAILED"] > 0 => st # "COMPLETED"
=============================================================================
