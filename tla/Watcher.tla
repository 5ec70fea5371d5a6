------------------------------- MODULE Watcher -------------------------------
(***************************************************************************)
(* The inline watcher (watcher/watcher.py, watcher/kill_switch.py): threads *)
(* of the embedding program call evaluate(), report_signal() and the rest  *)
(* on one PoEWatcher, without any lock but the recorder's, while another   *)
(* thread drives the Session of the protected process.                     *)
(*                                                                         *)
(* A step ends where another thread can be noticed.  Policy and tripwires  *)
(* are pure functions of the request: their verdict is a choice.  The      *)
(* trace is whether it holds a KILL_SWITCH event and whether it is sealed; a   *)
(* record() on a sealed trace raises through the caller.                   *)
(***************************************************************************)
EXTENDS Naturals, FiniteSets

CONSTANTS
  Callers,     \* threads that call the watcher
  Owner,       \* the thread that owns the Session
  MaxCalls     \* bound: calls per caller

ASSUME WatcherAssumption ==
  /\ Owner \notin Callers /\ "none" \notin Callers \cup {Owner}
  /\ MaxCalls \in Nat

VARIABLES
  engaged,     \* KillSwitch._state is ENGAGED
  record,      \* KillSwitch._record: the thread whose reason it holds, or None
  quarantined, \* _quarantined
  written,     \* _kill_event_written
  logged,      \* KILL_SWITCH is in the trace
  sealed,      \* the trace is sealed
  active,      \* _active_process is the session's process
  proc,        \* the process: none, alive, zero, nonzero (its exit)
  seen,        \* its return code has been collected
  stopped,     \* history: the watcher terminated it
  survived,    \* history: a termination reported that it is still running
  status, finalised,   \* Session._status, _finalised
  pc, call,    \* per thread: next step, and the locals of its call
  calls        \* calls a caller may still make

switch == <<engaged, record, written>>
process == <<proc, seen, stopped, survived>>
session == <<status, finalised>>
vars == <<engaged, record, quarantined, written, logged, sealed, active, proc, seen,
          stopped, survived, status, finalised, pc, call, calls>>

None == "none"
Threads == Callers \cup {Owner}

Exits == {"zero", "nonzero"}

Decisions == {"ALLOW", "DENY", "QUARANTINE", "KILL"}
blocked(d) == d # "ALLOW"

\* response_for(): the signals that end the session; every other one, an
\* unknown one included, is denied.
KillSignals ==
  {"HOST_NAMESPACE_ACCESS", "FORBIDDEN_SYSCALL", "PRIVILEGE_ESCALATION",
   "PROTECTED_FILE_ACCESS", "WATCHER_TAMPER_ATTEMPT", "MONITOR_DISABLE_ATTEMPT",
   "PERSISTENCE_ATTEMPT"}
HostSignals == KillSignals \cup {"UNEXPECTED_PROCESS_TREE", "UNAUTHORIZED_NETWORK", "unknown"}
response_for(s) == IF s \in KillSignals THEN "KILL" ELSE "DENY"

\* The locals of a call.  late: the switch was engaged when it began;
\* chastened: the session was quarantined when it began, and then, that the
\* policy blocked the action too; aim: kill() has a target.  The owner:
\* close(seal=True), and the exit code given to _finalise.  outcome: how the
\* last call ended, with which verdict if it was asked for one.
Blank == [late |-> FALSE, chastened |-> FALSE, verdict |-> None,
          aim |-> FALSE, seal |-> FALSE, code |-> None, outcome |-> None]
Fresh == [Blank EXCEPT !.late = engaged, !.chastened = quarantined]

Init ==
  /\ engaged = FALSE /\ record = None /\ written = FALSE
  /\ quarantined = FALSE /\ logged = FALSE /\ sealed = FALSE
  /\ active = FALSE /\ proc = "none" /\ seen = FALSE
  /\ stopped = FALSE /\ survived = FALSE
  /\ status = "CREATED" /\ finalised = FALSE
  /\ pc = [t \in Threads |-> "idle"]
  /\ call = [t \in Threads |-> Blank]
  /\ calls = [t \in Callers |-> MaxCalls]

(***************************************************************************)
(* Thread control.                                                         *)
(***************************************************************************)
At(t, here) == pc[t] = here
Go(t, there) == pc' = [pc EXCEPT ![t] = there]

\* The call ends with a value, or by an exception.
Ends(t, outcome) ==
  /\ Go(t, "idle")
  /\ call' = [call EXCEPT ![t] = [Blank EXCEPT !.outcome = outcome]]
Return(t) == Ends(t, call[t].verdict)
Raise(t) == Ends(t, "raised")

\* Recorder.record() as the last step of a call.
RecordedLast(t) == (sealed /\ Raise(t)) \/ (~sealed /\ Return(t))

\* _apply(): where a verdict leads.
Route(d) == CASE d = "KILL" -> "kill" [] d = "QUARANTINE" -> "quarantine" [] OTHER -> "idle"

Judged(t, d, chastened) ==
  call' = [call EXCEPT ![t] = [@ EXCEPT !.verdict = d, !.chastened = chastened]]

\* The verdict of a call is applied.
Apply(t, d, chastened) ==
  \/ Route(d) = "idle" /\ Ends(t, d)
  \/ /\ Route(d) # "idle" /\ Go(t, Route(d))
     /\ Judged(t, d, chastened)

Begin(t, there, locals) ==
  /\ At(t, "idle") /\ calls[t] > 0
  /\ Go(t, there)
  /\ call' = [call EXCEPT ![t] = locals]
  /\ calls' = [calls EXCEPT ![t] = @ - 1]
  /\ UNCHANGED <<switch, quarantined, logged, sealed, active, process, session>>

(***************************************************************************)
(* evaluate(), and report_process(), which records and then evaluates.     *)
(***************************************************************************)
Evaluate(t) == Begin(t, "check", Fresh)

\* A child process is recorded, then evaluated.
ReportProcess(t) ==
  IF sealed THEN Begin(t, "idle", [Blank EXCEPT !.outcome = "raised"])
  ELSE Begin(t, "check", Fresh)

\* Faulty variant: killed is read from the record, which engage() sets last.
CheckRecorded(t) ==
  /\ At(t, "check")
  /\ \/ record # None /\ (Ends(t, "KILL") \/ (sealed /\ Raise(t)))
     \/ record = None /\ Go(t, "tripwire") /\ UNCHANGED call
  /\ UNCHANGED <<switch, quarantined, logged, sealed, active, process, session, calls>>

\* A killed session authorises nothing.
CheckKilled(t) ==
  /\ At(t, "check")
  /\ \/ engaged /\ (Ends(t, "KILL") \/ (sealed /\ Raise(t)))
     \/ ~engaged /\ Go(t, "tripwire") /\ UNCHANGED call
  /\ UNCHANGED <<switch, quarantined, logged, sealed, active, process, session, calls>>

\* Tripwires outrank policy.  Their decision is KILL unless configured.
Tripwire(t) ==
  /\ At(t, "tripwire")
  /\ \/ Go(t, "policy") /\ UNCHANGED call
     \/ sealed /\ Raise(t)
     \/ ~sealed /\ \E d \in Decisions : Apply(t, d, FALSE)
  /\ UNCHANGED <<switch, quarantined, logged, sealed, active, process, session, calls>>

\* Faulty variant: only a denied action escalates.
PolicyDenials(t) ==
  /\ At(t, "policy")
  /\ \E d \in Decisions :
       Judged(t, IF quarantined /\ d = "DENY" THEN "KILL" ELSE d,
              call[t].chastened /\ blocked(d))
  /\ Go(t, "decide")
  /\ UNCHANGED <<switch, quarantined, logged, sealed, active, process, session, calls>>

\* Policy.evaluate, and the escalation of a quarantined session.
Policy(t) ==
  /\ At(t, "policy")
  /\ \E d \in Decisions :
       Judged(t, IF quarantined /\ blocked(d) THEN "KILL" ELSE d,
              call[t].chastened /\ blocked(d))
  /\ Go(t, "decide")
  /\ UNCHANGED <<switch, quarantined, logged, sealed, active, process, session, calls>>

\* _record_decision, unless the caller asked for no record, then _apply.
Decide(t) ==
  /\ At(t, "decide")
  /\ Apply(t, call[t].verdict, call[t].chastened) \/ (sealed /\ Raise(t))
  /\ UNCHANGED <<switch, quarantined, logged, sealed, active, process, session, calls>>

(***************************************************************************)
(* report_signal(), kill(), quarantine(), and sealing by export_trace().   *)
(***************************************************************************)
ReportSignal(t, s) ==
  LET d == IF engaged THEN "KILL" ELSE response_for(s)
  IN  \/ sealed /\ Begin(t, "idle", [Blank EXCEPT !.outcome = "raised"])
      \/ ~sealed /\ Route(d) = "idle" /\ Begin(t, "idle", [Blank EXCEPT !.outcome = d])
      \/ ~sealed /\ Route(d) # "idle" /\ Begin(t, Route(d), [Blank EXCEPT !.late = engaged, !.verdict = d])

Kill(t) == Begin(t, "kill", Blank)

Quarantine(t) == Begin(t, "quarantine", Blank)

ExportTrace(t) ==
  /\ At(t, "idle") /\ calls[t] > 0
  /\ sealed' = TRUE
  /\ calls' = [calls EXCEPT ![t] = @ - 1]
  /\ UNCHANGED <<switch, quarantined, logged, active, process, session, pc, call>>

(***************************************************************************)
(* PoEWatcher.kill and KillSwitch.engage.                                  *)
(***************************************************************************)
\* terminate_tree(): nothing to do for a process that has not started or has
\* exited; otherwise it ends, with any code, or is reported as surviving.
TerminateTree ==
  \/ /\ proc # "alive"
     /\ seen' = (proc # "none")
     /\ UNCHANGED <<proc, stopped, survived>>
  \/ /\ proc = "alive"
     /\ \/ proc' \in Exits /\ seen' = TRUE /\ stopped' = TRUE /\ UNCHANGED survived
        \/ survived' = TRUE /\ UNCHANGED <<proc, seen, stopped>>

\* The target is the process passed in (Session.kill), or the active one;
\* a switch that has its record is left alone.
Engage(t) ==
  /\ At(t, "kill")
  /\ call' = [call EXCEPT ![t] = [@ EXCEPT !.aim = (t = Owner \/ active)]]
  /\ Go(t, IF record # None THEN "event" ELSE "flip")
  /\ UNCHANGED <<switch, quarantined, logged, sealed, active, process, session, calls>>

Flip(t) ==
  /\ At(t, "flip")
  /\ engaged' = TRUE
  /\ Go(t, "terminate")
  /\ UNCHANGED <<record, written, quarantined, logged, sealed, active, process, session,
                 call, calls>>

Terminate(t) ==
  /\ At(t, "terminate")
  /\ IF call[t].aim THEN TerminateTree ELSE UNCHANGED process
  /\ Go(t, "note")
  /\ UNCHANGED <<switch, quarantined, logged, sealed, active, session, call, calls>>

WriteRecord(t) ==
  /\ At(t, "note")
  /\ record' = t
  /\ Go(t, "event")
  /\ UNCHANGED <<engaged, written, quarantined, logged, sealed, active, process, session,
                 call, calls>>

EventTest(t) ==
  /\ At(t, "event")
  /\ \/ written /\ Return(t)
     \/ ~written /\ Go(t, "mark") /\ UNCHANGED call
  /\ UNCHANGED <<switch, quarantined, logged, sealed, active, process, session, calls>>

\* Faulty variant: the event is written only when something was terminated.
MarkIfAimed(t) ==
  /\ At(t, "mark")
  /\ written' = TRUE /\ active' = FALSE
  /\ \/ call[t].aim /\ Go(t, "append") /\ UNCHANGED call
     \/ ~call[t].aim /\ Return(t)
  /\ UNCHANGED <<engaged, record, quarantined, logged, sealed, process, session, calls>>

Mark(t) ==
  /\ At(t, "mark")
  /\ written' = TRUE /\ active' = FALSE
  /\ Go(t, "append") /\ UNCHANGED call
  /\ UNCHANGED <<engaged, record, quarantined, logged, sealed, process, session, calls>>

AppendKill(t) ==
  /\ At(t, "append")
  /\ RecordedLast(t)
  /\ logged' = (logged \/ ~sealed)
  /\ UNCHANGED <<switch, quarantined, sealed, active, process, session, calls>>

(***************************************************************************)
(* _quarantine().                                                          *)
(***************************************************************************)
QuarantineTest(t) ==
  /\ At(t, "quarantine")
  /\ \/ quarantined /\ Return(t)
     \/ ~quarantined /\ Go(t, "isolate") /\ UNCHANGED call
  /\ UNCHANGED <<switch, quarantined, logged, sealed, active, process, session, calls>>

Isolate(t) ==
  /\ At(t, "isolate")
  /\ quarantined' = TRUE
  /\ RecordedLast(t)
  /\ UNCHANGED <<switch, logged, sealed, active, process, session, calls>>

(***************************************************************************)
(* Session.                                                                *)
(***************************************************************************)
OwnerBegins(there, locals) ==
  /\ At(Owner, "idle")
  /\ Go(Owner, there)
  /\ call' = [call EXCEPT ![Owner] = locals]
  /\ UNCHANGED <<switch, quarantined, logged, sealed, active, calls>>

\* start(): refused unless CREATED, and refused by an engaged switch.
Start ==
  /\ status = "CREATED"
  /\ OwnerBegins(IF engaged THEN "idle" ELSE "spawn", Blank)
  /\ UNCHANGED <<process, session>>

Spawn ==
  /\ At(Owner, "spawn")
  /\ \/ Raise(Owner) /\ UNCHANGED <<proc, status>>
     \/ proc' = "alive" /\ status' = "RUNNING" /\ Go(Owner, "attach") /\ UNCHANGED call
  /\ UNCHANGED <<switch, quarantined, logged, sealed, active, seen, stopped, survived,
                 finalised, calls>>

\* _attach_process and SESSION_START.
Attach ==
  /\ At(Owner, "attach")
  /\ active' = TRUE
  /\ RecordedLast(Owner)
  /\ UNCHANGED <<switch, quarantined, logged, sealed, process, session, calls>>

\* wait(): collects the exit, or times out.  A process that never started
\* raises.
Wait ==
  /\ status # "CREATED" /\ proc # "none"
  /\ \/ /\ proc # "alive" /\ seen' = TRUE
        /\ OwnerBegins("finalise", [Blank EXCEPT !.code = proc])
        /\ UNCHANGED status
     \/ /\ proc = "alive" /\ status' = "TIMEOUT"
        /\ OwnerBegins("idle", Blank)
        /\ UNCHANGED seen
  /\ UNCHANGED <<proc, stopped, survived, finalised>>

SessionKill ==
  /\ status' = "KILLED"
  /\ OwnerBegins("kill", Blank)
  /\ UNCHANGED <<process, finalised>>

\* close() and the end of a with block: the code is what was collected.
Close ==
  /\ \E s \in BOOLEAN :
       OwnerBegins("finalise", [Blank EXCEPT !.seal = s, !.code = IF seen THEN proc ELSE None])
  /\ UNCHANGED <<process, session>>

\* The trace is sealed by a close(seal=True) that comes this far.
Closed ==
  /\ sealed' = (sealed \/ call[Owner].seal)
  /\ Return(Owner)

\* _finalise(), once.  A process that is still running is terminated, unless
\* the session was killed: then the kill is taken to have done it.
Running(stop) ==
  /\ At(Owner, "finalise")
  /\ seen' = (seen \/ (~finalised /\ proc \in Exits))
  /\ finalised' = TRUE
  /\ \/ finalised /\ Closed
     \/ ~finalised /\ Go(Owner, IF stop THEN "sweeping" ELSE "verdict") /\ UNCHANGED <<sealed, call>>
  /\ UNCHANGED <<switch, quarantined, logged, active, proc, stopped, survived, status, calls>>

\* Faulty variant: a session that timed out is taken for finished.
FinaliseUnlessTimeout == Running(proc = "alive" /\ ~engaged /\ status # "TIMEOUT")

Finalise == Running(proc = "alive" /\ ~engaged)

\* The clean-up and its record.
Sweeping ==
  /\ At(Owner, "sweeping")
  /\ TerminateTree
  /\ \/ sealed /\ Raise(Owner)
     \/ /\ ~sealed /\ Go(Owner, "swept")
        /\ call' = [call EXCEPT ![Owner].code = IF seen' THEN proc' ELSE None]
  /\ UNCHANGED <<switch, quarantined, logged, sealed, active, session, calls>>

\* Faulty variant: the exit code speaks first.
VerdictByCode ==
  /\ pc[Owner] \in {"verdict", "swept"}
  /\ status' = IF call[Owner].code = "zero" THEN "COMPLETED"
               ELSE IF engaged THEN "KILLED"
               ELSE IF At(Owner, "swept") THEN "TERMINATED"
               ELSE IF status = "TIMEOUT" THEN "TIMEOUT" ELSE "FAILED"
  /\ Go(Owner, "end")
  /\ UNCHANGED <<switch, quarantined, logged, sealed, active, process, finalised, call, calls>>

\* Which status, in which order; "swept" is terminated_by_cleanup.
Verdict ==
  /\ pc[Owner] \in {"verdict", "swept"}
  /\ status' = IF engaged THEN "KILLED"
               ELSE IF At(Owner, "swept") THEN "TERMINATED"
               ELSE IF status = "TIMEOUT" THEN "TIMEOUT"
               ELSE IF call[Owner].code = "zero" THEN "COMPLETED" ELSE "FAILED"
  /\ Go(Owner, "end")
  /\ UNCHANGED <<switch, quarantined, logged, sealed, active, process, finalised, call, calls>>

\* SESSION_END, then _detach_process; not detached when the record raises.
End ==
  /\ At(Owner, "end")
  /\ (sealed /\ Raise(Owner) /\ UNCHANGED sealed) \/ (~sealed /\ Closed)
  /\ active' = (active /\ sealed)
  /\ UNCHANGED <<switch, quarantined, logged, process, session, calls>>

\* The process exits by itself.
Exit ==
  /\ proc = "alive"
  /\ proc' \in Exits
  /\ UNCHANGED <<switch, quarantined, logged, sealed, active, seen, stopped, survived,
                 session, pc, call, calls>>

Calls(t) ==
  \/ Evaluate(t) \/ ReportProcess(t) \/ Kill(t) \/ Quarantine(t) \/ ExportTrace(t)
  \/ \E s \in HostSignals : ReportSignal(t, s)

Inside(t) ==
  CheckKilled(t) \/ Tripwire(t) \/ Policy(t) \/ Decide(t) \/ QuarantineTest(t) \/ Isolate(t)

Killing(t) ==
  \/ Engage(t) \/ Flip(t) \/ Terminate(t) \/ WriteRecord(t)
  \/ EventTest(t) \/ Mark(t) \/ AppendKill(t)

SessionStep ==
  \/ Start \/ Spawn \/ Attach \/ Wait \/ SessionKill \/ Close
  \/ Finalise \/ Sweeping \/ Verdict \/ End

Next ==
  \/ \E t \in Callers : Calls(t) \/ Inside(t)
  \/ \E t \in Threads : Killing(t)
  \/ SessionStep
  \/ Exit

Spec == Init /\ [][Next]_vars

(***************************************************************************)
(* Properties.                                                             *)
(***************************************************************************)
Idle == \A t \in Threads : pc[t] = "idle"

Steps ==
  {"idle", "check", "tripwire", "policy", "decide", "kill", "flip", "terminate", "note",
   "event", "mark", "append", "quarantine", "isolate", "spawn", "attach", "finalise",
   "sweeping", "swept", "verdict", "end"}

TypeOK ==
  /\ engaged \in BOOLEAN /\ record \in Threads \cup {None} /\ written \in BOOLEAN
  /\ quarantined \in BOOLEAN /\ logged \in BOOLEAN /\ sealed \in BOOLEAN
  /\ active \in BOOLEAN /\ proc \in {"none", "alive"} \cup Exits
  /\ seen \in BOOLEAN /\ stopped \in BOOLEAN /\ survived \in BOOLEAN
  /\ status \in {"CREATED", "RUNNING", "COMPLETED", "FAILED", "TERMINATED", "TIMEOUT", "KILLED"}
  /\ finalised \in BOOLEAN
  /\ pc \in [Threads -> Steps]
  /\ call \in [Threads -> [late : BOOLEAN, chastened : BOOLEAN,
                           verdict : Decisions \cup {None}, aim : BOOLEAN, seal : BOOLEAN,
                           code : {None, "alive"} \cup Exits,
                           outcome : Decisions \cup {None, "raised"}]]
  /\ calls \in [Callers -> Nat]

\* A call by t ends in this step.
EndsNow(t) == pc[t] # "idle" /\ pc'[t] = "idle"

\* No evaluate() that begins once a kill has begun returns anything but KILL,
\* however long the termination takes (evaluate, KillSwitch.engage).
KilledAuthorisesNothing ==
  [][\A t \in Callers : EndsNow(t) /\ call[t].late =>
       call'[t].outcome \in {"KILL", "raised"}]_vars

\* An action the policy blocks, evaluated by a session that was quarantined
\* when the call began, ends the session by the time the call returns
\* (evaluate, step 4).
QuarantineEscalates ==
  [][\A t \in Callers : EndsNow(t) /\ call[t].chastened /\ pc[t] \notin {"check", "tripwire"} =>
       engaged' \/ call'[t].outcome = "raised"]_vars

\* COMPLETED means that the process exited with 0 by itself, although a
\* terminated process may exit with 0 too (engage flips its state first).
CompletedIsVoluntary == status = "COMPLETED" => proc = "zero" /\ ~stopped

\* Once all calls have ended, an engaged switch has its record, and its
\* event is in the trace unless the trace was sealed (kill).
KillOnRecord == Idle /\ engaged => record # None /\ (logged \/ sealed)

\* A finalised session that was not killed leaves no process behind, except
\* one a termination reported as surviving (_finalise).
NothingLeft == finalised /\ Idle /\ proc = "alive" => engaged \/ survived

\* Nor does a session that was killed (the comment in _finalise).
NothingLeftByKill == finalised /\ Idle /\ proc = "alive" => survived
=============================================================================
