---------------------------- MODULE WatcherProofs ----------------------------
(***************************************************************************)
(* Proofs about Watcher, for any number of threads and calls.              *)
(***************************************************************************)
EXTENDS Watcher, TLAPS

Calling == [late : BOOLEAN, chastened : BOOLEAN, verdict : Decisions \cup {None},
            aim : BOOLEAN, seal : BOOLEAN, code : {None, "alive"} \cup Exits,
            outcome : Decisions \cup {None, "raised"}]

LEMMA BlankType ==
  /\ Blank \in Calling
  /\ \A o \in Decisions \cup {None, "raised"} : [Blank EXCEPT !.outcome = o] \in Calling
  /\ TypeOK => Fresh \in Calling
<1>1. Blank \in Calling
  BY DEF Blank, Calling, None
<1>2. \A o \in Decisions \cup {None, "raised"} : [Blank EXCEPT !.outcome = o] \in Calling
  BY DEF Blank, Calling, None
<1>3. TypeOK => Fresh \in Calling
  BY DEF Blank, Calling, None, Fresh, TypeOK
<1> QED
  BY <1>1, <1>2, <1>3

LEMMA EndsType ==
  ASSUME TypeOK, NEW t \in Threads, NEW o \in Decisions \cup {None, "raised"}, Ends(t, o)
  PROVE  pc' \in [Threads -> Steps] /\ call' \in [Threads -> Calling]
BY BlankType DEF TypeOK, Ends, Go, Steps, Calling

LEMMA ReturnType ==
  ASSUME TypeOK, NEW t \in Threads, Return(t) \/ Raise(t)
  PROVE  pc' \in [Threads -> Steps] /\ call' \in [Threads -> Calling]
<1>1. call[t].verdict \in Decisions \cup {None, "raised"}
  BY DEF TypeOK
<1> QED
  BY <1>1, EndsType DEF Return, Raise

LEMMA JudgedType ==
  ASSUME TypeOK, NEW t \in Threads, NEW d \in Decisions \cup {None}, NEW c \in BOOLEAN,
         Judged(t, d, c)
  PROVE  call' \in [Threads -> Calling]
<1>1. [call[t] EXCEPT !.verdict = d, !.chastened = c] \in Calling
  BY DEF TypeOK, Calling
<1> QED
  BY <1>1 DEF Judged, TypeOK, Calling

LEMMA ApplyType ==
  ASSUME TypeOK, NEW t \in Threads, NEW d \in Decisions \cup {None}, NEW c \in BOOLEAN,
         Apply(t, d, c)
  PROVE  pc' \in [Threads -> Steps] /\ call' \in [Threads -> Calling]
<1>1. CASE Ends(t, d)
  BY <1>1, EndsType
<1>2. CASE Route(d) # "idle" /\ Go(t, Route(d)) /\ Judged(t, d, c)
  <2>1. Route(d) \in Steps
    BY DEF Route, Steps
  <2> QED
    BY <1>2, <2>1, JudgedType DEF TypeOK, Go
<1> QED
  BY <1>1, <1>2 DEF Apply

LEMMA BeginType ==
  ASSUME TypeOK, NEW t \in Callers, NEW there \in Steps, NEW locals \in Calling,
         Begin(t, there, locals)
  PROVE  TypeOK'
BY DEF TypeOK, Begin, Go, Calling, Threads, switch, process, session

LEMMA CallsType ==
  ASSUME TypeOK, NEW t \in Callers, Calls(t)
  PROVE  TypeOK'
<1>1. /\ Blank \in Calling /\ Fresh \in Calling
      /\ \A o \in Decisions \cup {None, "raised"} : [Blank EXCEPT !.outcome = o] \in Calling
  BY BlankType
<1>2. {"idle", "check", "kill", "quarantine"} \subseteq Steps
  BY DEF Steps
<1>3. CASE Evaluate(t)
  BY <1>1, <1>2, <1>3, BeginType DEF Evaluate
<1>4. CASE ReportProcess(t)
  BY <1>1, <1>2, <1>4, BeginType DEF ReportProcess
<1>5. CASE Kill(t) \/ Quarantine(t)
  BY <1>1, <1>2, <1>5, BeginType DEF Kill, Quarantine
<1>6. CASE ExportTrace(t)
  BY <1>6 DEF ExportTrace, TypeOK, switch, process, session
<1>7. ASSUME NEW s, ReportSignal(t, s) PROVE TypeOK'
  <2> DEFINE d == IF engaged THEN "KILL" ELSE response_for(s)
  <2>1. d \in Decisions
    BY DEF response_for, Decisions
  <2>2. Route(d) \in Steps
    BY DEF Route, Steps
  <2>3. [Blank EXCEPT !.late = engaged, !.verdict = d] \in Calling
    BY <2>1 DEF Blank, Calling, TypeOK, None
  <2>4. \/ Begin(t, "idle", [Blank EXCEPT !.outcome = "raised"])
        \/ Begin(t, "idle", [Blank EXCEPT !.outcome = d])
        \/ Begin(t, Route(d), [Blank EXCEPT !.late = engaged, !.verdict = d])
    BY <1>7 DEF ReportSignal
  <2> HIDE DEF d
  <2> QED
    BY <1>1, <1>2, <2>1, <2>2, <2>3, <2>4, BeginType
<1> QED
  BY <1>3, <1>4, <1>5, <1>6, <1>7 DEF Calls

\* The other threads' locals and every shared variable but the named ones
\* stay: enough for TypeOK once pc' and call' are typed.
LEMMA InsideType ==
  ASSUME TypeOK, NEW t \in Callers, Inside(t)
  PROVE  TypeOK'
<1> USE DEF switch, process, session
<1>1. t \in Threads
  BY DEF Threads
<1>2. ASSUME /\ pc' \in [Threads -> Steps] /\ call' \in [Threads -> Calling]
             /\ quarantined' \in BOOLEAN
             /\ UNCHANGED <<switch, logged, sealed, active, process, session, calls>>
      PROVE  TypeOK'
  BY <1>2 DEF TypeOK, Calling
<1>3. CASE CheckKilled(t)
  <2>1. pc' \in [Threads -> Steps] /\ call' \in [Threads -> Calling]
    <3>1. CASE Ends(t, "KILL") \/ Raise(t)
      BY <1>1, <3>1, EndsType DEF Raise, Decisions
    <3>2. CASE Go(t, "tripwire") /\ UNCHANGED call
      BY <3>2 DEF TypeOK, Go, Steps, Calling
    <3> QED
      BY <1>3, <3>1, <3>2 DEF CheckKilled
  <2> QED
    BY <1>2, <1>3, <2>1 DEF CheckKilled, TypeOK
<1>4. CASE Tripwire(t)
  <2>1. pc' \in [Threads -> Steps] /\ call' \in [Threads -> Calling]
    <3>1. CASE Go(t, "policy") /\ UNCHANGED call
      BY <3>1 DEF TypeOK, Go, Steps, Calling
    <3>2. CASE Raise(t)
      BY <1>1, <3>2, ReturnType
    <3>3. ASSUME NEW d \in Decisions, Apply(t, d, FALSE)
          PROVE  pc' \in [Threads -> Steps] /\ call' \in [Threads -> Calling]
      BY <1>1, <3>3, ApplyType
    <3> QED
      BY <1>4, <3>1, <3>2, <3>3 DEF Tripwire
  <2> QED
    BY <1>2, <1>4, <2>1 DEF Tripwire, TypeOK
<1>5. CASE Policy(t)
  <2>1. PICK d \in Decisions :
          Judged(t, IF quarantined /\ blocked(d) THEN "KILL" ELSE d,
                 call[t].chastened /\ blocked(d))
    BY <1>5 DEF Policy
  <2> DEFINE c == call[t].chastened /\ blocked(d)
             v == IF quarantined /\ blocked(d) THEN "KILL" ELSE d
  <2>2. call' \in [Threads -> Calling]
    <3>1. Judged(t, v, c)
      BY <2>1
    <3>2. c \in BOOLEAN /\ v \in Decisions \cup {None}
      BY DEF Decisions
    <3> HIDE DEF c, v
    <3> QED
      BY <1>1, <3>1, <3>2, JudgedType
  <2>3. pc' \in [Threads -> Steps]
    BY <1>5 DEF Policy, Go, TypeOK, Steps
  <2> QED
    BY <1>2, <1>5, <2>2, <2>3 DEF Policy, TypeOK
<1>6. CASE Decide(t)
  <2>1. call[t].verdict \in Decisions \cup {None} /\ call[t].chastened \in BOOLEAN
    BY <1>1 DEF TypeOK
  <2>2. pc' \in [Threads -> Steps] /\ call' \in [Threads -> Calling]
    BY <1>1, <1>6, <2>1, ApplyType, ReturnType DEF Decide
  <2> QED
    BY <1>2, <1>6, <2>2 DEF Decide, TypeOK
<1>7. CASE QuarantineTest(t)
  <2>1. pc' \in [Threads -> Steps] /\ call' \in [Threads -> Calling]
    <3>1. CASE Return(t)
      BY <1>1, <3>1, ReturnType
    <3>2. CASE Go(t, "isolate") /\ UNCHANGED call
      BY <3>2 DEF TypeOK, Go, Steps, Calling
    <3> QED
      BY <1>7, <3>1, <3>2 DEF QuarantineTest
  <2> QED
    BY <1>2, <1>7, <2>1 DEF QuarantineTest, TypeOK
<1>8. CASE Isolate(t)
  BY <1>1, <1>2, <1>8, ReturnType DEF Isolate, RecordedLast
<1> QED
  BY <1>3, <1>4, <1>5, <1>6, <1>7, <1>8 DEF Inside

LEMMA TerminateTreeType ==
  ASSUME TypeOK, TerminateTree
  PROVE  /\ proc' \in {"none", "alive"} \cup Exits /\ seen' \in BOOLEAN
         /\ stopped' \in BOOLEAN /\ survived' \in BOOLEAN
BY DEF TypeOK, TerminateTree

LEMMA KillingType ==
  ASSUME TypeOK, NEW t \in Threads, Killing(t)
  PROVE  TypeOK'
<1> USE DEF switch, process, session
<1>1. CASE Engage(t)
  <2> DEFINE a == (t = Owner \/ active)
  <2>1. call' = [call EXCEPT ![t] = [call[t] EXCEPT !.aim = a]] /\ a \in BOOLEAN
    BY <1>1 DEF Engage
  <2> HIDE DEF a
  <2>2. call' \in [Threads -> Calling]
    BY <2>1 DEF TypeOK, Calling
  <2>3. pc' \in [Threads -> Steps]
    BY <1>1 DEF Engage, Go, TypeOK, Steps
  <2> QED
    BY <1>1, <2>2, <2>3 DEF Engage, TypeOK, Calling
<1>2. CASE Flip(t)
  BY <1>2 DEF Flip, At, Go, TypeOK, Steps
<1>3. CASE Terminate(t)
  <2>1. /\ proc' \in {"none", "alive"} \cup Exits /\ seen' \in BOOLEAN
        /\ stopped' \in BOOLEAN /\ survived' \in BOOLEAN
    BY <1>3, TerminateTreeType DEF Terminate, TypeOK
  <2> QED
    BY <1>3, <2>1 DEF Terminate, At, Go, TypeOK, Steps
<1>4. CASE WriteRecord(t)
  BY <1>4 DEF WriteRecord, At, Go, TypeOK, Steps
<1>5. CASE EventTest(t)
  <2>1. pc' \in [Threads -> Steps] /\ call' \in [Threads -> Calling]
    <3>1. CASE Return(t)
      BY <3>1, ReturnType
    <3>2. CASE Go(t, "mark") /\ UNCHANGED call
      BY <3>2 DEF TypeOK, Go, Steps, Calling
    <3> QED
      BY <1>5, <3>1, <3>2 DEF EventTest
  <2> QED
    BY <1>5, <2>1 DEF EventTest, TypeOK, Calling
<1>6. CASE Mark(t)
  <2>1. pc' \in [Threads -> Steps]
    BY <1>6 DEF Mark, Go, TypeOK, Steps
  <2>2. written' \in BOOLEAN /\ active' \in BOOLEAN
    BY <1>6 DEF Mark
  <2> QED
    BY <1>6, <2>1, <2>2 DEF Mark, TypeOK
<1>7. CASE AppendKill(t)
  <2>1. pc' \in [Threads -> Steps] /\ call' \in [Threads -> Calling]
    BY <1>7, ReturnType DEF AppendKill, RecordedLast
  <2> QED
    BY <1>7, <2>1 DEF AppendKill, TypeOK, Calling
<1> QED
  BY <1>1, <1>2, <1>3, <1>4, <1>5, <1>6, <1>7 DEF Killing

LEMMA OwnerBeginsType ==
  ASSUME TypeOK, NEW there \in Steps, NEW locals \in Calling, OwnerBegins(there, locals)
  PROVE  /\ pc' \in [Threads -> Steps] /\ call' \in [Threads -> Calling]
         /\ UNCHANGED <<engaged, record, written, quarantined, logged, sealed, active, calls>>
BY DEF TypeOK, OwnerBegins, Go, Calling, Threads, switch

LEMMA SessionType ==
  ASSUME TypeOK, SessionStep
  PROVE  TypeOK'
<1> USE DEF switch, process, session
<1>0. Owner \in Threads /\ Blank \in Calling
  BY BlankType DEF Threads
<1>1. CASE Start
  <2>1. (IF engaged THEN "idle" ELSE "spawn") \in Steps
    BY DEF Steps
  <2>2. OwnerBegins(IF engaged THEN "idle" ELSE "spawn", Blank)
    BY <1>1 DEF Start
  <2> QED
    BY <1>0, <1>1, <2>1, <2>2, OwnerBeginsType DEF Start, TypeOK, Calling
<1>2. CASE Spawn
  <2>1. pc' \in [Threads -> Steps] /\ call' \in [Threads -> Calling]
    <3>1. CASE Raise(Owner)
      BY <1>0, <3>1, ReturnType
    <3>2. CASE Go(Owner, "attach") /\ UNCHANGED call
      BY <3>2 DEF TypeOK, Go, Steps, Calling
    <3> QED
      BY <1>2, <3>1, <3>2 DEF Spawn
  <2> QED
    BY <1>2, <2>1 DEF Spawn, TypeOK, Calling
<1>3. CASE Attach
  <2>1. pc' \in [Threads -> Steps] /\ call' \in [Threads -> Calling]
    BY <1>0, <1>3, ReturnType DEF Attach, RecordedLast
  <2> QED
    BY <1>3, <2>1 DEF Attach, TypeOK, Calling
<1>4. CASE Wait
  <2>1. "finalise" \in Steps /\ "idle" \in Steps
    BY DEF Steps
  <2>2. proc # "none" => [Blank EXCEPT !.code = proc] \in Calling
    BY DEF TypeOK, Blank, Calling, None
  <2>3. /\ pc' \in [Threads -> Steps] /\ call' \in [Threads -> Calling]
        /\ UNCHANGED <<engaged, record, written, quarantined, logged, sealed, active, calls>>
    BY <1>0, <1>4, <2>1, <2>2, OwnerBeginsType DEF Wait
  <2>4. seen' \in BOOLEAN /\ status' \in {status, "TIMEOUT"}
    BY <1>4 DEF Wait, TypeOK
  <2> QED
    BY <1>4, <2>3, <2>4 DEF Wait, TypeOK, Calling
<1>5. CASE SessionKill
  <2>1. "kill" \in Steps
    BY DEF Steps
  <2> QED
    BY <1>0, <1>5, <2>1, OwnerBeginsType DEF SessionKill, TypeOK, Calling
<1>6. CASE Close
  <2>1. PICK s \in BOOLEAN :
          OwnerBegins("finalise", [Blank EXCEPT !.seal = s, !.code = IF seen THEN proc ELSE None])
    BY <1>6 DEF Close
  <2>2. "finalise" \in Steps
    BY DEF Steps
  <2>3. [Blank EXCEPT !.seal = s, !.code = IF seen THEN proc ELSE None] \in Calling
    BY DEF TypeOK, Blank, Calling, None
  <2> DEFINE l == [Blank EXCEPT !.seal = s, !.code = IF seen THEN proc ELSE None]
  <2>4. OwnerBegins("finalise", l) /\ l \in Calling
    BY <2>1, <2>3
  <2> HIDE DEF l
  <2>5. /\ pc' \in [Threads -> Steps] /\ call' \in [Threads -> Calling]
        /\ UNCHANGED <<engaged, record, written, quarantined, logged, sealed, active, calls>>
    BY <2>2, <2>4, OwnerBeginsType
  <2>6. UNCHANGED <<process, session>>
    BY <1>6 DEF Close
  <2> QED
    BY <2>5, <2>6 DEF TypeOK, Calling
<1>7. CASE Finalise
  <2>1. pc' \in [Threads -> Steps] /\ call' \in [Threads -> Calling] /\ sealed' \in BOOLEAN
    <3>1. CASE Closed
      <4>1. pc' \in [Threads -> Steps] /\ call' \in [Threads -> Calling]
        BY <1>0, <3>1, ReturnType DEF Closed
      <4>2. sealed' \in BOOLEAN
        BY <3>1 DEF Closed
      <4> QED
        BY <4>1, <4>2
    <3>2. CASE /\ Go(Owner, IF proc = "alive" /\ ~engaged THEN "sweeping" ELSE "verdict")
               /\ UNCHANGED <<sealed, call>>
      BY <3>2 DEF TypeOK, Go, Steps, Calling
    <3> QED
      BY <1>7, <3>1, <3>2 DEF Finalise, Running
  <2>2. seen' \in BOOLEAN /\ finalised' \in BOOLEAN
    BY <1>7 DEF Finalise, Running
  <2> QED
    BY <1>7, <2>1, <2>2 DEF Finalise, Running, TypeOK, Calling
<1>8. CASE Sweeping
  <2>1. /\ proc' \in {"none", "alive"} \cup Exits /\ seen' \in BOOLEAN
        /\ stopped' \in BOOLEAN /\ survived' \in BOOLEAN
    BY <1>8, TerminateTreeType DEF Sweeping
  <2>2. pc' \in [Threads -> Steps] /\ call' \in [Threads -> Calling]
    <3>1. CASE Raise(Owner)
      BY <1>0, <3>1, ReturnType
    <3>2. CASE /\ Go(Owner, "swept")
               /\ call' = [call EXCEPT ![Owner].code = IF seen' THEN proc' ELSE None]
      <4> DEFINE k == IF seen' THEN proc' ELSE None
      <4>1. k \in {None, "alive"} \cup Exits /\ call' = [call EXCEPT ![Owner].code = k]
        BY <2>1, <3>2 DEF None
      <4> HIDE DEF k
      <4> QED
        BY <1>0, <3>2, <4>1 DEF TypeOK, Go, Steps, Calling
    <3> QED
      BY <1>8, <3>1, <3>2 DEF Sweeping
  <2> QED
    BY <1>8, <2>1, <2>2 DEF Sweeping, TypeOK, Calling
<1>9. CASE Verdict
  <2>1. pc' \in [Threads -> Steps]
    BY <1>9 DEF Verdict, Go, TypeOK, Steps
  <2>2. status' \in {"KILLED", "TERMINATED", "TIMEOUT", "COMPLETED", "FAILED"}
    BY <1>9 DEF Verdict
  <2> QED
    BY <1>9, <2>1, <2>2 DEF Verdict, TypeOK
<1>10. CASE End
  <2>1. pc' \in [Threads -> Steps] /\ call' \in [Threads -> Calling] /\ sealed' \in BOOLEAN
    <3>1. pc' \in [Threads -> Steps] /\ call' \in [Threads -> Calling]
      BY <1>0, <1>10, ReturnType DEF End, Closed
    <3>2. sealed' \in BOOLEAN
      BY <1>10 DEF End, Closed, TypeOK
    <3> QED
      BY <3>1, <3>2
  <2>2. active' \in BOOLEAN
    BY <1>10 DEF End
  <2> QED
    BY <1>10, <2>1, <2>2 DEF End, TypeOK, Calling
<1> QED
  BY <1>1, <1>2, <1>3, <1>4, <1>5, <1>6, <1>7, <1>8, <1>9, <1>10 DEF SessionStep

(***************************************************************************)
(* The watcher's variables, and the locals of its callers, keep their      *)
(* types.                                                                  *)
(***************************************************************************)
THEOREM TypeCorrect == Spec => []TypeOK
<1>1. Init => TypeOK
  <2> SUFFICES ASSUME Init PROVE TypeOK
    OBVIOUS
  <2>1. call \in [Threads -> Calling]
    BY BlankType DEF Init
  <2>2. pc \in [Threads -> Steps] /\ calls \in [Callers -> Nat]
    BY WatcherAssumption DEF Init, Steps
  <2> QED
    BY <2>1, <2>2 DEF Init, TypeOK, Calling
<1>2. TypeOK /\ [Next]_vars => TypeOK'
  <2> SUFFICES ASSUME TypeOK, [Next]_vars PROVE TypeOK'
    OBVIOUS
  <2>1. CASE Exit
    BY <2>1 DEF Exit, TypeOK, switch, session
  <2>2. CASE UNCHANGED vars
    BY <2>2 DEF vars, TypeOK
  <2> QED
    BY <2>1, <2>2, CallsType, InsideType, KillingType, SessionType DEF Next
<1> QED
  BY <1>1, <1>2, PTL DEF Spec

(***************************************************************************)
(* The switch and the calls in progress.                                   *)
(***************************************************************************)
Engaging == {"terminate", "note", "event", "mark", "append"}
KillSteps == {"kill", "flip"} \cup Engaging

\* Whoever is past the flip, or has left a record, has engaged the switch.
SwitchInv ==
  /\ \A t \in Threads : pc[t] \in Engaging => engaged
  /\ record # None => engaged

\* A late call is about to be refused, or on its way through kill().
LateInv ==
  \A t \in Threads : call[t].late =>
    engaged /\ (pc[t] = "check" \/ (pc[t] \in KillSteps /\ call[t].verdict = "KILL"))

\* A blocked action of a quarantined session is on its way through kill().
ChastenedInv ==
  \A t \in Threads : call[t].chastened =>
    /\ quarantined
    /\ \/ pc[t] \in {"check", "tripwire", "policy"}
       \/ pc[t] \in {"decide"} \cup KillSteps /\ call[t].verdict = "KILL"

JudgeInv == SwitchInv /\ LateInv /\ ChastenedInv

LEMMA EndsFields ==
  ASSUME TypeOK, NEW t \in Threads, NEW o, Ends(t, o)
  PROVE  /\ pc'[t] = "idle" /\ ~call'[t].late /\ ~call'[t].chastened
         /\ call'[t].outcome = o
         /\ \A u \in Threads \ {t} : pc'[u] = pc[u] /\ call'[u] = call[u]
<1>1. /\ [Blank EXCEPT !.outcome = o].late = FALSE
      /\ [Blank EXCEPT !.outcome = o].chastened = FALSE
      /\ [Blank EXCEPT !.outcome = o].outcome = o
  BY DEF Blank
<1> QED
  BY <1>1 DEF TypeOK, Ends, Go

LEMMA GoFields ==
  ASSUME TypeOK, NEW t \in Threads, NEW there, Go(t, there)
  PROVE  pc'[t] = there /\ \A u \in Threads \ {t} : pc'[u] = pc[u]
BY DEF TypeOK, Go

\* A call that ends cannot break the invariant.
LEMMA EndsJudge ==
  ASSUME TypeOK, JudgeInv, NEW t \in Threads, NEW o, Ends(t, o),
         engaged => engaged', record' = record, quarantined => quarantined'
  PROVE  JudgeInv'
<1>1. /\ pc'[t] = "idle" /\ ~call'[t].late /\ ~call'[t].chastened
      /\ \A u \in Threads \ {t} : pc'[u] = pc[u] /\ call'[u] = call[u]
  BY EndsFields
<1>2. SwitchInv'
  BY <1>1 DEF JudgeInv, SwitchInv, Engaging
<1>3. LateInv'
  <2> SUFFICES ASSUME NEW u \in Threads, call'[u].late
               PROVE  engaged' /\ (pc'[u] = "check" \/ (pc'[u] \in KillSteps /\ call'[u].verdict = "KILL"))
    BY DEF LateInv
  <2> QED
    BY <1>1 DEF JudgeInv, LateInv
<1>4. ChastenedInv'
  <2> SUFFICES ASSUME NEW u \in Threads, call'[u].chastened
               PROVE  /\ quarantined'
                      /\ \/ pc'[u] \in {"check", "tripwire", "policy"}
                         \/ pc'[u] \in {"decide"} \cup KillSteps /\ call'[u].verdict = "KILL"
    BY DEF ChastenedInv
  <2> QED
    BY <1>1 DEF JudgeInv, ChastenedInv
<1> QED
  BY <1>2, <1>3, <1>4 DEF JudgeInv

\* A thread that moves on keeps it if it is all right where it arrives.
LEMMA MoveJudge ==
  ASSUME TypeOK, JudgeInv, NEW t \in Threads, NEW there, Go(t, there),
         \A u \in Threads \ {t} : call'[u] = call[u],
         engaged => engaged', record' # None => engaged', quarantined => quarantined',
         there \in Engaging => engaged',
         call'[t].late => engaged' /\ (there = "check" \/ (there \in KillSteps /\ call'[t].verdict = "KILL")),
         call'[t].chastened =>
           /\ quarantined'
           /\ \/ there \in {"check", "tripwire", "policy"}
              \/ there \in {"decide"} \cup KillSteps /\ call'[t].verdict = "KILL"
  PROVE  JudgeInv'
<1>1. pc'[t] = there /\ \A u \in Threads \ {t} : pc'[u] = pc[u]
  BY GoFields
<1>2. SwitchInv'
  <2> SUFFICES ASSUME NEW u \in Threads, pc'[u] \in Engaging PROVE engaged'
    BY DEF SwitchInv
  <2> QED
    BY <1>1 DEF JudgeInv, SwitchInv
<1>3. LateInv'
  <2> SUFFICES ASSUME NEW u \in Threads, call'[u].late
               PROVE  engaged' /\ (pc'[u] = "check" \/ (pc'[u] \in KillSteps /\ call'[u].verdict = "KILL"))
    BY DEF LateInv
  <2> QED
    BY <1>1 DEF JudgeInv, LateInv
<1>4. ChastenedInv'
  <2> SUFFICES ASSUME NEW u \in Threads, call'[u].chastened
               PROVE  /\ quarantined'
                      /\ \/ pc'[u] \in {"check", "tripwire", "policy"}
                         \/ pc'[u] \in {"decide"} \cup KillSteps /\ call'[u].verdict = "KILL"
    BY DEF ChastenedInv
  <2> QED
    BY <1>1 DEF JudgeInv, ChastenedInv
<1> QED
  BY <1>2, <1>3, <1>4 DEF JudgeInv

LEMMA BeginJudge ==
  ASSUME TypeOK, JudgeInv, NEW t \in Callers, NEW there, NEW locals \in Calling,
         Begin(t, there, locals), there \notin Engaging,
         locals.late => engaged /\ (there = "check" \/ (there \in KillSteps /\ locals.verdict = "KILL")),
         locals.chastened => quarantined /\ there = "check"
  PROVE  JudgeInv'
<1>1. t \in Threads
  BY DEF Threads
<1>2. /\ Go(t, there) /\ call'[t] = locals /\ \A u \in Threads \ {t} : call'[u] = call[u]
      /\ UNCHANGED <<engaged, record, quarantined>>
  BY <1>1 DEF Begin, TypeOK, switch
<1> QED
  BY <1>1, <1>2, MoveJudge DEF JudgeInv, SwitchInv

LEMMA CallsJudge ==
  ASSUME TypeOK, JudgeInv, NEW t \in Callers, Calls(t)
  PROVE  JudgeInv'
<1>1. /\ Blank \in Calling /\ Fresh \in Calling
      /\ \A o \in Decisions \cup {None, "raised"} : [Blank EXCEPT !.outcome = o] \in Calling
  BY BlankType
<1>2. /\ ~Blank.late /\ ~Blank.chastened
      /\ \A o : ~[Blank EXCEPT !.outcome = o].late /\ ~[Blank EXCEPT !.outcome = o].chastened
      /\ Fresh.late = engaged /\ Fresh.chastened = quarantined
  BY DEF Blank, Fresh
<1>3. {"idle", "check", "kill", "quarantine"} \cap Engaging = {}
  BY DEF Engaging
<1>4. CASE Evaluate(t)
  BY <1>1, <1>2, <1>3, <1>4, BeginJudge DEF Evaluate
<1>5. CASE ReportProcess(t)
  BY <1>1, <1>2, <1>3, <1>5, BeginJudge DEF ReportProcess
<1>6. CASE Kill(t) \/ Quarantine(t)
  BY <1>1, <1>2, <1>3, <1>6, BeginJudge DEF Kill, Quarantine
<1>7. CASE ExportTrace(t)
  BY <1>7 DEF ExportTrace, JudgeInv, SwitchInv, LateInv, ChastenedInv, switch
<1>8. ASSUME NEW s, ReportSignal(t, s) PROVE JudgeInv'
  <2> DEFINE d == IF engaged THEN "KILL" ELSE response_for(s)
             l == [Blank EXCEPT !.late = engaged, !.verdict = d]
  <2>1. d \in {"KILL", "DENY"} /\ (engaged => d = "KILL")
    BY DEF response_for
  <2>2. l \in Calling
    BY <2>1 DEF Blank, Calling, TypeOK, None, Decisions
  <2>3. l.late = engaged /\ ~l.chastened /\ l.verdict = d
    BY DEF Blank
  <2>4. \/ Begin(t, "idle", [Blank EXCEPT !.outcome = "raised"])
        \/ Begin(t, "idle", [Blank EXCEPT !.outcome = d])
        \/ Route(d) # "idle" /\ Begin(t, Route(d), l)
    BY <1>8 DEF ReportSignal
  <2>5. Route(d) # "idle" => Route(d) = "kill" /\ d = "KILL"
    BY <2>1 DEF Route
  <2> HIDE DEF d, l
  <2>6. CASE Begin(t, "idle", [Blank EXCEPT !.outcome = "raised"])
    BY <1>1, <1>2, <1>3, <2>6, BeginJudge
  <2>7. CASE Begin(t, "idle", [Blank EXCEPT !.outcome = d])
    BY <1>1, <1>2, <1>3, <2>1, <2>7, BeginJudge DEF Decisions
  <2>8. CASE Route(d) # "idle" /\ Begin(t, Route(d), l)
    BY <1>3, <2>2, <2>3, <2>5, <2>8, BeginJudge DEF KillSteps
  <2> QED
    BY <2>4, <2>6, <2>7, <2>8
<1> QED
  BY <1>4, <1>5, <1>6, <1>7, <1>8 DEF Calls

\* A judged call keeps it if a call that is late, or was chastened, gets KILL.
LEMMA ApplyJudge ==
  ASSUME TypeOK, JudgeInv, NEW t \in Threads, NEW d, NEW c \in BOOLEAN, Apply(t, d, c),
         ~call[t].late, c => quarantined /\ d = "KILL",
         UNCHANGED <<switch, quarantined>>
  PROVE  JudgeInv'
<1> USE DEF switch
<1>1. CASE Ends(t, d)
  BY <1>1, EndsJudge
<1>2. CASE Route(d) # "idle" /\ Go(t, Route(d)) /\ Judged(t, d, c)
  <2>1. Route(d) \in {"kill", "quarantine"} /\ (d = "KILL" => Route(d) = "kill")
    BY <1>2 DEF Route
  <2>2. /\ call'[t].late = call[t].late /\ call'[t].verdict = d /\ call'[t].chastened = c
        /\ \A u \in Threads \ {t} : call'[u] = call[u]
    BY <1>2 DEF Judged, TypeOK
  <2> QED
    BY <1>2, <2>1, <2>2, MoveJudge DEF KillSteps, Engaging, JudgeInv, SwitchInv
<1> QED
  BY <1>1, <1>2 DEF Apply

LEMMA InsideJudge ==
  ASSUME TypeOK, JudgeInv, NEW t \in Callers, Inside(t)
  PROVE  JudgeInv'
<1> USE DEF switch
<1>0. t \in Threads
  BY DEF Threads
<1>a. UNCHANGED <<engaged, record>> /\ (quarantined => quarantined')
  <2>1. CASE Isolate(t)
    BY <2>1 DEF Isolate
  <2>2. CASE CheckKilled(t) \/ QuarantineTest(t)
    BY <2>2 DEF CheckKilled, QuarantineTest
  <2>3. CASE Tripwire(t)
    BY <2>3 DEF Tripwire
  <2>4. CASE Policy(t)
    BY <2>4 DEF Policy
  <2>5. CASE Decide(t)
    BY <2>5 DEF Decide
  <2> QED
    BY <2>1, <2>2, <2>3, <2>4, <2>5 DEF Inside
<1>b. record # None => engaged
  BY DEF JudgeInv, SwitchInv
<1>c. ASSUME NEW o, Ends(t, o) PROVE JudgeInv'
  BY <1>0, <1>a, <1>c, EndsJudge
<1>d. pc[t] \notin {"check"} \cup KillSteps => ~call[t].late
  BY <1>0 DEF JudgeInv, LateInv
<1>1. CASE CheckKilled(t)
  <2>1. CASE Ends(t, "KILL") \/ Raise(t)
    BY <2>1, <1>c DEF Raise
  <2>2. CASE ~engaged /\ Go(t, "tripwire") /\ UNCHANGED call
    <3>1. ~call[t].late
      BY <1>0, <2>2 DEF JudgeInv, LateInv
    <3>2. call[t].chastened => quarantined
      BY <1>0 DEF JudgeInv, ChastenedInv
    <3> QED
      BY <1>0, <1>a, <1>b, <2>2, <3>1, <3>2, MoveJudge DEF Engaging
  <2> QED
    BY <1>1, <2>1, <2>2 DEF CheckKilled
<1>2. CASE Tripwire(t)
  <2>0. ~call[t].late
    BY <1>2, <1>d DEF Tripwire, At, KillSteps, Engaging
  <2>1. CASE Go(t, "policy") /\ UNCHANGED call
    <3>1. call[t].chastened => quarantined
      BY <1>0 DEF JudgeInv, ChastenedInv
    <3> QED
      BY <1>0, <1>a, <1>b, <2>0, <2>1, <3>1, MoveJudge DEF Engaging
  <2>2. CASE Raise(t)
    BY <2>2, <1>c DEF Raise
  <2>3. ASSUME NEW d \in Decisions, Apply(t, d, FALSE) PROVE JudgeInv'
    <3>1. UNCHANGED quarantined
      BY <1>2 DEF Tripwire
    <3> QED
      BY <1>0, <1>2, <2>0, <2>3, <3>1, ApplyJudge DEF Tripwire
  <2> QED
    BY <1>2, <2>1, <2>2, <2>3 DEF Tripwire
<1>3. CASE Policy(t)
  <2>0. ~call[t].late /\ UNCHANGED quarantined /\ Go(t, "decide")
    BY <1>3, <1>d DEF Policy, At, KillSteps, Engaging
  <2>1. PICK d \in Decisions :
          Judged(t, IF quarantined /\ blocked(d) THEN "KILL" ELSE d,
                 call[t].chastened /\ blocked(d))
    BY <1>3 DEF Policy
  <2> DEFINE c == call[t].chastened /\ blocked(d)
             v == IF quarantined /\ blocked(d) THEN "KILL" ELSE d
  <2>2. Judged(t, v, c) /\ c \in BOOLEAN
    BY <2>1
  <2>3. c => quarantined /\ v = "KILL"
    <3>1. call[t].chastened => quarantined
      BY <1>0 DEF JudgeInv, ChastenedInv
    <3> QED
      BY <3>1
  <2> HIDE DEF c, v
  <2>4. /\ call'[t].late = call[t].late /\ call'[t].verdict = v /\ call'[t].chastened = c
        /\ \A u \in Threads \ {t} : call'[u] = call[u]
    BY <1>0, <2>2 DEF Judged, TypeOK
  <2> QED
    BY <1>0, <1>a, <1>b, <2>0, <2>3, <2>4, MoveJudge DEF Engaging
<1>4. CASE Decide(t)
  <2>0. ~call[t].late /\ UNCHANGED <<switch, quarantined>>
    BY <1>4, <1>d DEF Decide, At, KillSteps, Engaging
  <2>1. call[t].chastened => quarantined /\ call[t].verdict = "KILL"
    BY <1>0, <1>4 DEF JudgeInv, ChastenedInv, Decide, At
  <2>2. call[t].chastened \in BOOLEAN
    BY <1>0 DEF TypeOK
  <2>3. CASE Apply(t, call[t].verdict, call[t].chastened)
    BY <1>0, <2>0, <2>1, <2>2, <2>3, ApplyJudge
  <2>4. CASE Raise(t)
    BY <2>4, <1>c DEF Raise
  <2> QED
    BY <1>4, <2>3, <2>4 DEF Decide
<1>5. CASE QuarantineTest(t) \/ Isolate(t)
  <2>1. CASE Return(t) \/ Raise(t)
    BY <2>1, <1>c DEF Return, Raise
  <2>2. CASE QuarantineTest(t) /\ Go(t, "isolate") /\ UNCHANGED call
    <3>1. ~call[t].late /\ ~call[t].chastened
      BY <1>0, <2>2, <1>d DEF QuarantineTest, At, KillSteps, Engaging, JudgeInv, ChastenedInv
    <3> QED
      BY <1>0, <1>a, <1>b, <2>2, <3>1, MoveJudge DEF Engaging
  <2> QED
    BY <1>5, <2>1, <2>2 DEF QuarantineTest, Isolate, RecordedLast
<1> QED
  BY <1>1, <1>2, <1>3, <1>4, <1>5 DEF Inside

LEMMA KillingJudge ==
  ASSUME TypeOK, JudgeInv, NEW t \in Threads, Killing(t)
  PROVE  JudgeInv'
<1> USE DEF switch
<1>a. /\ pc[t] \in Engaging => engaged
      /\ record # None => engaged
      /\ call[t].late => engaged /\ (pc[t] \in KillSteps => call[t].verdict = "KILL")
      /\ call[t].chastened => quarantined /\ (pc[t] \in KillSteps => call[t].verdict = "KILL")
  BY DEF JudgeInv, SwitchInv, LateInv, ChastenedInv, KillSteps, Engaging
\* A step within kill() that leaves the call as it is, but for its aim.
<1>b. ASSUME NEW there \in KillSteps, Go(t, there), pc[t] \in KillSteps,
             UNCHANGED quarantined, engaged => engaged', record' # None => engaged',
             there \in Engaging => engaged',
             call'[t].late = call[t].late, call'[t].chastened = call[t].chastened,
             call'[t].verdict = call[t].verdict,
             \A u \in Threads \ {t} : call'[u] = call[u]
      PROVE  JudgeInv'
  BY <1>a, <1>b, MoveJudge
<1>1. CASE Engage(t)
  <2> DEFINE a == (t = Owner \/ active)
  <2>1. call' = [call EXCEPT ![t] = [call[t] EXCEPT !.aim = a]]
    BY <1>1 DEF Engage
  <2> HIDE DEF a
  <2>2. /\ call'[t].late = call[t].late /\ call'[t].chastened = call[t].chastened
        /\ call'[t].verdict = call[t].verdict
        /\ \A u \in Threads \ {t} : call'[u] = call[u]
    BY <2>1 DEF TypeOK
  <2> DEFINE there == IF record # None THEN "event" ELSE "flip"
  <2>3. there \in KillSteps /\ (there \in Engaging => engaged)
    BY <1>a DEF KillSteps, Engaging
  <2>4. Go(t, there) /\ pc[t] \in KillSteps /\ UNCHANGED <<engaged, record, quarantined>>
    BY <1>1 DEF Engage, At, KillSteps
  <2> HIDE DEF there
  <2> QED
    BY <1>a, <1>b, <2>2, <2>3, <2>4
<1>2. CASE Flip(t)
  BY <1>2, <1>b DEF Flip, At, KillSteps, Engaging
<1>3. CASE Terminate(t)
  BY <1>a, <1>b, <1>3 DEF Terminate, At, KillSteps, Engaging
<1>4. CASE WriteRecord(t)
  BY <1>a, <1>b, <1>4 DEF WriteRecord, At, KillSteps, Engaging
<1>5. CASE EventTest(t)
  <2>1. UNCHANGED <<engaged, record, quarantined>> /\ pc[t] = "event"
    BY <1>5 DEF EventTest, At
  <2>2. CASE Return(t)
    BY <2>1, <2>2, EndsJudge DEF Return
  <2>3. CASE Go(t, "mark") /\ UNCHANGED call
    BY <1>a, <1>b, <2>1, <2>3 DEF KillSteps, Engaging
  <2> QED
    BY <1>5, <2>2, <2>3 DEF EventTest
<1>6. CASE Mark(t)
  BY <1>a, <1>b, <1>6 DEF Mark, At, KillSteps, Engaging
<1>7. CASE AppendKill(t)
  <2>1. UNCHANGED <<engaged, record, quarantined>>
    BY <1>7 DEF AppendKill
  <2>2. Ends(t, call[t].verdict) \/ Ends(t, "raised")
    BY <1>7 DEF AppendKill, RecordedLast, Return, Raise
  <2> QED
    BY <2>1, <2>2, EndsJudge
<1> QED
  BY <1>1, <1>2, <1>3, <1>4, <1>5, <1>6, <1>7 DEF Killing

\* The owner asks for no verdict: its calls are never late or chastened.
LEMMA OwnerJudge ==
  ASSUME TypeOK, JudgeInv, NEW there, Go(Owner, there), there \notin Engaging,
         ~call'[Owner].late, ~call'[Owner].chastened,
         \A u \in Threads \ {Owner} : call'[u] = call[u],
         UNCHANGED <<engaged, record, quarantined>>
  PROVE  JudgeInv'
<1>1. Owner \in Threads
  BY DEF Threads
<1> QED
  BY <1>1, MoveJudge DEF JudgeInv, SwitchInv

\* What a step of the Session does to the calls and the switch.
LEMMA SessionEffect ==
  ASSUME TypeOK, SessionStep
  PROVE  /\ UNCHANGED <<engaged, record, quarantined, written, logged>>
         /\ \E there \in {"idle", "spawn", "attach", "kill", "finalise", "sweeping",
                          "swept", "verdict", "end"} : Go(Owner, there)
         /\ call'[Owner].late => call[Owner].late
         /\ call'[Owner].chastened => call[Owner].chastened
         /\ \A u \in Threads \ {Owner} : call'[u] = call[u]
<1> USE DEF switch
<1>1. Owner \in Threads /\ ~Blank.late /\ ~Blank.chastened
  BY DEF Threads, Blank
<1> DEFINE Quiet == /\ call'[Owner].late => call[Owner].late
                    /\ call'[Owner].chastened => call[Owner].chastened
                    /\ \A u \in Threads \ {Owner} : call'[u] = call[u]
<1>2. ASSUME NEW o, Ends(Owner, o) PROVE Quiet /\ Go(Owner, "idle")
  BY <1>1, <1>2, EndsFields DEF Ends
<1>3. ASSUME NEW there, NEW l, OwnerBegins(there, l), ~l.late, ~l.chastened
      PROVE  Quiet /\ Go(Owner, there) /\ UNCHANGED <<engaged, record, quarantined, written, logged>>
  BY <1>1, <1>3 DEF OwnerBegins, TypeOK
<1>4. CASE Start
  BY <1>1, <1>3, <1>4 DEF Start
<1>5. CASE Spawn
  <2>1. CASE Raise(Owner)
    BY <1>2, <1>5, <2>1 DEF Raise, Spawn
  <2>2. CASE Go(Owner, "attach") /\ UNCHANGED call
    BY <1>5, <2>2 DEF Spawn
  <2> QED
    BY <1>5, <2>1, <2>2 DEF Spawn
<1>6. CASE Attach
  BY <1>2, <1>6 DEF Attach, RecordedLast, Return, Raise
<1>7. CASE Wait
  <2>1. ~[Blank EXCEPT !.code = proc].late /\ ~[Blank EXCEPT !.code = proc].chastened
    BY DEF Blank
  <2> QED
    BY <1>1, <1>3, <1>7, <2>1 DEF Wait
<1>8. CASE SessionKill
  BY <1>1, <1>3, <1>8 DEF SessionKill
<1>9. CASE Close
  <2>1. PICK s \in BOOLEAN :
          OwnerBegins("finalise", [Blank EXCEPT !.seal = s, !.code = IF seen THEN proc ELSE None])
    BY <1>9 DEF Close
  <2> DEFINE l == [Blank EXCEPT !.seal = s, !.code = IF seen THEN proc ELSE None]
  <2>2. OwnerBegins("finalise", l) /\ ~l.late /\ ~l.chastened
    BY <2>1 DEF Blank
  <2> HIDE DEF l
  <2> QED
    BY <1>3, <2>2
<1>10. CASE Finalise
  <2>1. UNCHANGED <<engaged, record, quarantined, written, logged>>
    BY <1>10 DEF Finalise, Running
  <2>2. CASE Closed
    BY <1>2, <2>1, <2>2 DEF Closed, Return
  <2>3. CASE /\ Go(Owner, IF proc = "alive" /\ ~engaged THEN "sweeping" ELSE "verdict")
             /\ UNCHANGED call
    BY <2>1, <2>3
  <2> QED
    BY <1>10, <2>2, <2>3 DEF Finalise, Running
<1>11. CASE Sweeping
  <2>1. UNCHANGED <<engaged, record, quarantined, written, logged>>
    BY <1>11 DEF Sweeping
  <2>2. CASE Raise(Owner)
    BY <1>2, <2>1, <2>2 DEF Raise
  <2>3. CASE /\ Go(Owner, "swept")
             /\ call' = [call EXCEPT ![Owner].code = IF seen' THEN proc' ELSE None]
    <3> DEFINE k == IF seen' THEN proc' ELSE None
    <3>1. call' = [call EXCEPT ![Owner].code = k]
      BY <2>3
    <3> HIDE DEF k
    <3>2. Quiet
      BY <1>1, <3>1 DEF TypeOK
    <3> QED
      BY <2>1, <2>3, <3>2
  <2> QED
    BY <1>11, <2>2, <2>3 DEF Sweeping
<1>12. CASE Verdict
  BY <1>12 DEF Verdict
<1>13. CASE End
  BY <1>2, <1>13 DEF End, Closed, Return, Raise
<1> QED
  BY <1>4, <1>5, <1>6, <1>7, <1>8, <1>9, <1>10, <1>11, <1>12, <1>13 DEF SessionStep

SessionPoints == {"idle", "spawn", "attach", "finalise", "sweeping", "swept", "verdict", "end"}

LEMMA SessionAt ==
  ASSUME SessionStep
  PROVE  pc[Owner] \in SessionPoints
BY DEF SessionStep, Start, Spawn, Attach, Wait, SessionKill, Close, Finalise, Running,
       Sweeping, Verdict, End, OwnerBegins, At, SessionPoints

LEMMA SessionJudge ==
  ASSUME TypeOK, JudgeInv, SessionStep
  PROVE  JudgeInv'
<1>1. Owner \in Threads /\ pc[Owner] \in SessionPoints
  BY SessionAt DEF Threads
<1>2. ~call[Owner].late /\ ~call[Owner].chastened
  BY <1>1 DEF JudgeInv, LateInv, ChastenedInv, SessionPoints, KillSteps, Engaging
<1> QED
  BY <1>2, SessionEffect, OwnerJudge DEF Engaging

LEMMA JudgeStep == TypeOK /\ JudgeInv /\ [Next]_vars => JudgeInv'
<1> SUFFICES ASSUME TypeOK, JudgeInv, [Next]_vars PROVE JudgeInv'
  OBVIOUS
<1>1. CASE Exit \/ UNCHANGED vars
  BY <1>1 DEF Exit, vars, switch, JudgeInv, SwitchInv, LateInv, ChastenedInv
<1> QED
  BY <1>1, CallsJudge, InsideJudge, KillingJudge, SessionJudge DEF Next

LEMMA Judges == Spec => []JudgeInv
<1>1. Init => JudgeInv
  <2> SUFFICES ASSUME Init PROVE JudgeInv
    OBVIOUS
  <2>1. \A t \in Threads : ~call[t].late /\ ~call[t].chastened /\ pc[t] = "idle"
    BY DEF Init, Blank
  <2> QED
    BY <2>1 DEF Init, JudgeInv, SwitchInv, LateInv, ChastenedInv, Engaging
<1> QED
  BY <1>1, JudgeStep, TypeCorrect, PTL DEF Spec

\* How a caller's call ends, and what it has become if it was late or
\* chastened.
LEMMA EndsInside ==
  ASSUME TypeOK, JudgeInv, NEW t \in Callers, Inside(t), EndsNow(t)
  PROVE  /\ call[t].late => call'[t].outcome \in {"KILL", "raised"}
         /\ call[t].chastened => pc[t] \in {"check", "tripwire"} \/ call'[t].outcome = "raised"
<1>0. t \in Threads
  BY DEF Threads
<1>a. ASSUME NEW there, Go(t, there), there # "idle" PROVE FALSE
  BY <1>0, <1>a, GoFields DEF EndsNow
<1>b. ASSUME NEW o, Ends(t, o) PROVE call'[t].outcome = o
  BY <1>0, <1>b, EndsFields
<1>c. Raise(t) => call'[t].outcome = "raised"
  BY <1>b DEF Raise
<1>d. /\ call[t].late => pc[t] \in {"check"} \cup KillSteps
      /\ call[t].chastened => \/ pc[t] \in {"check", "tripwire", "policy"}
                              \/ pc[t] \in {"decide"} \cup KillSteps /\ call[t].verdict = "KILL"
  BY <1>0 DEF JudgeInv, LateInv, ChastenedInv
<1>1. CASE CheckKilled(t)
  BY <1>1, <1>a, <1>b, <1>c DEF CheckKilled, At
<1>2. CASE Tripwire(t)
  BY <1>2, <1>d DEF Tripwire, At, KillSteps, Engaging
<1>3. CASE Policy(t)
  BY <1>3, <1>a DEF Policy
<1>4. CASE Decide(t)
  <2>1. pc[t] = "decide"
    BY <1>4 DEF Decide, At
  <2>2. ~call[t].late
    BY <1>d, <2>1 DEF KillSteps, Engaging
  <2>3. call[t].chastened => Raise(t)
    <3> SUFFICES ASSUME call[t].chastened, Apply(t, call[t].verdict, call[t].chastened) PROVE FALSE
      BY <1>4 DEF Decide
    <3>1. Route(call[t].verdict) = "kill"
      BY <1>d, <2>1 DEF Route
    <3> QED
      BY <1>a, <3>1 DEF Apply
  <2> QED
    BY <1>c, <2>2, <2>3
<1>5. CASE QuarantineTest(t) \/ Isolate(t)
  BY <1>5, <1>d DEF QuarantineTest, Isolate, At, KillSteps, Engaging
<1> QED
  BY <1>1, <1>2, <1>3, <1>4, <1>5 DEF Inside

LEMMA EndsKilling ==
  ASSUME TypeOK, JudgeInv, NEW t \in Threads, Killing(t), EndsNow(t)
  PROVE  /\ call[t].late => call'[t].outcome \in {"KILL", "raised"}
         /\ engaged'
<1> USE DEF switch
<1>a. ASSUME NEW there, Go(t, there), there # "idle" PROVE FALSE
  BY <1>a, GoFields DEF EndsNow
<1>1. CASE EventTest(t) \/ AppendKill(t)
  <2>1. pc[t] \in {"event", "append"} /\ UNCHANGED engaged
    BY <1>1 DEF EventTest, AppendKill, At
  <2>2. engaged
    BY <2>1 DEF JudgeInv, SwitchInv, Engaging
  <2>3. call[t].late => call[t].verdict = "KILL"
    BY <2>1 DEF JudgeInv, LateInv
  <2>4. Ends(t, call[t].verdict) \/ Ends(t, "raised")
    BY <1>1, <1>a DEF EventTest, AppendKill, RecordedLast, Return, Raise
  <2> QED
    BY <2>1, <2>2, <2>3, <2>4, EndsFields
<1>2. CASE ~(EventTest(t) \/ AppendKill(t))
  <2>1. Engage(t) \/ Flip(t) \/ Terminate(t) \/ WriteRecord(t) \/ Mark(t)
    BY <1>2 DEF Killing
  <2>2. \E there : there # "idle" /\ Go(t, there)
    <3>1. Engage(t) => Go(t, IF record # None THEN "event" ELSE "flip")
      BY DEF Engage
    <3>2. Flip(t) => Go(t, "terminate")
      BY DEF Flip
    <3>3. Terminate(t) => Go(t, "note")
      BY DEF Terminate
    <3>4. WriteRecord(t) => Go(t, "event")
      BY DEF WriteRecord
    <3>5. Mark(t) => Go(t, "append")
      BY DEF Mark
    <3> QED
      BY <2>1, <3>1, <3>2, <3>3, <3>4, <3>5
  <2> QED
    BY <1>a, <2>2
<1> QED
  BY <1>1, <1>2

\* A step of one thread ends no call of another.
LEMMA OthersStay ==
  ASSUME TypeOK, [Next]_vars, NEW t \in Callers, EndsNow(t)
  PROVE  Inside(t) \/ Killing(t)
<1> USE DEF EndsNow
<1>0. t \in Threads /\ t # Owner /\ Callers \subseteq Threads
  BY WatcherAssumption DEF Threads
<1>1. ASSUME NEW u \in Threads \ {t}, NEW there, Go(u, there) PROVE FALSE
  BY <1>0, <1>1, GoFields
<1>2. ASSUME NEW u \in Callers, Calls(u) PROVE FALSE
  <2>1. CASE pc' = pc
    BY <2>1
  <2>2. CASE \E there, l : Begin(u, there, l)
    BY <1>0, <1>1, <2>2 DEF Begin, At
  <2>3. pc' = pc \/ \E there, l : Begin(u, there, l)
    <3>1. CASE ExportTrace(u)
      BY <3>1 DEF ExportTrace
    <3>2. CASE ReportProcess(u)
      BY <3>2 DEF ReportProcess
    <3>3. CASE Evaluate(u) \/ Kill(u) \/ Quarantine(u)
      BY <3>3 DEF Evaluate, Kill, Quarantine
    <3>4. ASSUME NEW s, ReportSignal(u, s) PROVE \E there, l : Begin(u, there, l)
      <4> DEFINE d == IF engaged THEN "KILL" ELSE response_for(s)
      <4>1. \/ Begin(u, "idle", [Blank EXCEPT !.outcome = "raised"])
            \/ Begin(u, "idle", [Blank EXCEPT !.outcome = d])
            \/ Begin(u, Route(d), [Blank EXCEPT !.late = engaged, !.verdict = d])
        BY <3>4 DEF ReportSignal
      <4> HIDE DEF d
      <4> QED
        BY <4>1
    <3> QED
      BY <1>2, <3>1, <3>2, <3>3, <3>4 DEF Calls
  <2> QED
    BY <2>1, <2>2, <2>3
<1>3. ASSUME NEW u \in Callers \ {t}, Inside(u) PROVE FALSE
  <2>1. \E there : Go(u, there)
    <3>1. \A o : Ends(u, o) => Go(u, "idle")
      BY DEF Ends
    <3>2. CASE Tripwire(u)
      BY <3>1, <3>2 DEF Tripwire, Apply, Raise
    <3>3. CASE Policy(u)
      BY <3>3 DEF Policy
    <3>4. CASE Decide(u)
      BY <3>1, <3>4 DEF Decide, Apply, Raise
    <3>5. CASE CheckKilled(u)
      BY <3>1, <3>5 DEF CheckKilled, Raise
    <3>6. CASE QuarantineTest(u) \/ Isolate(u)
      BY <3>1, <3>6 DEF QuarantineTest, Isolate, RecordedLast, Return, Raise
    <3> QED
      BY <1>3, <3>2, <3>3, <3>4, <3>5, <3>6 DEF Inside
  <2> QED
    BY <1>0, <1>1, <2>1
<1>4. ASSUME NEW u \in Threads \ {t}, Killing(u) PROVE FALSE
  <2>1. \E there : Go(u, there)
    <3>1. CASE EventTest(u) \/ AppendKill(u)
      BY <3>1 DEF EventTest, AppendKill, RecordedLast, Return, Raise, Ends
    <3>2. CASE Engage(u) \/ Flip(u) \/ Terminate(u)
      BY <3>2 DEF Engage, Flip, Terminate
    <3>3. CASE WriteRecord(u) \/ Mark(u)
      BY <3>3 DEF WriteRecord, Mark
    <3> QED
      BY <1>4, <3>1, <3>2, <3>3 DEF Killing
  <2> QED
    BY <1>1, <1>4, <2>1
<1>5. CASE SessionStep
  BY <1>0, <1>1, <1>5, SessionEffect DEF Threads
<1>6. CASE Exit \/ UNCHANGED vars
  BY <1>6 DEF Exit, vars
<1> QED
  BY <1>2, <1>3, <1>4, <1>5, <1>6 DEF Next

(***************************************************************************)
(* An evaluate() that begins after the switch has begun to engage is        *)
(* refused, whatever the other threads do meanwhile.                       *)
(***************************************************************************)
THEOREM KilledRefuses == Spec => KilledAuthorisesNothing
<1>1. TypeOK /\ JudgeInv /\ [Next]_vars =>
        \A t \in Callers : EndsNow(t) /\ call[t].late => call'[t].outcome \in {"KILL", "raised"}
  BY OthersStay, EndsInside, EndsKilling DEF Threads
<1>2. TypeOK /\ JudgeInv /\ [Next]_vars =>
        [\A t \in Callers : EndsNow(t) /\ call[t].late => call'[t].outcome \in {"KILL", "raised"}]_vars
  BY <1>1
<1> QED
  BY <1>2, TypeCorrect, Judges, PTL DEF Spec, KilledAuthorisesNothing

(***************************************************************************)
(* A blocked action of a quarantined session has engaged the switch by the *)
(* time its evaluate() returns.                                            *)
(***************************************************************************)
THEOREM QuarantineIsTheLastWarning == Spec => QuarantineEscalates
<1>1. TypeOK /\ JudgeInv /\ [Next]_vars =>
        \A t \in Callers : EndsNow(t) /\ call[t].chastened /\ pc[t] \notin {"check", "tripwire"} =>
          engaged' \/ call'[t].outcome = "raised"
  BY OthersStay, EndsInside, EndsKilling DEF Threads
<1>2. TypeOK /\ JudgeInv /\ [Next]_vars =>
        [\A t \in Callers : EndsNow(t) /\ call[t].chastened /\ pc[t] \notin {"check", "tripwire"} =>
          engaged' \/ call'[t].outcome = "raised"]_vars
  BY <1>1
<1> QED
  BY <1>2, TypeCorrect, Judges, PTL DEF Spec, QuarantineEscalates

(***************************************************************************)
(* The record of a kill: from the flip on, somebody is on the way to leave *)
(* the next mark, or it is left.                                           *)
(***************************************************************************)
LogInv ==
  /\ engaged => record # None \/ \E t \in Threads : pc[t] \in {"terminate", "note"}
  /\ record # None => written \/ \E t \in Threads : pc[t] \in {"event", "mark"}
  /\ written => logged \/ sealed \/ \E t \in Threads : pc[t] = "append"

\* Outside kill() nothing is taken back, and nobody on the way is moved.
LEMMA OutsideKill ==
  ASSUME TypeOK, SessionStep \/ Exit \/ UNCHANGED vars \/ \E t \in Callers : Calls(t) \/ Inside(t)
  PROVE  /\ UNCHANGED <<engaged, record, written, logged>> /\ (sealed => sealed')
         /\ \A u \in Threads : pc[u] \in Engaging => pc'[u] = pc[u]
<1> USE DEF switch
<1> DEFINE Kept == UNCHANGED <<engaged, record, written, logged>> /\ (sealed => sealed')
           Left == \A u \in Threads : pc[u] \in Engaging => pc'[u] = pc[u]
<1>1. Owner \in Threads /\ Callers \subseteq Threads
  BY DEF Threads
<1>2. ASSUME NEW t \in Threads, NEW there, Go(t, there), pc[t] \notin Engaging PROVE Left
  BY <1>2, GoFields
<1>3. CASE Exit \/ UNCHANGED vars
  BY <1>3 DEF Exit, vars
<1>4. CASE SessionStep
  <2>1. Left
    BY <1>1, <1>2, <1>4, SessionEffect, SessionAt DEF SessionPoints, Engaging
  <2>2. sealed => sealed'
    BY <1>4 DEF SessionStep, Start, Spawn, Attach, Wait, SessionKill, Close, OwnerBegins,
                Finalise, Running, Closed, Sweeping, Verdict, End
  <2> QED
    BY <1>4, <2>1, <2>2, SessionEffect
<1>5. ASSUME NEW t \in Callers, Inside(t) PROVE Kept /\ Left
  <2>1. pc[t] \notin Engaging
    BY <1>5 DEF Inside, CheckKilled, Tripwire, Policy, Decide, QuarantineTest, Isolate, At, Engaging
  <2>2. Kept /\ \E there : Go(t, there)
    <3>1. \A o : Ends(t, o) => Go(t, "idle")
      BY DEF Ends
    <3>2. CASE Tripwire(t)
      BY <3>1, <3>2 DEF Tripwire, Apply, Raise
    <3>3. CASE Policy(t)
      BY <3>3 DEF Policy
    <3>4. CASE Decide(t)
      BY <3>1, <3>4 DEF Decide, Apply, Raise
    <3>5. CASE CheckKilled(t)
      BY <3>1, <3>5 DEF CheckKilled, Raise
    <3>6. CASE QuarantineTest(t) \/ Isolate(t)
      BY <3>1, <3>6 DEF QuarantineTest, Isolate, RecordedLast, Return, Raise
    <3> QED
      BY <1>5, <3>2, <3>3, <3>4, <3>5, <3>6 DEF Inside
  <2> QED
    BY <1>1, <1>2, <2>1, <2>2
<1>6. ASSUME NEW t \in Callers, Calls(t) PROVE Kept /\ Left
  <2>1. ASSUME NEW there, NEW l, Begin(t, there, l) PROVE Kept /\ Left
    <3>1. Go(t, there) /\ pc[t] \notin Engaging /\ Kept
      BY <2>1 DEF Begin, At, Engaging
    <3> QED
      BY <1>1, <1>2, <3>1
  <2>2. CASE ExportTrace(t)
    BY <2>2 DEF ExportTrace
  <2>3. CASE Evaluate(t) \/ ReportProcess(t) \/ Kill(t) \/ Quarantine(t)
    BY <2>1, <2>3 DEF Evaluate, ReportProcess, Kill, Quarantine
  <2>4. ASSUME NEW s, ReportSignal(t, s) PROVE Kept /\ Left
    <3> DEFINE d == IF engaged THEN "KILL" ELSE response_for(s)
    <3>1. \/ Begin(t, "idle", [Blank EXCEPT !.outcome = "raised"])
          \/ Begin(t, "idle", [Blank EXCEPT !.outcome = d])
          \/ Begin(t, Route(d), [Blank EXCEPT !.late = engaged, !.verdict = d])
      BY <2>4 DEF ReportSignal
    <3> HIDE DEF d, Kept, Left
    <3> QED
      BY <2>1, <3>1
  <2> QED
    BY <1>6, <2>2, <2>3, <2>4 DEF Calls
<1> QED
  BY <1>3, <1>4, <1>5, <1>6

LEMMA KillingLog ==
  ASSUME TypeOK, LogInv, NEW t \in Threads, Killing(t)
  PROVE  LogInv'
<1> USE DEF switch
<1>1. ASSUME NEW there, Go(t, there)
      PROVE  pc'[t] = there /\ \A u \in Threads \ {t} : pc'[u] = pc[u]
  BY <1>1, GoFields
<1>2. ASSUME NEW o, Ends(t, o)
      PROVE  \A u \in Threads \ {t} : pc'[u] = pc[u]
  BY <1>1, <1>2 DEF Ends
<1>3. CASE Engage(t)
  BY <1>1, <1>3 DEF Engage, At, LogInv
<1>4. CASE Flip(t)
  BY <1>1, <1>4 DEF Flip, At, LogInv
<1>5. CASE Terminate(t)
  BY <1>1, <1>5 DEF Terminate, At, LogInv
<1>6. CASE WriteRecord(t)
  <2>1. t # None
    BY WatcherAssumption DEF Threads, None
  <2> QED
    BY <1>1, <1>6, <2>1 DEF WriteRecord, At, LogInv
<1>7. CASE EventTest(t)
  <2>1. pc[t] = "event" /\ UNCHANGED <<engaged, record, written, logged, sealed>>
    BY <1>7 DEF EventTest, At
  <2>2. CASE written /\ Return(t)
    <3>1. \A u \in Threads \ {t} : pc'[u] = pc[u]
      BY <1>2, <2>2 DEF Return
    <3> QED
      BY <2>1, <2>2, <3>1 DEF LogInv
  <2>3. CASE Go(t, "mark")
    BY <1>1, <2>1, <2>3 DEF LogInv
  <2> QED
    BY <1>7, <2>2, <2>3 DEF EventTest
<1>8. CASE Mark(t)
  BY <1>1, <1>8 DEF Mark, At, LogInv
<1>9. CASE AppendKill(t)
  <2>1. \A u \in Threads \ {t} : pc'[u] = pc[u]
    BY <1>2, <1>9 DEF AppendKill, RecordedLast, Return, Raise
  <2>2. pc[t] = "append" /\ (logged' \/ sealed') /\ UNCHANGED <<engaged, record, written>>
    BY <1>9 DEF AppendKill, At
  <2> QED
    BY <2>1, <2>2 DEF LogInv
<1> QED
  BY <1>3, <1>4, <1>5, <1>6, <1>7, <1>8, <1>9 DEF Killing

(***************************************************************************)
(* When every call has ended, a kill has its record and its event.         *)
(***************************************************************************)
THEOREM KillIsOnRecord == Spec => []KillOnRecord
<1>1. Init => LogInv
  BY DEF Init, LogInv
<1>2. TypeOK /\ LogInv /\ [Next]_vars => LogInv'
  <2> SUFFICES ASSUME TypeOK, LogInv, [Next]_vars PROVE LogInv'
    OBVIOUS
  <2>1. CASE SessionStep \/ Exit \/ UNCHANGED vars \/ \E t \in Callers : Calls(t) \/ Inside(t)
    BY <2>1, OutsideKill DEF LogInv, Engaging
  <2> QED
    BY <2>1, KillingLog DEF Next
<1>3. LogInv => KillOnRecord
  BY DEF LogInv, KillOnRecord, Idle
<1> QED
  BY <1>1, <1>2, <1>3, TypeCorrect, PTL DEF Spec

(***************************************************************************)
(* The session and its process.                                            *)
(***************************************************************************)
\* A finalised session cannot be started, and a process only starts once.
StartInv ==
  /\ finalised => status # "CREATED" \/ pc[Owner] = "verdict"
  /\ pc[Owner] = "spawn" => status = "CREATED" /\ ~finalised
  /\ status = "CREATED" => proc = "none"

\* An exit code that was collected is the one the process ended with.
CodeInv ==
  /\ seen => proc \in Exits
  /\ call[Owner].code \in Exits => proc = call[Owner].code

\* Only an engaged switch, or the clean-up, terminates the process; and a
\* finalised session has been cleaned up.
CleanInv ==
  /\ stopped => engaged \/ (finalised /\ pc[Owner] # "verdict")
  /\ finalised /\ proc = "alive" => engaged \/ survived \/ pc[Owner] = "sweeping"

\* The clean-up belongs to a session that counts as finalised.
SweepInv == pc[Owner] \in {"sweeping", "swept", "verdict"} => finalised

SessInv == StartInv /\ CodeInv /\ CleanInv /\ SweepInv /\ CompletedIsVoluntary

\* What the callers do is no concern of the session.
LEMMA CallersApart ==
  ASSUME TypeOK, NEW u \in Callers, Calls(u) \/ Inside(u)
  PROVE  /\ pc'[Owner] = pc[Owner] /\ call'[Owner] = call[Owner]
         /\ UNCHANGED <<engaged, proc, seen, stopped, survived, status, finalised>>
<1> USE DEF switch, process, session
<1>1. u \in Threads /\ Owner \in Threads \ {u}
  BY WatcherAssumption DEF Threads
<1> DEFINE Same == pc'[Owner] = pc[Owner] /\ call'[Owner] = call[Owner]
           Rest == UNCHANGED <<engaged, proc, seen, stopped, survived, status, finalised>>
<1>2. ASSUME NEW there, NEW l, Begin(u, there, l) PROVE Same /\ Rest
  BY <1>1, <1>2 DEF Begin, Go, TypeOK
<1>3. ASSUME NEW o, Ends(u, o) PROVE Same
  BY <1>1, <1>3, EndsFields
<1>4. ASSUME NEW there, Go(u, there) PROVE pc'[Owner] = pc[Owner]
  BY <1>1, <1>4, GoFields
<1>5. ASSUME NEW d, NEW c, Judged(u, d, c) PROVE call'[Owner] = call[Owner]
  BY <1>1, <1>5 DEF Judged, TypeOK
<1>6. ASSUME NEW d, NEW c, Apply(u, d, c) PROVE Same
  BY <1>3, <1>4, <1>5, <1>6 DEF Apply
<1>7. CASE Calls(u)
  <2>1. CASE ExportTrace(u)
    BY <2>1 DEF ExportTrace
  <2>2. CASE Evaluate(u) \/ ReportProcess(u) \/ Kill(u) \/ Quarantine(u)
    BY <1>2, <2>2 DEF Evaluate, ReportProcess, Kill, Quarantine
  <2>3. ASSUME NEW s, ReportSignal(u, s) PROVE Same /\ Rest
    <3> DEFINE d == IF engaged THEN "KILL" ELSE response_for(s)
    <3>1. \/ Begin(u, "idle", [Blank EXCEPT !.outcome = "raised"])
          \/ Begin(u, "idle", [Blank EXCEPT !.outcome = d])
          \/ Begin(u, Route(d), [Blank EXCEPT !.late = engaged, !.verdict = d])
      BY <2>3 DEF ReportSignal
    <3> HIDE DEF d, Same, Rest
    <3> QED
      BY <1>2, <3>1
  <2> QED
    BY <1>7, <2>1, <2>2, <2>3 DEF Calls
<1>8. CASE CheckKilled(u)
  BY <1>3, <1>4, <1>8 DEF CheckKilled, Raise
<1>9. CASE Tripwire(u)
  <2>1. Same
    BY <1>3, <1>4, <1>6, <1>9 DEF Tripwire, Raise
  <2> QED
    BY <1>9, <2>1 DEF Tripwire
<1>10. CASE Policy(u)
  <2>1. \E d, c : Judged(u, d, c)
    BY <1>10 DEF Policy
  <2>2. Go(u, "decide") /\ Rest
    BY <1>10 DEF Policy
  <2> QED
    BY <1>4, <1>5, <2>1, <2>2
<1>11. CASE Decide(u)
  <2>1. Same
    BY <1>3, <1>6, <1>11 DEF Decide, Raise
  <2> QED
    BY <1>11, <2>1 DEF Decide
<1>12. CASE QuarantineTest(u) \/ Isolate(u)
  BY <1>3, <1>4, <1>12 DEF QuarantineTest, Isolate, RecordedLast, Return, Raise
<1> QED
  BY <1>7, <1>8, <1>9, <1>10, <1>11, <1>12 DEF Inside

\* The owner's place and exit code, when a call in kill() moves on.
LEMMA KillingApart ==
  ASSUME TypeOK, NEW t \in Threads, Killing(t)
  PROVE  /\ UNCHANGED <<status, finalised>> /\ (engaged => engaged')
         /\ \/ pc'[Owner] = pc[Owner]
            \/ {pc[Owner], pc'[Owner]} \cap {"spawn", "verdict", "sweeping", "swept"} = {}
         /\ call'[Owner].code \in Exits => call'[Owner].code = call[Owner].code
<1> USE DEF switch, session
<1>1. Owner \in Threads
  BY DEF Threads
<1> DEFINE Moves == \/ pc'[Owner] = pc[Owner]
                    \/ {pc[Owner], pc'[Owner]} \cap {"spawn", "verdict", "sweeping", "swept"} = {}
           Codes == call'[Owner].code \in Exits => call'[Owner].code = call[Owner].code
           Rest == UNCHANGED <<status, finalised>> /\ (engaged => engaged')
<1>2. ASSUME NEW there \in KillSteps \cup {"idle"}, Go(t, there), pc[t] \in KillSteps PROVE Moves
  <2>1. pc'[t] = there /\ \A u \in Threads \ {t} : pc'[u] = pc[u]
    BY <1>2, GoFields
  <2>2. (KillSteps \cup {"idle"}) \cap {"spawn", "verdict", "sweeping", "swept"} = {}
    BY DEF KillSteps, Engaging
  <2> QED
    BY <1>1, <1>2, <2>1, <2>2
<1>3. ASSUME NEW o, Ends(t, o) PROVE Codes /\ Go(t, "idle")
  <2>1. [Blank EXCEPT !.outcome = o].code \notin Exits
    BY DEF Blank, Exits, None
  <2>2. /\ Go(t, "idle") /\ call'[t] = [Blank EXCEPT !.outcome = o]
        /\ \A u \in Threads \ {t} : call'[u] = call[u]
    BY <1>3 DEF Ends, TypeOK
  <2> QED
    BY <1>1, <2>1, <2>2
<1>4. CASE Engage(t)
  <2> DEFINE a == (t = Owner \/ active)
  <2>1. call' = [call EXCEPT ![t] = [call[t] EXCEPT !.aim = a]]
    BY <1>4 DEF Engage
  <2> HIDE DEF a
  <2>2. call'[Owner].code = call[Owner].code
    BY <1>1, <2>1 DEF TypeOK
  <2>3. /\ pc[t] \in KillSteps /\ Rest
        /\ Go(t, IF record # None THEN "event" ELSE "flip")
    BY <1>4 DEF Engage, At, KillSteps
  <2>4. {"event", "flip"} \subseteq KillSteps
    BY DEF KillSteps, Engaging
  <2>5. Moves
    BY <1>2, <2>3, <2>4
  <2> QED
    BY <2>2, <2>3, <2>5
<1>5. CASE Flip(t)
  BY <1>2, <1>5 DEF Flip, At, KillSteps, Engaging
<1>6. CASE Terminate(t)
  BY <1>2, <1>6 DEF Terminate, At, KillSteps, Engaging
<1>7. CASE WriteRecord(t)
  BY <1>2, <1>7 DEF WriteRecord, At, KillSteps, Engaging
<1>8. CASE EventTest(t)
  <2>1. pc[t] \in KillSteps /\ Rest /\ {"idle", "mark"} \subseteq KillSteps \cup {"idle"}
    BY <1>8 DEF EventTest, At, KillSteps, Engaging
  <2>2. CASE Return(t)
    BY <1>2, <1>3, <2>1, <2>2 DEF Return
  <2>3. CASE Go(t, "mark") /\ UNCHANGED call
    BY <1>2, <2>1, <2>3
  <2> QED
    BY <1>8, <2>2, <2>3 DEF EventTest
<1>9. CASE Mark(t)
  BY <1>2, <1>9 DEF Mark, At, KillSteps, Engaging
<1>10. CASE AppendKill(t)
  <2>1. pc[t] \in KillSteps /\ Rest
    BY <1>10 DEF AppendKill, At, KillSteps, Engaging
  <2>2. Ends(t, call[t].verdict) \/ Ends(t, "raised")
    BY <1>10 DEF AppendKill, RecordedLast, Return, Raise
  <2> QED
    BY <1>2, <1>3, <2>1, <2>2
<1> QED
  BY <1>4, <1>5, <1>6, <1>7, <1>8, <1>9, <1>10 DEF Killing

LEMMA KillingSess ==
  ASSUME TypeOK, JudgeInv, SessInv, NEW t \in Threads, Killing(t)
  PROVE  SessInv'
<1> USE DEF process
<1>1. /\ UNCHANGED <<status, finalised>> /\ (engaged => engaged')
      /\ \/ pc'[Owner] = pc[Owner]
         \/ {pc[Owner], pc'[Owner]} \cap {"spawn", "verdict", "sweeping", "swept"} = {}
      /\ call'[Owner].code \in Exits => call'[Owner].code = call[Owner].code
  BY KillingApart
<1>2. \/ UNCHANGED process
      \/ engaged /\ TerminateTree
  <2>1. CASE Terminate(t)
    BY <2>1 DEF Terminate, At, JudgeInv, SwitchInv, Engaging
  <2>2. CASE Engage(t) \/ Flip(t) \/ WriteRecord(t)
    BY <2>2 DEF Engage, Flip, WriteRecord
  <2>3. CASE EventTest(t) \/ Mark(t) \/ AppendKill(t)
    BY <2>3 DEF EventTest, Mark, AppendKill
  <2> QED
    BY <2>1, <2>2, <2>3 DEF Killing
<1>3. CASE UNCHANGED process
  BY <1>1, <1>3 DEF SessInv, StartInv, CodeInv, CleanInv, SweepInv, CompletedIsVoluntary
<1>4. CASE engaged /\ TerminateTree
  <2>1. StartInv'
    BY <1>1, <1>4 DEF SessInv, StartInv, TerminateTree
  <2>2. CodeInv'
    BY <1>1, <1>4 DEF SessInv, CodeInv, TerminateTree, TypeOK, Exits
  <2>3. CleanInv' /\ CompletedIsVoluntary'
    BY <1>1, <1>4 DEF SessInv, CleanInv, CompletedIsVoluntary, TerminateTree
  <2>4. SweepInv'
    BY <1>1 DEF SessInv, SweepInv
  <2> QED
    BY <2>1, <2>2, <2>3, <2>4 DEF SessInv
<1> QED
  BY <1>2, <1>3, <1>4

LEMMA OwnerBeginsFields ==
  ASSUME TypeOK, NEW there, NEW l, OwnerBegins(there, l)
  PROVE  /\ pc[Owner] = "idle" /\ pc'[Owner] = there /\ call'[Owner] = l /\ UNCHANGED engaged
BY DEF OwnerBegins, Go, At, TypeOK, Threads, switch

LEMMA SessionSess ==
  ASSUME TypeOK, SessInv, SessionStep
  PROVE  SessInv'
<1> USE DEF switch, process, session
<1>0. Owner \in Threads /\ Blank.code \notin Exits
  BY DEF Threads, Blank, Exits, None
<1>a. UNCHANGED engaged
  BY SessionEffect
<1>b. ASSUME NEW o, Ends(Owner, o) PROVE pc'[Owner] = "idle" /\ call'[Owner].code \notin Exits
  <2>1. [Blank EXCEPT !.outcome = o].code \notin Exits
    BY DEF Blank, Exits, None
  <2>2. call'[Owner] = [Blank EXCEPT !.outcome = o]
    BY <1>0, <1>b DEF Ends, TypeOK
  <2> QED
    BY <1>0, <1>b, <2>1, <2>2, EndsFields
\* The owner moves, and the process and the session stay as they are.
<1>c. ASSUME UNCHANGED <<process, session>>, pc[Owner] # "sweeping", pc[Owner] # "verdict",
             pc'[Owner] = "spawn" => status = "CREATED" /\ ~finalised,
             pc'[Owner] \notin {"sweeping", "swept", "verdict"},
             call'[Owner].code \in Exits => proc = call'[Owner].code
      PROVE  SessInv'
  BY <1>a, <1>c DEF SessInv, StartInv, CodeInv, CleanInv, SweepInv, CompletedIsVoluntary
<1>1. CASE Start
  <2>1. pc[Owner] = "idle" /\ pc'[Owner] \in {"idle", "spawn"} /\ call'[Owner] = Blank
    BY <1>1, OwnerBeginsFields DEF Start
  <2>2. status = "CREATED" /\ ~finalised /\ UNCHANGED <<process, session>>
    BY <1>1, <2>1 DEF Start, SessInv, StartInv
  <2> QED
    BY <1>0, <1>c, <2>1, <2>2
<1>2. CASE Spawn
  <2>1. pc[Owner] = "spawn" /\ status = "CREATED" /\ ~finalised /\ proc = "none"
    BY <1>2 DEF Spawn, At, SessInv, StartInv
  <2>2. CASE Raise(Owner) /\ UNCHANGED <<proc, status>>
    <3>1. pc'[Owner] = "idle" /\ call'[Owner].code \notin Exits
      BY <1>b, <2>2 DEF Raise
    <3> QED
      BY <1>2, <1>c, <2>1, <2>2, <3>1 DEF Spawn
  <2>3. CASE proc' = "alive" /\ status' = "RUNNING" /\ Go(Owner, "attach") /\ UNCHANGED call
    <3>1. pc'[Owner] = "attach" /\ UNCHANGED <<seen, stopped, survived, finalised>>
      BY <1>0, <1>2, <2>3, GoFields DEF Spawn
    <3>2. ~seen /\ call[Owner].code \notin Exits
      BY <2>1 DEF SessInv, CodeInv, Exits
    <3> QED
      BY <1>a, <2>1, <2>3, <3>1, <3>2
      DEF SessInv, StartInv, CodeInv, CleanInv, SweepInv, CompletedIsVoluntary
  <2> QED
    BY <1>2, <2>2, <2>3 DEF Spawn
<1>3. CASE Attach
  <2>1. Ends(Owner, call[Owner].verdict) \/ Ends(Owner, "raised")
    BY <1>3 DEF Attach, RecordedLast, Return, Raise
  <2>2. pc'[Owner] = "idle" /\ call'[Owner].code \notin Exits
    BY <1>b, <2>1
  <2> QED
    BY <1>3, <1>c, <2>2 DEF Attach, At
<1>4. CASE Wait
  <2>1. [Blank EXCEPT !.code = proc].code = proc
    BY DEF Blank
  <2>2. pc[Owner] = "idle" /\ UNCHANGED <<proc, stopped, survived, finalised>>
    BY <1>4 DEF Wait, OwnerBegins, At
  <2>3. CASE /\ proc # "alive" /\ seen' = TRUE /\ UNCHANGED status
             /\ OwnerBegins("finalise", [Blank EXCEPT !.code = proc])
    <3>1. pc'[Owner] = "finalise" /\ call'[Owner].code = proc
      BY <2>1, <2>3, OwnerBeginsFields
    <3>2. proc \in Exits
      BY <1>4, <2>3 DEF Wait, TypeOK
    <3> QED
      BY <1>a, <2>2, <2>3, <3>1, <3>2
      DEF SessInv, StartInv, CodeInv, CleanInv, SweepInv, CompletedIsVoluntary
  <2>4. CASE /\ proc = "alive" /\ status' = "TIMEOUT" /\ UNCHANGED seen
             /\ OwnerBegins("idle", Blank)
    <3>1. pc'[Owner] = "idle" /\ call'[Owner].code \notin Exits
      BY <1>0, <2>4, OwnerBeginsFields
    <3> QED
      BY <1>a, <2>2, <2>4, <3>1
      DEF SessInv, StartInv, CodeInv, CleanInv, SweepInv, CompletedIsVoluntary
  <2> QED
    BY <1>4, <2>3, <2>4 DEF Wait
<1>5. CASE SessionKill
  <2>1. /\ pc[Owner] = "idle" /\ pc'[Owner] = "kill" /\ call'[Owner].code \notin Exits
        /\ status' = "KILLED" /\ UNCHANGED <<process, finalised>>
    BY <1>0, <1>5, OwnerBeginsFields DEF SessionKill
  <2> QED
    BY <1>a, <2>1 DEF SessInv, StartInv, CodeInv, CleanInv, SweepInv, CompletedIsVoluntary
<1>6. CASE Close
  <2>1. PICK s \in BOOLEAN :
          OwnerBegins("finalise", [Blank EXCEPT !.seal = s, !.code = IF seen THEN proc ELSE None])
    BY <1>6 DEF Close
  <2> DEFINE l == [Blank EXCEPT !.seal = s, !.code = IF seen THEN proc ELSE None]
  <2>2. OwnerBegins("finalise", l) /\ (l.code \in Exits => l.code = proc)
    BY <2>1 DEF Blank, Exits, None
  <2> HIDE DEF l
  <2>3. pc[Owner] = "idle" /\ pc'[Owner] = "finalise" /\ call'[Owner] = l
    BY <2>2, OwnerBeginsFields
  <2>4. UNCHANGED <<process, session>>
    BY <1>6 DEF Close
  <2> QED
    BY <1>c, <2>2, <2>3, <2>4
<1>7. CASE Finalise
  <2>1. /\ pc[Owner] = "finalise" /\ UNCHANGED <<proc, stopped, survived, status>>
        /\ finalised' = TRUE
    BY <1>7 DEF Finalise, Running, At
  <2>2. seen' => proc \in Exits
    BY <1>7 DEF Finalise, Running, SessInv, CodeInv
  <2>3. CASE finalised /\ Closed
    <3>1. pc'[Owner] = "idle" /\ call'[Owner].code \notin Exits
      BY <1>b, <2>3 DEF Closed, Return
    <3> QED
      BY <1>a, <2>1, <2>2, <2>3, <3>1
      DEF SessInv, StartInv, CodeInv, CleanInv, SweepInv, CompletedIsVoluntary
  <2>4. CASE /\ ~finalised /\ UNCHANGED call
             /\ Go(Owner, IF proc = "alive" /\ ~engaged THEN "sweeping" ELSE "verdict")
    <3>1. pc'[Owner] = IF proc = "alive" /\ ~engaged THEN "sweeping" ELSE "verdict"
      BY <1>0, <2>4, GoFields
    <3>2. StartInv' /\ CodeInv'
      BY <2>1, <2>2, <2>4, <3>1 DEF SessInv, StartInv, CodeInv
    <3>3. CleanInv' /\ CompletedIsVoluntary'
      BY <1>a, <2>1, <2>4, <3>1 DEF SessInv, CleanInv, CompletedIsVoluntary
    <3> QED
      BY <2>1, <3>2, <3>3 DEF SessInv, SweepInv
  <2> QED
    BY <1>7, <2>3, <2>4 DEF Finalise, Running
<1>8. CASE Sweeping
  <2>1. pc[Owner] = "sweeping" /\ TerminateTree /\ UNCHANGED <<status, finalised>>
    BY <1>8 DEF Sweeping, At
  <2>2. /\ pc'[Owner] \in {"idle", "swept"}
        /\ call'[Owner].code \in Exits => proc' = call'[Owner].code
    <3>1. CASE Raise(Owner)
      BY <1>b, <3>1 DEF Raise
    <3>2. CASE /\ Go(Owner, "swept")
               /\ call' = [call EXCEPT ![Owner].code = IF seen' THEN proc' ELSE None]
      <4> DEFINE k == IF seen' THEN proc' ELSE None
      <4>1. call' = [call EXCEPT ![Owner].code = k] /\ (k \in Exits => k = proc')
        BY <3>2 DEF Exits, None
      <4> HIDE DEF k
      <4>2. call'[Owner].code = k
        BY <1>0, <4>1 DEF TypeOK
      <4> QED
        BY <1>0, <3>2, <4>1, <4>2, GoFields
    <3> QED
      BY <1>8, <3>1, <3>2 DEF Sweeping
  <2>3. finalised
    BY <2>1 DEF SessInv, SweepInv
  <2>4. StartInv'
    BY <2>1, <2>2 DEF SessInv, StartInv, TerminateTree
  <2>5. CodeInv'
    <3>1. seen' => proc' \in Exits
      BY <2>1 DEF SessInv, CodeInv, TerminateTree, TypeOK, Exits
    <3> QED
      BY <2>2, <3>1 DEF CodeInv
  <2>6. CleanInv' /\ CompletedIsVoluntary'
    BY <1>a, <2>1, <2>2, <2>3 DEF SessInv, CleanInv, CompletedIsVoluntary, TerminateTree, Exits
  <2> QED
    BY <2>2, <2>3, <2>1, <2>4, <2>5, <2>6 DEF SessInv, SweepInv
<1>9. CASE Verdict
  <2>1. /\ pc[Owner] \in {"verdict", "swept"} /\ pc'[Owner] = "end"
        /\ UNCHANGED <<process, finalised, call>>
    BY <1>0, <1>9, GoFields DEF Verdict
  <2>2. /\ status' \in {"KILLED", "TERMINATED", "TIMEOUT", "COMPLETED", "FAILED"}
        /\ status' = "COMPLETED" => ~engaged /\ pc[Owner] = "verdict" /\ call[Owner].code = "zero"
    BY <1>9, <2>1 DEF Verdict, At
  <2>3. status' = "COMPLETED" => proc = "zero" /\ ~stopped
    BY <2>2 DEF SessInv, CodeInv, CleanInv, Exits
  <2>4. stopped => engaged \/ finalised
    BY DEF SessInv, CleanInv
  <2> QED
    BY <1>a, <2>1, <2>2, <2>3, <2>4
    DEF SessInv, StartInv, CodeInv, CleanInv, SweepInv, CompletedIsVoluntary
<1>10. CASE End
  <2>1. Ends(Owner, call[Owner].verdict) \/ Ends(Owner, "raised")
    BY <1>10 DEF End, Closed, Return, Raise
  <2>2. pc'[Owner] = "idle" /\ call'[Owner].code \notin Exits
    BY <1>b, <2>1
  <2> QED
    BY <1>10, <1>c, <2>2 DEF End, At
<1> QED
  BY <1>1, <1>2, <1>3, <1>4, <1>5, <1>6, <1>7, <1>8, <1>9, <1>10 DEF SessionStep

LEMMA Sessions == Spec => []SessInv
<1>1. Init => SessInv
  <2> SUFFICES ASSUME Init PROVE SessInv
    OBVIOUS
  <2>1. pc[Owner] = "idle" /\ call[Owner].code \notin Exits
    BY DEF Init, Threads, Blank, Exits, None
  <2> QED
    BY <2>1 DEF Init, SessInv, StartInv, CodeInv, CleanInv, SweepInv, CompletedIsVoluntary
<1>2. TypeOK /\ JudgeInv /\ SessInv /\ [Next]_vars => SessInv'
  <2> SUFFICES ASSUME TypeOK, JudgeInv, SessInv, [Next]_vars PROVE SessInv'
    OBVIOUS
  <2> USE DEF SessInv, StartInv, CodeInv, CleanInv, SweepInv, CompletedIsVoluntary
  <2>1. CASE \E u \in Callers : Calls(u) \/ Inside(u)
    BY <2>1, CallersApart
  <2>2. CASE Exit
    BY <2>2 DEF Exit, Exits, switch, session
  <2>3. CASE UNCHANGED vars
    BY <2>3 DEF vars
  <2> QED
    BY <2>1, <2>2, <2>3, KillingSess, SessionSess DEF Next
<1> QED
  BY <1>1, <1>2, TypeCorrect, Judges, PTL DEF Spec

(***************************************************************************)
(* COMPLETED stands for an exit with 0 that nobody forced.                 *)
(***************************************************************************)
THEOREM CompletedMeansVoluntary == Spec => []CompletedIsVoluntary
BY Sessions, PTL DEF SessInv

(***************************************************************************)
(* A finalised session that was not killed has no process left, unless its *)
(* termination was reported to have failed.                                *)
(***************************************************************************)
THEOREM CleansUp == Spec => []NothingLeft
<1>1. SessInv => NothingLeft
  BY DEF SessInv, CleanInv, NothingLeft, Idle, Threads
<1> QED
  BY <1>1, Sessions, PTL
=============================================================================
