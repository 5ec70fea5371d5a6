--------------------------- MODULE IpcServerProofs ---------------------------
(***************************************************************************)
(* Proofs about IpcServer, for any number of connections and requests.     *)
(*                                                                         *)
(* The counters first: TypeOK is only inductive together with ClaimsExact, *)
(* because a counter that is decremented stays a natural number only if it *)
(* counts the workers inside a claim.                                      *)
(***************************************************************************)
EXTENDS IpcServer, FiniteSetTheorems, TLAPS

\* The connections whose worker stands at one of the positions P.
At(f, P) == {c \in Conns : f[c] \in P}

\* Moving one worker changes the number of workers at P by the obvious amount.
LEMMA MoveCount ==
  ASSUME NEW f \in [Conns -> WorkerPcs], NEW c \in Conns, NEW pc \in WorkerPcs, NEW P
  PROVE  LET g == [f EXCEPT ![c] = pc] IN
         /\ Cardinality(At(f, P)) \in Nat
         /\ (f[c] \in P <=> pc \in P) => Cardinality(At(g, P)) = Cardinality(At(f, P))
         /\ f[c] \notin P /\ pc \in P => Cardinality(At(g, P)) = Cardinality(At(f, P)) + 1
         /\ f[c] \in P /\ pc \notin P =>
              /\ Cardinality(At(g, P)) = Cardinality(At(f, P)) - 1
              /\ Cardinality(At(f, P)) > 0
  <1> DEFINE g == [f EXCEPT ![c] = pc]
             A == At(f, P)
             B == At(g, P)
  <1>0. A \in SUBSET Conns BY DEF At
  <1>1. IsFiniteSet(A) /\ Cardinality(A) \in Nat
    BY <1>0, IpcServerAssumption, FS_Subset, FS_CardinalityType
  <1>2. ASSUME f[c] \in P <=> pc \in P PROVE B = A
    BY <1>2 DEF At
  <1>3. ASSUME f[c] \notin P, pc \in P PROVE B = A \cup {c} /\ c \notin A
    BY <1>3 DEF At
  <1>4. ASSUME f[c] \in P, pc \notin P PROVE B = A \ {c} /\ c \in A
    BY <1>4 DEF At
  <1>5. Cardinality(A \cup {c}) = IF c \in A THEN Cardinality(A) ELSE Cardinality(A) + 1
    BY <1>1, FS_AddElement
  <1>6. /\ Cardinality(A \ {c}) = IF c \in A THEN Cardinality(A) - 1 ELSE Cardinality(A)
        /\ IsFiniteSet(A \ {c})
    BY <1>1, FS_RemoveElement
  <1>7. Cardinality(A \ {c}) \in Nat
    BY <1>6, FS_CardinalityType
  <1>8. ASSUME f[c] \in P <=> pc \in P PROVE Cardinality(B) = Cardinality(A)
    BY <1>2, <1>8
  <1>9. ASSUME f[c] \notin P, pc \in P PROVE Cardinality(B) = Cardinality(A) + 1
    BY <1>3, <1>5, <1>9
  <1>10. ASSUME f[c] \in P, pc \notin P
         PROVE  Cardinality(B) = Cardinality(A) - 1 /\ Cardinality(A) > 0
    <2>1. Cardinality(B) = Cardinality(A) - 1 /\ Cardinality(B) \in Nat
      BY <1>4, <1>6, <1>7, <1>10
    <2>. QED BY <2>1, <1>1
  <1>. QED BY <1>1, <1>8, <1>9, <1>10

WritePcs == {"dispatch", "reply"}
RespondPcs == {"dispatch", "reply", "refusing"}

\* ClaimsExact in the terms of MoveCount.
LEMMA ClaimsAt ==
  /\ Writing = At(wpc, WritePcs)
  /\ Responding = At(wpc, RespondPcs)
  BY DEF Writing, Responding, At, WritePcs, RespondPcs

\* The counters count the workers inside a claim.
Counted == writers = Cardinality(At(wpc, WritePcs)) /\ responses = Cardinality(At(wpc, RespondPcs))

\* The connection the accept thread has in hand has no running worker yet.
Accepting ==
  /\ apc \in {"got", "registered"} => wpc[acur] = "none"
  /\ apc = "appended" => wpc[acur] = "appended"

\* The type invariant and the exact claims, preserved by every step.
CInv == TypeOK /\ Counted /\ Accepting

\* A worker's step that leaves the claims alone keeps the counts.
LEMMA CountedKept ==
  ASSUME TypeOK, Counted, NEW c \in Conns, NEW pc \in WorkerPcs, Goto(c, pc),
         writers' = writers, responses' = responses,
         wpc[c] \in WritePcs <=> pc \in WritePcs,
         wpc[c] \in RespondPcs <=> pc \in RespondPcs
  PROVE  Counted'
  <1>1. wpc \in [Conns -> WorkerPcs] BY DEF TypeOK
  <1>2. wpc' = [wpc EXCEPT ![c] = pc] BY DEF Goto
  <1>3. /\ Cardinality(At(wpc', WritePcs)) = Cardinality(At(wpc, WritePcs))
        /\ Cardinality(At(wpc', RespondPcs)) = Cardinality(At(wpc, RespondPcs))
    BY <1>1, <1>2, MoveCount
  <1>. QED BY <1>3 DEF Counted

\* Taking a claim, releasing it, and the two together with a worker's step.
LEMMA CountedMoved ==
  ASSUME TypeOK, Counted, NEW c \in Conns, NEW pc \in WorkerPcs, Goto(c, pc)
  PROVE  /\ wpc[c] \notin WritePcs /\ pc \in WritePcs
              => Cardinality(At(wpc', WritePcs)) = writers + 1
         /\ wpc[c] \in WritePcs /\ pc \notin WritePcs
              => Cardinality(At(wpc', WritePcs)) = writers - 1 /\ writers > 0
         /\ (wpc[c] \in WritePcs <=> pc \in WritePcs)
              => Cardinality(At(wpc', WritePcs)) = writers
         /\ wpc[c] \notin RespondPcs /\ pc \in RespondPcs
              => Cardinality(At(wpc', RespondPcs)) = responses + 1
         /\ wpc[c] \in RespondPcs /\ pc \notin RespondPcs
              => Cardinality(At(wpc', RespondPcs)) = responses - 1 /\ responses > 0
  <1>1. wpc \in [Conns -> WorkerPcs] BY DEF TypeOK
  <1>2. wpc' = [wpc EXCEPT ![c] = pc] BY DEF Goto
  <1>3. writers = Cardinality(At(wpc, WritePcs)) /\ responses = Cardinality(At(wpc, RespondPcs))
    BY DEF Counted
  <1>4. /\ wpc[c] \notin WritePcs /\ pc \in WritePcs
             => Cardinality(At(wpc', WritePcs)) = writers + 1
        /\ wpc[c] \in WritePcs /\ pc \notin WritePcs
             => Cardinality(At(wpc', WritePcs)) = writers - 1 /\ writers > 0
        /\ (wpc[c] \in WritePcs <=> pc \in WritePcs)
             => Cardinality(At(wpc', WritePcs)) = writers
    BY <1>1, <1>2, <1>3, MoveCount
  <1>5. /\ wpc[c] \notin RespondPcs /\ pc \in RespondPcs
             => Cardinality(At(wpc', RespondPcs)) = responses + 1
        /\ wpc[c] \in RespondPcs /\ pc \notin RespondPcs
             => Cardinality(At(wpc', RespondPcs)) = responses - 1 /\ responses > 0
    BY <1>1, <1>2, <1>3, MoveCount
  <1>. QED BY <1>4, <1>5

\* Each step keeps the writer count equal to the claims taken.
LEMMA CInvNext == CInv /\ [Next]_vars => CInv'
  <1> SUFFICES ASSUME TypeOK, Counted, Accepting, [Next]_vars
               PROVE TypeOK' /\ Counted' /\ Accepting'
    BY DEF CInv
  <1> USE IpcServerAssumption
  <1> USE DEF acceptVars, listVars, workVars, claimVars, drainVars
  <1>w. wpc' = wpc /\ writers' = writers /\ responses' = responses => Counted'
    BY DEF Counted, At
  <1>1. ASSUME NEW c \in Conns, AcceptOne(c) PROVE TypeOK' /\ Counted' /\ Accepting'
    BY <1>1, <1>w DEF AcceptOne, TypeOK, Accepting
  <1>2. CASE Register
    <2>1. TypeOK' BY <1>2 DEF Register, TypeOK, WorkerPcs
    <2>2. Accepting' BY <1>2 DEF Register, TypeOK, Accepting
    <2>3. CASE wpc' = wpc BY <1>2, <1>w, <2>1, <2>2, <2>3 DEF Register
    <2>4. CASE wpc' # wpc
      <3>1. Goto(acur, "exited") /\ wpc[acur] = "none" /\ acur \in Conns
        BY <1>2, <2>4 DEF Register, Goto, Accepting, TypeOK
      <3>2. Counted'
        BY <1>2, <3>1, CountedKept DEF Register, WritePcs, RespondPcs, WorkerPcs
      <3>. QED BY <2>1, <2>2, <3>2
    <2>. QED BY <2>3, <2>4
  <1>3. CASE AppendWorker
    <2>1. TypeOK' /\ Accepting'
      BY <1>3 DEF AppendWorker, TypeOK, Accepting, WorkerPcs
    <2>2. Goto(acur, "appended") /\ wpc[acur] = "none" /\ acur \in Conns
      BY <1>3 DEF AppendWorker, Goto, Accepting, TypeOK
    <2>3. Counted'
      BY <1>3, <2>2, CountedKept DEF AppendWorker, WritePcs, RespondPcs, WorkerPcs
    <2>. QED BY <2>1, <2>3
  <1>4. CASE StartWorker
    <2>1. TypeOK' /\ Accepting'
      BY <1>4 DEF StartWorker, TypeOK, Accepting, WorkerPcs
    <2>2. Goto(acur, "hook") /\ wpc[acur] = "appended" /\ acur \in Conns
      BY <1>4 DEF StartWorker, Goto, Accepting, TypeOK
    <2>3. Counted'
      BY <1>4, <2>2, CountedKept DEF StartWorker, WritePcs, RespondPcs, WorkerPcs
    <2>. QED BY <2>1, <2>3
  <1>5. CASE AcceptExits
    BY <1>5, <1>w DEF AcceptExits, TypeOK, Accepting
  <1>6. ASSUME NEW c \in Conns,
               Connected(c) \/ Handshake(c) \/ Read(c) \/ Reject(c) \/ EndReject(c) \/ LeaveLoop(c)
                 \/ CloseOwn(c) \/ Unregister(c) \/ Exit(c)
        PROVE  TypeOK' /\ Counted' /\ Accepting'
    <2>1. TypeOK'
      BY <1>6 DEF Connected, Handshake, Read, Reject, EndReject, LeaveLoop, CloseOwn, Unregister, Exit,
                  Goto, TypeOK, WorkerPcs, Fates
    <2>2. Accepting'
      BY <1>6 DEF Connected, Handshake, Read, Reject, EndReject, LeaveLoop, CloseOwn, Unregister, Exit,
                  Goto, TypeOK, Accepting
    <2>3. PICK pc \in WorkerPcs \ RespondPcs :
            Goto(c, pc) /\ wpc[c] \notin RespondPcs
      BY <1>6 DEF Connected, Handshake, Read, Reject, EndReject, LeaveLoop, CloseOwn, Unregister, Exit,
                  Goto, WorkerPcs, RespondPcs
    <2>4. writers' = writers /\ responses' = responses
      BY <1>6 DEF Connected, Handshake, Read, Reject, EndReject, LeaveLoop, CloseOwn, Unregister, Exit
    <2>5. Counted'
      BY <2>3, <2>4, CountedKept DEF WritePcs, RespondPcs
    <2>. QED BY <2>1, <2>2, <2>5
  <1>7. ASSUME NEW c \in Conns, BeginWrite(c) PROVE TypeOK' /\ Counted' /\ Accepting'
    <2>1. TypeOK' /\ Accepting'
      BY <1>7 DEF BeginWrite, Goto, TypeOK, WorkerPcs, Accepting
    <2>2. Counted'
      <3>1. CASE sstate = "RUNNING" /\ ~claimsClosed
        <4>1. Goto(c, "dispatch") /\ writers' = writers + 1 /\ responses' = responses + 1
              /\ wpc[c] \notin RespondPcs /\ wpc[c] \notin WritePcs
          BY <1>7, <3>1 DEF BeginWrite, RespondPcs, WritePcs
        <4>. QED BY <4>1, CountedMoved DEF Counted, WritePcs, RespondPcs, WorkerPcs
      <3>2. CASE ~(sstate = "RUNNING" /\ ~claimsClosed)
        BY <1>7, <3>2, CountedKept DEF BeginWrite, WritePcs, RespondPcs, WorkerPcs
      <3>. QED BY <3>1, <3>2
    <2>. QED BY <2>1, <2>2
  <1>8. ASSUME NEW c \in Conns, Dispatched(c) PROVE TypeOK' /\ Counted' /\ Accepting'
    <2>1. TypeOK' /\ Accepting'
      BY <1>8 DEF Dispatched, Goto, TypeOK, WorkerPcs, Accepting
    <2>2. Counted'
      BY <1>8, CountedKept DEF Dispatched, WritePcs, RespondPcs, WorkerPcs
    <2>. QED BY <2>1, <2>2
  <1>9. ASSUME NEW c \in Conns, EndWrite(c) PROVE TypeOK' /\ Counted' /\ Accepting'
    <2>1. PICK pc \in {"loop", "close"} : Goto(c, pc)
      BY <1>9 DEF EndWrite
    <2>2. /\ Cardinality(At(wpc', WritePcs)) = writers - 1 /\ writers > 0
          /\ Cardinality(At(wpc', RespondPcs)) = responses - 1 /\ responses > 0
      BY <1>9, <2>1, CountedMoved DEF EndWrite, WritePcs, RespondPcs, WorkerPcs
    <2>3. Counted' BY <1>9, <2>2 DEF EndWrite, Counted
    <2>4. TypeOK' /\ Accepting'
      BY <1>9, <2>2 DEF EndWrite, Sent, Goto, TypeOK, WorkerPcs, Fates, Accepting
    <2>. QED BY <2>3, <2>4
  <1>10. ASSUME NEW c \in Conns, BeginRefusal(c) PROVE TypeOK' /\ Counted' /\ Accepting'
    <2>1. TypeOK' /\ Accepting'
      BY <1>10 DEF BeginRefusal, Goto, TypeOK, WorkerPcs, Fates, Accepting
    <2>2. Counted'
      <3>1. CASE claimsClosed
        BY <1>10, <3>1, CountedKept DEF BeginRefusal, WritePcs, RespondPcs, WorkerPcs
      <3>2. CASE ~claimsClosed
        <4>1. Goto(c, "refusing") /\ wpc[c] = "refuse" /\ responses' = responses + 1
              /\ writers' = writers
          BY <1>10, <3>2 DEF BeginRefusal
        <4>. QED BY <4>1, CountedMoved DEF Counted, WritePcs, RespondPcs, WorkerPcs
      <3>. QED BY <3>1, <3>2
    <2>. QED BY <2>1, <2>2
  <1>11. ASSUME NEW c \in Conns, EndRefusal(c) PROVE TypeOK' /\ Counted' /\ Accepting'
    <2>1. /\ Cardinality(At(wpc', WritePcs)) = writers
          /\ Cardinality(At(wpc', RespondPcs)) = responses - 1 /\ responses > 0
      BY <1>11, CountedMoved DEF EndRefusal, WritePcs, RespondPcs, WorkerPcs
    <2>2. Counted' BY <1>11, <2>1 DEF EndRefusal, Counted
    <2>3. TypeOK' /\ Accepting'
      BY <1>11, <2>1 DEF EndRefusal, Sent, Goto, TypeOK, WorkerPcs, Fates, Accepting
    <2>. QED BY <2>2, <2>3
  <1>12. CASE BeginDrain
    <2>1. Counted' /\ Accepting' BY <1>12, <1>w DEF BeginDrain, Accepting
    <2>2. drains' \in 0 .. MaxDrains BY <1>12 DEF BeginDrain, TypeOK
    <2>3. TypeOK' BY <1>12, <2>2 DEF BeginDrain, TypeOK, DrainPcs
    <2>. QED BY <2>1, <2>3
  <1>13. CASE DeadlinePasses
    BY <1>13, <1>w DEF DeadlinePasses, TypeOK, Accepting
  <1>14. CASE Drain
    <2>1. CASE JoinAccept \/ SnapshotWorkers \/ AwaitWriters
      BY <2>1, <1>w DEF JoinAccept, SnapshotWorkers, AwaitWriters, DrainStep, TypeOK, DrainPcs,
                        Accepting
    <2>2. CASE CloseWindow \/ AwaitResponses \/ CloseTransports
      BY <2>2, <1>w DEF CloseWindow, AwaitResponses, CloseTransports, DrainStep, TypeOK, DrainPcs,
                        Accepting
    <2>3. CASE JoinWorkers \/ Rewait \/ FinishDrain
      BY <2>3, <1>w DEF JoinWorkers, Rewait, FinishDrain, DrainStep, TypeOK, DrainPcs, Accepting
    <2>. QED BY <1>14, <2>1, <2>2, <2>3 DEF Drain
  <1>15. CASE UNCHANGED vars
    BY <1>15, <1>w DEF vars, TypeOK, Accepting
  <1>. QED
    BY <1>1, <1>2, <1>3, <1>4, <1>5, <1>6, <1>7, <1>8, <1>9, <1>10, <1>11, <1>12,
       <1>13, <1>14, <1>15 DEF Next, AcceptStep, WorkerStep, Finished

\* A server that was never started has no claims and no contexts.
LEMMA CInvInit == Init => CInv
  <1> SUFFICES ASSUME Init PROVE CInv OBVIOUS
  <1>1. TypeOK /\ Accepting
    <2>1. drains \in 0 .. MaxDrains /\ left \in [Conns -> 0 .. MaxRequests]
      BY IpcServerAssumption DEF Init
    <2>. QED BY <2>1 DEF Init, TypeOK, Accepting, WorkerPcs, Fates, DrainPcs
  <1>2. At(wpc, WritePcs) = {} /\ At(wpc, RespondPcs) = {}
    BY DEF Init, At, WritePcs, RespondPcs
  <1>3. Counted BY <1>2, FS_EmptySet DEF Init, Counted
  <1>. QED BY <1>1, <1>3 DEF CInv

\* The bookkeeping of claims and contexts is an invariant of the server.
LEMMA CInvInv == Spec => []CInv
  BY CInvInit, CInvNext, PTL DEF Spec

\* The server's fields keep their types; in particular no counter of claims
\* (_writers, _responses) ever goes below zero.
THEOREM TypeCorrect == Spec => []TypeOK
  <1>1. CInv => TypeOK BY DEF CInv
  <1>. QED BY <1>1, CInvInv, PTL

\* _writers and _responses are at all times the numbers of workers that hold
\* the claims taken by _begin_write and _send_refusal.
THEOREM ClaimsAreExact == Spec => []ClaimsExact
  <1>1. CInv => ClaimsExact BY ClaimsAt DEF CInv, Counted, ClaimsExact
  <1>. QED BY <1>1, CInvInv, PTL

\* No handler starts once the server has left RUNNING (_begin_write).
THEOREM NoLateDispatch == Spec => NoDispatchOnceDraining
  <1>1. CInv /\ [Next]_vars =>
          [sstate # "RUNNING" =>
             \A c \in Conns : wpc'[c] = "dispatch" => wpc[c] = "dispatch"]_vars
    <2> SUFFICES ASSUME TypeOK, Next, sstate # "RUNNING", NEW d \in Conns,
                        wpc'[d] = "dispatch", wpc[d] # "dispatch"
                 PROVE  FALSE
      BY DEF CInv
    <2> USE DEF acceptVars, listVars, workVars, claimVars, drainVars, TypeOK
    <2>1. ASSUME NEW c \in Conns,
                 Connected(c) \/ Handshake(c) \/ Read(c) \/ Reject(c) \/ EndReject(c) \/ LeaveLoop(c)
                   \/ CloseOwn(c) \/ Unregister(c) \/ Exit(c) \/ BeginWrite(c) \/ Dispatched(c) \/ EndWrite(c)
                   \/ BeginRefusal(c) \/ EndRefusal(c) \/ AcceptOne(c)
          PROVE  FALSE
      BY <2>1 DEF Connected, Handshake, Read, Reject, EndReject, LeaveLoop, CloseOwn, Unregister, Exit,
                  BeginWrite, Dispatched, EndWrite, BeginRefusal, EndRefusal, AcceptOne, Goto
    <2>2. ASSUME AcceptStep PROVE FALSE
      BY <2>2 DEF AcceptStep, Register, AppendWorker, StartWorker, AcceptExits
    <2>3. ASSUME BeginDrain \/ Drain \/ DeadlinePasses \/ Finished PROVE FALSE
      BY <2>3 DEF BeginDrain, Drain, DeadlinePasses, Finished, vars, JoinAccept,
                  SnapshotWorkers, AwaitWriters, CloseWindow, AwaitResponses,
                  CloseTransports, JoinWorkers, Rewait, FinishDrain
    <2>. QED BY <2>1, <2>2, <2>3 DEF Next, WorkerStep
  <1>. QED BY <1>1, CInvInv, PTL DEF Spec, NoDispatchOnceDraining

\* max_connections_per_session, with what it rests on: before a drain every open
\* transport is registered, or is the one in the accept loop's hand.
Slots ==
  /\ Cardinality(connections) <= MaxConnections
  /\ \A c \in open : wpc[c] \notin {"unregister", "bye", "exited"}
  /\ sstate = "RUNNING" => Serving \subseteq connections
  /\ dpc # "idle" => sstate # "RUNNING"

\* Nothing is open or registered before the first accept().
LEMMA SlotsInit == Init => Slots
  BY FS_EmptySet, IpcServerAssumption DEF Init, Slots, Serving

\* A registration finds a free slot, and a slot is freed only after its
\* transport was closed.
LEMMA SlotsNext == TypeOK /\ Slots /\ [Next]_vars => Slots'
  <1> SUFFICES ASSUME TypeOK, Slots, [Next]_vars PROVE Slots'
    OBVIOUS
  <1>0. connections \in SUBSET Conns /\ IsFiniteSet(connections) /\ Cardinality(connections) \in Nat
    <2>1. connections \in SUBSET Conns BY DEF TypeOK
    <2>. QED BY <2>1, IpcServerAssumption, FS_Subset, FS_CardinalityType
  <1>1. Cardinality(connections') <= MaxConnections
    <2> USE IpcServerAssumption DEF Slots
    <2>2. CASE connections' = connections BY <2>2
    <2>3. CASE connections' = {} BY <2>3, FS_EmptySet
    <2>4. CASE Cardinality(connections) < MaxConnections /\ connections' = connections \cup {acur}
      <3>1. Cardinality(connections \cup {acur}) =
              IF acur \in connections THEN Cardinality(connections)
              ELSE Cardinality(connections) + 1
        BY <1>0, FS_AddElement
      <3>. QED BY <1>0, <2>4, <3>1
    <2>5. ASSUME NEW c \in Conns, connections' = connections \ {c}
          PROVE  Cardinality(connections') <= MaxConnections
      <3>1. Cardinality(connections \ {c}) =
              IF c \in connections THEN Cardinality(connections) - 1
              ELSE Cardinality(connections)
        BY <1>0, FS_RemoveElement
      <3>. QED BY <1>0, <2>5, <3>1
    <2>6. \/ connections' = connections \/ connections' = {}
          \/ Cardinality(connections) < MaxConnections /\ connections' = connections \cup {acur}
          \/ \E c \in Conns : connections' = connections \ {c}
      BY <1>0 DEF Next, vars, listVars, AcceptStep, WorkerStep, Finished, AcceptOne, Register,
             AppendWorker, StartWorker, AcceptExits, Connected, Handshake, Read, Reject, EndReject, BeginWrite,
             Dispatched, EndWrite, BeginRefusal, EndRefusal, LeaveLoop, CloseOwn, Unregister,
             Exit, BeginDrain, DeadlinePasses, Drain, JoinAccept, SnapshotWorkers,
             AwaitWriters, CloseWindow, AwaitResponses, CloseTransports, JoinWorkers, Rewait,
             FinishDrain
    <2>. QED BY <2>2, <2>3, <2>4, <2>5, <2>6
  <1>2. \A c \in open' : wpc'[c] \notin {"unregister", "bye", "exited"}
    <2> USE DEF TypeOK, Slots
    <2>1. CASE \E c \in Conns : AcceptOne(c) \/ WorkerStep(c) \/ Handshake(c) \/ Read(c) \/ Reject(c)
                                \/ Dispatched(c) \/ LeaveLoop(c)
      BY <2>1 DEF AcceptOne, WorkerStep, Connected, Handshake, Read, Reject, EndReject, BeginWrite, Dispatched,
                  EndWrite, BeginRefusal, EndRefusal, LeaveLoop, CloseOwn, Unregister, Exit, Goto, workVars
    <2>2. CASE AcceptStep
      BY <2>2 DEF AcceptStep, Register, AppendWorker, StartWorker, AcceptExits, workVars
    <2>3. CASE BeginDrain \/ Drain \/ DeadlinePasses \/ UNCHANGED vars
      BY <2>3 DEF BeginDrain, Drain, JoinAccept, SnapshotWorkers, AwaitWriters, CloseWindow, AwaitResponses,
                  CloseTransports, JoinWorkers, Rewait, FinishDrain, DeadlinePasses, vars, workVars
    <2>. QED BY <2>1, <2>2, <2>3 DEF Next, Finished
  <1>3. sstate' = "RUNNING" => Serving' \subseteq connections'
    <2> USE DEF TypeOK, Slots, Serving
    <2>1. CASE \E c \in Conns : AcceptOne(c) \/ WorkerStep(c) \/ Handshake(c) \/ Read(c) \/ Reject(c)
                                \/ Dispatched(c) \/ LeaveLoop(c)
      BY <2>1 DEF AcceptOne, WorkerStep, Connected, Handshake, Read, Reject, EndReject, BeginWrite, Dispatched,
                  EndWrite, BeginRefusal, EndRefusal, LeaveLoop, CloseOwn, Unregister, Exit, acceptVars, listVars
    <2>2. CASE AcceptStep
      BY <2>2 DEF AcceptStep, Register, AppendWorker, StartWorker, AcceptExits, listVars
    <2>3. CASE BeginDrain
      BY <2>3 DEF BeginDrain
    <2>4. CASE DeadlinePasses \/ UNCHANGED vars
      BY <2>4 DEF DeadlinePasses, vars, acceptVars, listVars
    <2>5. CASE Drain
      <3>1. sstate # "RUNNING"
        BY <2>5 DEF Drain, JoinAccept, SnapshotWorkers, AwaitWriters, CloseWindow, AwaitResponses,
                    CloseTransports, JoinWorkers, Rewait, FinishDrain, DrainStep
      <3>. QED
        BY <2>5, <3>1 DEF Drain, JoinAccept, SnapshotWorkers, AwaitWriters, CloseWindow, AwaitResponses,
                    CloseTransports, JoinWorkers, Rewait, FinishDrain
    <2>. QED BY <2>1, <2>2, <2>3, <2>4, <2>5 DEF Next, Finished
  <1>4. dpc' # "idle" => sstate' # "RUNNING"
    <2> USE DEF Slots
    <2>1. CASE BeginDrain
      BY <2>1 DEF BeginDrain
    <2>2. CASE Drain
      BY <2>2 DEF Drain, JoinAccept, SnapshotWorkers, AwaitWriters, CloseWindow, AwaitResponses,
                  CloseTransports, JoinWorkers, Rewait, FinishDrain, DrainStep
    <2>3. CASE ~BeginDrain /\ ~Drain
      <3>1. sstate' = sstate /\ dpc' = dpc
        BY <2>3 DEF Next, vars, drainVars, AcceptStep, WorkerStep, Finished, AcceptOne, Register, AppendWorker,
                    StartWorker, AcceptExits, Connected, Handshake, Read, Reject, EndReject, BeginWrite, Dispatched,
                    EndWrite, BeginRefusal, EndRefusal, LeaveLoop, CloseOwn, Unregister, Exit, DeadlinePasses
      <3>. QED BY <3>1
    <2>. QED BY <2>1, <2>2, <2>3
  <1>. QED BY <1>1, <1>2, <1>3, <1>4 DEF Slots

\* Until a drain begins, the clients served at a time never exceed
\* max_connections_per_session: a worker closes its transport before it gives up
\* its slot, and the accept loop counts the slots.
THEOREM CapacityKept == Spec => []ServedWithinCapacity
  <1>1. TypeOK /\ Slots => ServedWithinCapacity
    <2> SUFFICES ASSUME TypeOK, Slots, sstate = "RUNNING" PROVE Cardinality(Serving) <= MaxConnections
      BY DEF ServedWithinCapacity
    <2>1. connections \in SUBSET Conns BY DEF TypeOK
    <2>2. IsFiniteSet(connections) BY <2>1, IpcServerAssumption, FS_Subset
    <2>3. Serving \subseteq connections BY DEF Slots
    <2>4. Cardinality(Serving) <= Cardinality(connections) /\ Cardinality(Serving) \in Nat
          /\ Cardinality(connections) \in Nat
      BY <2>2, <2>3, FS_Subset, FS_CardinalityType
    <2>5. Cardinality(connections) <= MaxConnections /\ MaxConnections \in Nat
      BY IpcServerAssumption DEF Slots
    <2>. QED BY <2>4, <2>5
  <1>2. CInv => TypeOK BY DEF CInv
  <1>. QED BY <1>1, <1>2, SlotsInit, SlotsNext, CInvInv, PTL DEF Spec

(***************************************************************************)
(* The drain.  What follows assumes what drain() itself takes for granted: *)
(* the accept thread ends within its join, and drain() is called once.     *)
(* Without either the conclusion is false: a worker started late, or left  *)
(* by the first drain, is in no list of the one that says STOPPED.         *)
(***************************************************************************)
OneCleanDrain == MaxDrains <= 1 /\ ~AcceptMayStall

\* Where the one drain is, and what it has done to the server's state.
DrainOnce ==
  /\ IF dpc = "idle" THEN ~expired ELSE drains = 0
  /\ sstate = "RUNNING" <=> dpc = "idle"
  /\ sstate = "STOPPED" => dpc = "done"
  /\ claimsClosed <=> dpc \in {"responses", "close", "join", "rewait", "force", "done"}

\* The accept loop is over when the workers are collected, so the collected
\* set is final: every thread alive is in it.
AllCollected ==
  /\ dpc \notin {"idle", "wake"} => apc = "exited"
  /\ \A c \in Conns : wpc[c] = "appended" => apc = "appended" /\ acur = c /\ c \in workers
  /\ \A c \in Conns : Live(c) =>
       c \in (IF dpc \in {"idle", "wake", "snapshot"} THEN workers ELSE mine)

\* What each wait of the drain has established, unless the deadline passed.
WaitsMet ==
  /\ sstate = "STOPPED" => writers = 0 /\ \A c \in Conns : ~Live(c)
  /\ dpc \in {"close", "join", "rewait", "force", "done"} /\ ~expired => responses = 0
  /\ dpc \in {"rewait", "force"} /\ ~expired => \A c \in mine : ~Live(c)
  /\ dpc = "force" /\ ~expired => writers = 0
  /\ dpc = "done" /\ ~expired => sstate = "STOPPED"

\* A worker inside a response has its transport.
FramesWhole ==
  /\ ~claimsClosed => \A c \in Conns :
       wpc[c] \in {"loop", "claim", "dispatch", "reply", "refuse", "refusing",
                     "rejecting"} => c \in open
  /\ \A c \in Conns : wpc[c] \in RespondPcs => c \in open \/ expired
  /\ \A c \in Conns : fate[c] = "truncated" => expired

QInv == CInv /\ DrainOnce /\ AllCollected /\ WaitsMet /\ FramesWhole

\* A zero count means that nobody is inside a claim, and conversely.
LEMMA NoClaims ==
  ASSUME CInv
  PROVE  /\ responses = 0 => \A c \in Conns : wpc[c] \notin RespondPcs
         /\ (\A c \in Conns : wpc[c] \notin RespondPcs) => responses = 0
         /\ (\A c \in Conns : wpc[c] \notin WritePcs) => writers = 0
  <1>1. IsFiniteSet(At(wpc, RespondPcs)) /\ IsFiniteSet(At(wpc, WritePcs))
    <2>1. At(wpc, RespondPcs) \in SUBSET Conns /\ At(wpc, WritePcs) \in SUBSET Conns
      BY DEF At
    <2>. QED BY <2>1, IpcServerAssumption, FS_Subset
  <1>2. responses = 0 <=> At(wpc, RespondPcs) = {}
    BY <1>1, FS_EmptySet DEF CInv, Counted
  <1>3. writers = 0 <=> At(wpc, WritePcs) = {}
    BY <1>1, FS_EmptySet DEF CInv, Counted
  <1>. QED BY <1>2, <1>3 DEF At

\* Each step of a server drained at most once, whose accept thread is joined,
\* keeps the workers collected and the waits met.
LEMMA QInvNext == OneCleanDrain /\ QInv /\ [Next]_vars => QInv'
  <1> SUFFICES ASSUME OneCleanDrain, QInv, [Next]_vars PROVE QInv'
    OBVIOUS
  <1> DEFINE Kept == DrainOnce' /\ AllCollected' /\ WaitsMet' /\ FramesWhole'
  <1>c. CInv /\ CInv' BY CInvNext DEF QInv
  <1> SUFFICES Kept BY <1>c DEF QInv
  <1>t. TypeOK /\ TypeOK' /\ DrainOnce /\ AllCollected /\ WaitsMet /\ FramesWhole /\ Accepting
    BY <1>c DEF QInv, CInv
  <1>z. /\ responses = 0 => \A c \in Conns : wpc[c] \notin RespondPcs
        /\ (\A c \in Conns : wpc[c] \notin WritePcs) => writers = 0
    BY <1>c, NoClaims
  <1> USE <1>t, IpcServerAssumption
  <1> USE DEF acceptVars, listVars, workVars, claimVars, drainVars, RespondPcs
  <1>1. ASSUME NEW c \in Conns, AcceptOne(c) PROVE Kept
    <2> USE DEF AcceptOne, Stopping
    <2>1. DrainOnce' BY <1>1 DEF DrainOnce, TypeOK, OneCleanDrain
    <2>2. AllCollected' BY <1>1 DEF TypeOK, AllCollected, DrainOnce, OneCleanDrain, Live
    <2>3. WaitsMet' BY <1>1 DEF TypeOK, WaitsMet, DrainOnce, AllCollected, Live
    <2>4. FramesWhole' BY <1>1 DEF TypeOK, FramesWhole, DrainOnce
    <2>. QED BY <2>1, <2>2, <2>3, <2>4
  <1>2. CASE AcceptStep
    <2>1. DrainOnce' BY <1>2 DEF AcceptStep, Register, AppendWorker, StartWorker, AcceptExits,
                         DrainOnce
    <2>2. AllCollected'
      BY <1>2 DEF AcceptStep, Register, AppendWorker, StartWorker, AcceptExits,
                  TypeOK, AllCollected, Accepting, Live
    <2>3. WaitsMet'
      BY <1>2 DEF AcceptStep, Register, AppendWorker, StartWorker, AcceptExits,
                  TypeOK, DrainOnce, AllCollected, WaitsMet, Live
    <2>4. FramesWhole'
      BY <1>2 DEF AcceptStep, Register, AppendWorker, StartWorker, AcceptExits,
                  TypeOK, FramesWhole, Accepting
    <2>. QED BY <2>1, <2>2, <2>3, <2>4
  <1>3. ASSUME NEW c \in Conns,
               Connected(c) \/ Handshake(c) \/ Read(c) \/ Reject(c) \/ EndReject(c) \/ LeaveLoop(c)
                 \/ CloseOwn(c) \/ Unregister(c) \/ Exit(c)
        PROVE  Kept
    <2> USE DEF Connected, Handshake, Read, Reject, EndReject, LeaveLoop, CloseOwn, Unregister, Exit, Goto
    <2>1. DrainOnce' BY <1>3 DEF DrainOnce
    <2>2. AllCollected' BY <1>3 DEF TypeOK, AllCollected, Live
    <2>3. WaitsMet' BY <1>3 DEF TypeOK, WaitsMet, Live
    <2>4. FramesWhole' BY <1>3 DEF TypeOK, FramesWhole
    <2>. QED BY <2>1, <2>2, <2>3, <2>4
  <1>4. ASSUME NEW c \in Conns,
               BeginWrite(c) \/ Dispatched(c) \/ EndWrite(c) \/ BeginRefusal(c) \/ EndRefusal(c)
        PROVE  Kept
    <2> USE DEF BeginWrite, Dispatched, EndWrite, BeginRefusal, EndRefusal, Goto
    <2>1. DrainOnce' BY <1>4 DEF DrainOnce
    <2>2. AllCollected' BY <1>4 DEF TypeOK, AllCollected, Live
    <2>3. WaitsMet' BY <1>4, <1>z DEF TypeOK, WaitsMet, DrainOnce, Live
    <2>4. FramesWhole' BY <1>4 DEF TypeOK, FramesWhole, Sent
    <2>. QED BY <2>1, <2>2, <2>3, <2>4
  <1>5. CASE BeginDrain
    <2> USE DEF BeginDrain
    <2>1. DrainOnce' BY <1>5 DEF DrainOnce, TypeOK, OneCleanDrain
    <2>2. AllCollected' BY <1>5 DEF TypeOK, AllCollected, DrainOnce, OneCleanDrain, Live
    <2>3. WaitsMet' BY <1>5 DEF TypeOK, WaitsMet, DrainOnce, AllCollected, Live
    <2>4. FramesWhole' BY <1>5 DEF TypeOK, FramesWhole, DrainOnce
    <2>. QED BY <2>1, <2>2, <2>3, <2>4
  <1>6. CASE DeadlinePasses
    <2> USE DEF DeadlinePasses
    <2>1. DrainOnce' BY <1>6 DEF DrainOnce, TypeOK, OneCleanDrain
    <2>2. AllCollected' BY <1>6 DEF TypeOK, AllCollected, DrainOnce, OneCleanDrain, Live
    <2>3. WaitsMet' BY <1>6 DEF TypeOK, WaitsMet, DrainOnce, AllCollected, Live
    <2>4. FramesWhole' BY <1>6 DEF TypeOK, FramesWhole, DrainOnce
    <2>. QED BY <2>1, <2>2, <2>3, <2>4
  <1>7. CASE JoinAccept \/ SnapshotWorkers
    <2> USE DEF JoinAccept, SnapshotWorkers, DrainStep
    <2>1. DrainOnce' BY <1>7 DEF DrainOnce, TypeOK, OneCleanDrain
    <2>2. AllCollected' BY <1>7 DEF TypeOK, AllCollected, DrainOnce, OneCleanDrain, Live
    <2>3. WaitsMet' BY <1>7 DEF TypeOK, WaitsMet, DrainOnce, AllCollected, Live
    <2>4. FramesWhole' BY <1>7 DEF TypeOK, FramesWhole, DrainOnce
    <2>. QED BY <2>1, <2>2, <2>3, <2>4
  <1>8. CASE AwaitWriters \/ CloseWindow \/ AwaitResponses
    <2> USE DEF AwaitWriters, CloseWindow, AwaitResponses, DrainStep
    <2>1. DrainOnce' BY <1>8 DEF DrainOnce, TypeOK, OneCleanDrain
    <2>2. AllCollected' BY <1>8 DEF TypeOK, AllCollected, DrainOnce, OneCleanDrain, Live
    <2>3. WaitsMet' BY <1>8 DEF TypeOK, WaitsMet, DrainOnce, AllCollected, Live
    <2>4. FramesWhole' BY <1>8 DEF TypeOK, FramesWhole, DrainOnce
    <2>. QED BY <2>1, <2>2, <2>3, <2>4
  <1>9. CASE CloseTransports \/ Rewait
    <2> USE DEF CloseTransports, Rewait, DrainStep
    <2>1. DrainOnce' BY <1>9 DEF DrainOnce
    <2>2. AllCollected' BY <1>9 DEF TypeOK, AllCollected, Live
    <2>3. WaitsMet' BY <1>9 DEF TypeOK, WaitsMet, Live, DrainOnce
    <2>4. FramesWhole' BY <1>9, <1>z DEF TypeOK, FramesWhole, WaitsMet, DrainOnce
    <2>. QED BY <2>1, <2>2, <2>3, <2>4
  <1>10. CASE JoinWorkers
    <2> USE DEF JoinWorkers, DrainStep
    <2>1. DrainOnce' BY <1>10 DEF DrainOnce, TypeOK, OneCleanDrain
    <2>2. AllCollected' BY <1>10 DEF TypeOK, AllCollected, DrainOnce, OneCleanDrain, Live
    <2>3. WaitsMet' BY <1>10 DEF TypeOK, WaitsMet, DrainOnce, AllCollected, Live
    <2>4. FramesWhole' BY <1>10 DEF TypeOK, FramesWhole, DrainOnce
    <2>. QED BY <2>1, <2>2, <2>3, <2>4
  <1>11. CASE FinishDrain
    <2> USE DEF FinishDrain, DrainStep
    <2>1. DrainOnce' BY <1>11 DEF DrainOnce, TypeOK, OneCleanDrain
    <2>2. AllCollected' BY <1>11 DEF TypeOK, AllCollected, DrainOnce, OneCleanDrain, Live
    <2>3. WaitsMet' BY <1>11 DEF TypeOK, WaitsMet, DrainOnce, AllCollected, Live
    <2>4. FramesWhole' BY <1>11 DEF TypeOK, FramesWhole, DrainOnce
    <2>. QED BY <2>1, <2>2, <2>3, <2>4
  <1>12. CASE UNCHANGED vars
    <2> USE DEF vars
    <2>1. DrainOnce' BY <1>12 DEF DrainOnce, TypeOK, OneCleanDrain
    <2>2. AllCollected' BY <1>12 DEF TypeOK, AllCollected, DrainOnce, OneCleanDrain, Live
    <2>3. WaitsMet' BY <1>12 DEF TypeOK, WaitsMet, DrainOnce, AllCollected, Live
    <2>4. FramesWhole' BY <1>12 DEF TypeOK, FramesWhole, DrainOnce
    <2>. QED BY <2>1, <2>2, <2>3, <2>4
  <1>. QED
    BY <1>1, <1>2, <1>3, <1>4, <1>5, <1>6, <1>7, <1>8, <1>9, <1>10, <1>11, <1>12
       DEF Next, WorkerStep, Drain, Finished

\* Nothing is waited for before the first start.
LEMMA QInvInit == Init => QInv
  <1> SUFFICES ASSUME Init PROVE QInv OBVIOUS
  <1>1. CInv BY CInvInit
  <1>. QED BY <1>1 DEF Init, QInv, DrainOnce, AllCollected, WaitsMet, FramesWhole, Live,
                       RespondPcs

\* Under those two conditions QInv is an invariant of the server.
LEMMA QInvInv == OneCleanDrain => (Spec => []QInv)
  <1> SUFFICES ASSUME OneCleanDrain PROVE Spec => []QInv OBVIOUS
  <1>1. QInv /\ [Next]_vars => QInv' BY QInvNext
  <1>. QED BY <1>1, QInvInit, PTL DEF Spec

\* After one drain, STOPPED means that no worker thread is alive and no claim
\* is held, for any number of connections: the trace may be sealed.
THEOREM StoppedMeansQuiet == OneCleanDrain => (Spec => []StoppedIsQuiet)
  <1> SUFFICES ASSUME OneCleanDrain PROVE Spec => []StoppedIsQuiet OBVIOUS
  <1>1. QInv => StoppedIsQuiet
    <2> SUFFICES ASSUME QInv, sstate = "STOPPED"
                 PROVE  writers = 0 /\ responses = 0 /\ \A c \in Conns : ~Live(c)
      BY DEF StoppedIsQuiet
    <2>1. writers = 0 /\ \A c \in Conns : ~Live(c) BY DEF QInv, WaitsMet
    <2>2. \A c \in Conns : wpc[c] \notin RespondPcs BY <2>1 DEF Live, RespondPcs
    <2>. QED BY <2>1, <2>2, NoClaims DEF QInv
  <1>. QED BY <1>1, QInvInv, PTL

\* The teardown cuts a frame only after the deadline.
THEOREM NoFrameIsCut == OneCleanDrain => (Spec => []NoFrameCut)
  <1> SUFFICES ASSUME OneCleanDrain PROVE Spec => []NoFrameCut OBVIOUS
  <1>1. QInv => NoFrameCut BY DEF QInv, FramesWhole, NoFrameCut
  <1>. QED BY <1>1, QInvInv, PTL

\* A drain that returns before its deadline has stopped the server.
THEOREM CleanDrainStops == OneCleanDrain => (Spec => []CleanUnlessExpired)
  <1> SUFFICES ASSUME OneCleanDrain PROVE Spec => []CleanUnlessExpired OBVIOUS
  <1>1. QInv => CleanUnlessExpired BY DEF QInv, WaitsMet, CleanUnlessExpired
  <1>. QED BY <1>1, QInvInv, PTL
=============================================================================
