---------------------------- MODULE StorageProofs ----------------------------
(***************************************************************************)
(* Proofs about Storage, for any number of runs, power failures and        *)
(* deletions, any storage root and any working directories.                *)
(***************************************************************************)
EXTENDS Storage, SequenceTheorems, TLAPS

LEMMA Orders ==
  Len(PersistOrder) = 2 /\ PersistOrder[1] = "trace" /\ PersistOrder[2] = "metadata"
BY DEF PersistOrder

LEMMA IdleType == Idle \in Supervisor
BY DEF Idle, Supervisor, Positions, Extent

LEMMA TargetType ==
  ASSUME sup \in Supervisor
  PROVE  /\ Target \in Kept
         /\ sup.nth = 1 => Target = "trace"
         /\ sup.nth = 2 => Target = "metadata"
BY Orders DEF Target, Supervisor, Kept

LEMMA ReplaceMoves ==
  ASSUME sup \in Supervisor, Replace
  PROVE  \/ sup.nth = 1 /\ sup' = [sup EXCEPT !.pc = "open", !.nth = 2, !.is = "partial"]
         \/ sup.nth = 2 /\ sup' = [sup EXCEPT !.pc = "export"]
<1>1. CASE sup.nth = 1
  BY <1>1, Orders DEF Replace, Supervisor
<1>2. CASE sup.nth = 2
  BY <1>2, Orders DEF Replace
<1> QED
  BY <1>1, <1>2 DEF Supervisor

\* What a power failure leaves of a file: its writer, and what was synced.
LEMMA AfterLossKeeps ==
  ASSUME NEW f \in File \cup {None}
  PROVE  /\ AfterLoss(f) \in File \cup {None}
         /\ AfterLoss(f) = None <=> f = None
         /\ f # None => AfterLoss(f).by = f.by
         /\ f # None /\ f.is = "synced" => AfterLoss(f) = f
<1>1. CASE f = None
  BY <1>1, NoneAssumption DEF AfterLoss
<1>2. CASE f \in File
  BY <1>2, NoneAssumption DEF AfterLoss, File, Extent
<1> QED
  BY <1>1, <1>2

\* A power failure leaves one of the images, file by file.
LEMMA LossPicks ==
  ASSUME TypeOK, PowerLoss
  PROVE  \E s \in images : /\ s \in Store
                           /\ kept' = [k \in Kept |-> AfterLoss(s[k])]
                           /\ \A k \in Kept : s[k] \in File \cup {None}
BY DEF PowerLoss, TypeOK, Store

(***************************************************************************)
(* Types.                                                                  *)
(***************************************************************************)
LEMMA TypeInit == Init => TypeOK
<1> SUFFICES ASSUME Init PROVE TypeOK
  OBVIOUS
<1>1. reader \in Reader /\ sup \in Supervisor /\ sup.pc = "idle"
  BY IdleType DEF Init, Reader, NotReading, Idle
<1>2. kept \in Store /\ images \subseteq Store
  BY DEF Init, Store, Empty
<1>3. outcome \in [Runs -> {"none", "clean", "error", "crashed"}]
  BY DEF Init
<1>4. run \in 0 .. MaxRuns /\ deletes \in 0 .. MaxDeletes /\ losses \in 0 .. MaxLosses
  BY StorageAssumption DEF Init
<1> QED
  BY <1>1, <1>2, <1>3, <1>4 DEF Init, TypeOK

LEMMA TypeStep == TypeOK /\ [Next]_vars => TypeOK'
<1> SUFFICES ASSUME TypeOK, [Next]_vars PROVE TypeOK'
  OBVIOUS
<1>t. Target \in Kept
  BY TargetType DEF TypeOK
<1>r. ASSUME sup.pc # "idle" PROVE run \in Runs /\ Temp \in Runs \X Kept
  BY <1>t, <1>r, StorageAssumption DEF TypeOK, Runs, Temp
<1>1. ASSUME NEW c \in Cwds, NEW w \in BOOLEAN, Prepare(c, w) PROVE TypeOK'
  <2>1. [Idle EXCEPT !.pc = "running", !.cwd = c] \in Supervisor
    BY IdleType DEF Supervisor, Positions
  <2>2. run' \in 0 .. MaxRuns /\ run' # 0
    BY <1>1, StorageAssumption DEF Prepare, TypeOK
  <2>3. sup' \in Supervisor /\ exposed' \in BOOLEAN
    BY <1>1, <2>1 DEF Prepare, TypeOK
  <2>4. outcome' \in [Runs -> {"none", "clean", "error", "crashed"}]
    BY <1>1 DEF Prepare, TypeOK
  <2> QED
    BY <1>1, <2>2, <2>3, <2>4 DEF Prepare, TypeOK
<1>2. ASSUME NEW k \in Kept, WorkloadWrites(k) PROVE TypeOK'
  <2>1. [by |-> 0, is |-> "partial"] \in File
    BY StorageAssumption DEF File, Extent
  <2>2. kept' \in Store /\ images' \subseteq Store
    BY <1>2, <2>1 DEF WorkloadWrites, Holds, Store, TypeOK
  <2> QED
    BY <1>2, <2>2 DEF WorkloadWrites, TypeOK
<1>3. ASSUME NEW out \in BOOLEAN, Finalize(out) PROVE TypeOK'
  <2>1. [Idle EXCEPT !.pc = "open", !.out = out] \in Supervisor
    BY IdleType DEF Supervisor, Positions, Persisting
  <2> QED
    BY <1>3, <2>1 DEF Finalize, TypeOK
<1>4. CASE OpenTemp
  <2>1. sup' \in Supervisor
    BY <1>4 DEF OpenTemp, TypeOK, Supervisor, Positions, Persisting, Extent
  <2> QED
    BY <1>4, <1>r, <2>1 DEF OpenTemp, TypeOK
<1>5. CASE WriteTemp
  <2>1. sup' \in Supervisor
    BY <1>5 DEF WriteTemp, TypeOK, Supervisor, Positions, Persisting, Extent
  <2> QED
    BY <1>5, <2>1 DEF WriteTemp, TypeOK
<1>6. CASE SyncTemp
  <2>1. sup' \in Supervisor
    BY <1>6 DEF SyncTemp, TypeOK, Supervisor, Positions, Persisting, Extent
  <2> QED
    BY <1>6, <2>1 DEF SyncTemp, TypeOK
<1>7. CASE Replace
  <2>1. sup' \in Supervisor
    BY <1>7, ReplaceMoves DEF TypeOK, Supervisor, Positions, Persisting, Extent
  <2>2. [by |-> run, is |-> sup.is] \in File
    BY DEF TypeOK, Supervisor, File
  <2>3. kept' \in Store /\ images' \subseteq Store
    BY <1>7, <1>t, <2>2 DEF Replace, Holds, Store, TypeOK
  <2> QED
    BY <1>7, <2>1, <2>3 DEF Replace, TypeOK
<1>8. CASE WriteFails
  <2>1. sup' \in Supervisor
    BY <1>8 DEF WriteFails, TypeOK, Supervisor, Positions
  <2> QED
    BY <1>8, <2>1 DEF WriteFails, TypeOK, Persisting
<1>9. CASE ExportOpen \/ ExportWrite \/ ExportFails
  <2>1. sup' \in Supervisor
    BY <1>9 DEF ExportOpen, ExportWrite, ExportFails, TypeOK, Supervisor, Positions
  <2>2. export' \in File \cup {None}
    BY <1>9 DEF ExportOpen, ExportWrite, ExportFails, TypeOK, File, Extent
  <2> QED
    BY <1>9, <2>1, <2>2 DEF ExportOpen, ExportWrite, ExportFails, TypeOK
<1>10. CASE Return \/ Crash
  <2>1. sup' \in Supervisor /\ sup'.pc = "idle"
    <3>1. Idle.pc = "idle" /\ \A b \in BOOLEAN : /\ [Idle EXCEPT !.out = b] \in Supervisor
                                                /\ [Idle EXCEPT !.out = b].pc = "idle"
      BY IdleType DEF Supervisor, Idle
    <3>2. sup.out \in BOOLEAN
      BY DEF TypeOK, Supervisor
    <3> QED
      BY <1>10, <3>1, <3>2, IdleType DEF Return, Crash
  <2>2. outcome' \in [Runs -> {"none", "clean", "error", "crashed"}]
    BY <1>10 DEF Return, Crash, TypeOK
  <2> QED
    BY <1>10, <2>1, <2>2 DEF Return, Crash, TypeOK
<1>11. CASE PowerLoss
  <2>1. PICK s \in images : /\ kept' = [k \in Kept |-> AfterLoss(s[k])]
                            /\ \A k \in Kept : s[k] \in File \cup {None}
    BY <1>11, LossPicks
  <2>2. kept' \in Store /\ images' \subseteq Store
    BY <1>11, <2>1, AfterLossKeeps DEF PowerLoss, Store
  <2>3. export' \in File \cup {None}
    BY <1>11, AfterLossKeeps DEF PowerLoss, TypeOK
  <2>4. sup' \in Supervisor /\ sup'.pc = "idle" /\ reader' \in Reader
    BY <1>11, IdleType DEF PowerLoss, Idle, NotReading, Reader
  <2>5. outcome' \in [Runs -> {"none", "clean", "error", "crashed"}]
    BY <1>11 DEF PowerLoss, TypeOK
  <2> QED
    BY <1>11, <2>2, <2>3, <2>4, <2>5, StorageAssumption DEF PowerLoss, TypeOK
<1>12. CASE DeleteSession
  <2>1. kept' \in Store /\ images' \subseteq Store
    BY <1>12 DEF DeleteSession, Holds, Store, TypeOK
  <2> QED
    BY <1>12, <2>1, StorageAssumption DEF DeleteSession, TypeOK
<1>13. CASE StatusReadsMetadata
  <2>1. kept["metadata"] \in File \cup {None}
    BY DEF TypeOK, Store, Kept
  <2>2. reader' \in Reader
    BY <1>13, <2>1 DEF StatusReadsMetadata, Reader, NotReading
  <2> QED
    BY <1>13, <2>2 DEF StatusReadsMetadata, TypeOK
<1>16. CASE StatusReadsTrace
  <2>1. kept["trace"] \in File \cup {None}
    BY DEF TypeOK, Store, Kept
  <2>2. reader' \in Reader
    BY <1>16, <2>1 DEF StatusReadsTrace, TypeOK, Reader
  <2> QED
    BY <1>16, <2>2 DEF StatusReadsTrace, TypeOK
<1>14. CASE StatusReports
  BY <1>14 DEF StatusReports, TypeOK, Reader, NotReading
<1>15. CASE UNCHANGED vars
  BY <1>15 DEF vars, TypeOK
<1> QED
  BY <1>1, <1>2, <1>3, <1>4, <1>5, <1>6, <1>7, <1>8, <1>9, <1>10, <1>11, <1>12, <1>13, <1>14, <1>15, <1>16
  DEF Next

\* The variables of Storage keep their types (the supervisor's position, the
\* files, their writers and what is there of them).
THEOREM TypeCorrect == Spec => []TypeOK
BY TypeInit, TypeStep, PTL DEF Spec

(***************************************************************************)
(* No truncated artefact.                                                  *)
(***************************************************************************)
\* Only these steps change the directory, or what the disk may hold of it.
LEMMA DirectoryMoves ==
  ASSUME [Next]_vars
  PROVE  \/ UNCHANGED <<kept, images>>
         \/ \E k \in Kept : WorkloadWrites(k)
         \/ Replace \/ PowerLoss \/ DeleteSession
BY DEF Next, vars, Prepare, Finalize, OpenTemp, WriteTemp, SyncTemp, WriteFails, ExportOpen,
       ExportWrite, ExportFails, Return, Crash, StatusReadsMetadata, StatusReadsTrace, StatusReports

\* Where each step that moves the supervisor takes it.
LEMMA SupervisorMoves ==
  ASSUME TypeOK, [Next]_vars
  PROVE  \/ UNCHANGED sup
         \/ (\E c \in Cwds, w \in BOOLEAN : Prepare(c, w)) /\ sup'.pc = "running"
         \/ (\E out \in BOOLEAN : Finalize(out)) /\ sup'.pc = "open"
         \/ OpenTemp /\ sup'.pc = "write"
         \/ WriteTemp /\ sup'.pc = "sync"
         \/ SyncTemp /\ sup'.pc = "replace"
         \/ Replace /\ sup'.pc \in {"open", "export"}
         \/ WriteFails /\ sup'.pc = "export"
         \/ ExportOpen /\ sup'.pc = "exporting"
         \/ (ExportWrite \/ ExportFails) /\ sup'.pc = "done"
         \/ (Return \/ Crash \/ PowerLoss) /\ sup'.pc = "idle"
<1>1. \A c \in Cwds, w \in BOOLEAN : Prepare(c, w) => UNCHANGED sup \/ sup'.pc = "running"
  BY IdleType DEF Prepare, Supervisor
<1>2. \A out \in BOOLEAN : Finalize(out) => sup'.pc = "open"
  BY IdleType DEF Finalize, Supervisor
<1>3. /\ OpenTemp => sup'.pc = "write"
      /\ WriteTemp => sup'.pc = "sync"
      /\ SyncTemp => sup'.pc = "replace"
      /\ WriteFails => sup'.pc = "export"
  BY DEF TypeOK, Supervisor, OpenTemp, WriteTemp, SyncTemp, WriteFails
<1>4. Replace => sup'.pc \in {"open", "export"}
  BY ReplaceMoves DEF TypeOK, Supervisor
<1>5. /\ ExportOpen => sup'.pc = "exporting"
      /\ ExportWrite \/ ExportFails => sup'.pc = "done"
  BY DEF TypeOK, Supervisor, ExportOpen, ExportWrite, ExportFails
<1>6. Return \/ Crash \/ PowerLoss => sup'.pc = "idle"
  BY DEF Idle, Return, Crash, PowerLoss
<1>7. /\ (\E k \in Kept : WorkloadWrites(k)) => UNCHANGED sup
      /\ DeleteSession \/ StatusReadsMetadata \/ StatusReadsTrace \/ StatusReports => UNCHANGED sup
  BY DEF WorkloadWrites, DeleteSession, StatusReadsMetadata, StatusReadsTrace, StatusReports
<1> QED
  BY <1>1, <1>2, <1>3, <1>4, <1>5, <1>6, <1>7 DEF Next, vars

\* What the rename puts in place was synced.
SyncInv == NeverTruncated /\ (sup.pc = "replace" => sup.is = "synced")

LEMMA ReadyIsSynced ==
  ASSUME TypeOK, SyncInv, [Next]_vars
  PROVE  (sup.pc = "replace" => sup.is = "synced")'
<1>1. CASE UNCHANGED sup
  BY <1>1 DEF SyncInv
<1>2. CASE SyncTemp
  BY <1>2 DEF SyncTemp, TypeOK, Supervisor
<1> QED
  BY <1>1, <1>2, SupervisorMoves

LEMMA SyncStep == TypeOK /\ SyncInv /\ [Next]_vars => SyncInv'
<1> SUFFICES ASSUME TypeOK, SyncInv, [Next]_vars PROVE NeverTruncated'
  BY ReadyIsSynced DEF SyncInv
<1> DEFINE Whole(f) == f # None /\ f.by # 0 => f.is = "synced"
<1>1. \A s \in images \cup {kept}, k \in Kept : Whole(s[k])
  BY DEF SyncInv, NeverTruncated
<1> SUFFICES ASSUME NEW s \in images' \cup {kept'}, NEW k \in Kept PROVE Whole(s[k])
  BY DEF NeverTruncated
<1>2. CASE UNCHANGED <<kept, images>>
  BY <1>1, <1>2
<1>3. ASSUME NEW j \in Kept, WorkloadWrites(j) PROVE Whole(s[k])
  BY <1>1, <1>3 DEF WorkloadWrites, Holds, TypeOK, Store
<1>4. CASE Replace
  <2>1. Target \in Kept /\ sup.is = "synced"
    BY <1>4, TargetType DEF SyncInv, Replace, TypeOK
  <2> QED
    BY <1>1, <1>4, <2>1 DEF Replace, Holds, TypeOK, Store
<1>5. CASE PowerLoss
  <2>1. PICK i \in images : /\ kept' = [j \in Kept |-> AfterLoss(i[j])]
                            /\ \A j \in Kept : i[j] \in File \cup {None}
    BY <1>5, LossPicks
  <2>2. s[k] = AfterLoss(i[k])
    BY <1>5, <2>1 DEF PowerLoss
  <2>3. Whole(i[k])
    BY <1>1
  <2> QED
    BY <2>1, <2>2, <2>3, AfterLossKeeps
<1>6. CASE DeleteSession
  BY <1>1, <1>6 DEF DeleteSession, Holds, TypeOK, Store
<1> QED
  BY <1>2, <1>3, <1>4, <1>5, <1>6, DirectoryMoves

\* No crash and no power failure leaves a truncated trace or metadata under
\* its final name (_atomic_write).
THEOREM NeverTruncatedHolds == Spec => []NeverTruncated
<1>1. Init => SyncInv
  BY DEF Init, SyncInv, NeverTruncated, Empty, Idle
<1> QED
  BY <1>1, SyncStep, TypeCorrect, PTL DEF Spec, SyncInv

(***************************************************************************)
(* The workload's reach.                                                   *)
(***************************************************************************)
LEMMA TwoNames == <<"sessions", "id">> \in Seq(Name) /\ Len(<<"sessions", "id">>) = 2
BY StorageAssumption

LEMMA PrefixPoints ==
  ASSUME NEW s \in Seq(Name), NEW t \in Seq(Name)
  PROVE  IsPrefix(s, t) <=> Len(s) <= Len(t) /\ \A i \in 1 .. Len(s) : s[i] = t[i]
BY DEF IsPrefix

\* A prefix of a path below the root ends above the root, at it or below it.
LEMMA AboveOrBelow ==
  ASSUME NEW cwd \in Seq(Name), NEW k \in Kept, IsPrefix(cwd, PathOf(k))
  PROVE  IsPrefix(cwd, Root) \/ IsPrefix(Root, cwd)
<1>1. /\ PathOf(k) \in Seq(Name)
      /\ Len(PathOf(k)) = Len(Root) + 3
      /\ \A i \in 1 .. Len(Root) : PathOf(k)[i] = Root[i]
  <2> DEFINE tail == <<"sessions", "id">>
  <2>1. tail \in Seq(Name) /\ Len(tail) = 2
    BY TwoNames
  <2> HIDE DEF tail
  <2>2. /\ SessionDir \in Seq(Name)
        /\ Len(SessionDir) = Len(Root) + 2
        /\ \A i \in 1 .. Len(Root) : SessionDir[i] = Root[i]
    BY <2>1, StorageAssumption, ConcatProperties DEF SessionDir, tail
  <2>3. k \in Name
    BY StorageAssumption DEF Kept
  <2> QED
    BY <2>2, <2>3, StorageAssumption, AppendProperties DEF PathOf
<1>2. Len(cwd) \in Nat /\ Len(Root) \in Nat /\ Root \in Seq(Name)
  BY StorageAssumption
<1>3. \A i \in 1 .. Len(cwd) : cwd[i] = PathOf(k)[i]
  BY <1>1, PrefixPoints
<1>4. CASE Len(cwd) <= Len(Root)
  BY <1>1, <1>2, <1>3, <1>4, PrefixPoints
<1>5. CASE Len(Root) <= Len(cwd)
  BY <1>1, <1>2, <1>3, <1>5, PrefixPoints
<1> QED
  BY <1>2, <1>4, <1>5

\* No file of the workload's is on the disk, and the workload that is running
\* cannot write one.
ReachInv ==
  ~exposed =>
    /\ \A s \in images \cup {kept}, k \in Kept : s[k] = None \/ s[k].by # 0
    /\ sup.pc = "running" => \A k \in Kept : IsOutside(PathOf(k), sup.cwd)

LEMMA RunningOutside ==
  ASSUME TypeOK, ReachInv, [Next]_vars, ~exposed', sup'.pc = "running"
  PROVE  \A k \in Kept : IsOutside(PathOf(k), sup'.cwd)
<1>1. CASE UNCHANGED sup
  <2>1. ~exposed
    BY DEF Next, vars, Prepare, WorkloadWrites, Finalize, OpenTemp, WriteTemp, SyncTemp, Replace,
       WriteFails, ExportOpen, ExportWrite, ExportFails, Return, Crash, PowerLoss, DeleteSession,
       StatusReadsMetadata, StatusReadsTrace, StatusReports
  <2> QED
    BY <1>1, <2>1 DEF ReachInv
<1>2. ASSUME NEW c \in Cwds, NEW w \in BOOLEAN, Prepare(c, w), ~UNCHANGED sup
      PROVE  \A k \in Kept : IsOutside(PathOf(k), sup'.cwd)
  <2>1. sup'.cwd = c /\ IsOutside(Root, c) /\ IsOutside(c, Root)
    BY <1>2, IdleType DEF Prepare, Supervisor
  <2> QED
    BY <2>1, AboveOrBelow, StorageAssumption DEF IsOutside
<1> QED
  BY <1>1, <1>2, SupervisorMoves

LEMMA ReachStep == TypeOK /\ ReachInv /\ [Next]_vars => ReachInv'
<1> SUFFICES ASSUME TypeOK, ReachInv, [Next]_vars, ~exposed',
                    NEW s \in images' \cup {kept'}, NEW k \in Kept
             PROVE  s[k] = None \/ s[k].by # 0
  BY RunningOutside DEF ReachInv
<1>1. ~exposed
  BY DEF Next, vars, Prepare, WorkloadWrites, Finalize, OpenTemp, WriteTemp, SyncTemp, Replace,
     WriteFails, ExportOpen, ExportWrite, ExportFails, Return, Crash, PowerLoss, DeleteSession,
     StatusReadsMetadata, StatusReadsTrace, StatusReports
<1>2. \A i \in images \cup {kept}, j \in Kept : i[j] = None \/ i[j].by # 0
  BY <1>1 DEF ReachInv
<1>3. CASE UNCHANGED <<kept, images>>
  BY <1>2, <1>3
<1>4. ASSUME NEW j \in Kept PROVE ~WorkloadWrites(j)
  BY <1>1 DEF WorkloadWrites, ReachInv
<1>5. CASE Replace
  <2>1. Target \in Kept /\ run # 0
    BY <1>5, TargetType DEF Replace, TypeOK
  <2> QED
    BY <1>2, <1>5, <2>1 DEF Replace, Holds, TypeOK, Store
<1>6. CASE PowerLoss
  <2>1. PICK i \in images : /\ kept' = [j \in Kept |-> AfterLoss(i[j])]
                            /\ \A j \in Kept : i[j] \in File \cup {None}
    BY <1>6, LossPicks
  <2>2. s[k] = AfterLoss(i[k])
    BY <1>6, <2>1 DEF PowerLoss
  <2> QED
    BY <1>2, <2>1, <2>2, AfterLossKeeps
<1>7. CASE DeleteSession
  BY <1>2, <1>7 DEF DeleteSession, Holds, TypeOK, Store
<1> QED
  BY <1>3, <1>4, <1>5, <1>6, <1>7, DirectoryMoves

\* Only a supervisor writes the artefacts, for every storage root and every
\* working directory that assert_outside lets in above, beside or apart from
\* the root (_prepare).
THEOREM OutOfReachHolds == Spec => []OutOfReach
<1>1. Init => ReachInv
  BY DEF Init, ReachInv, Empty, Idle
<1>2. ReachInv => OutOfReach
  BY DEF ReachInv, OutOfReach
<1> QED
  BY <1>1, <1>2, ReachStep, TypeCorrect, PTL DEF Spec

(***************************************************************************)
(* The order of the artefacts.                                             *)
(***************************************************************************)
\* No artefact is of a run to come.
WritersInv ==
  /\ \A s \in images \cup {kept}, k \in Kept : s[k] # None => s[k].by <= run
  /\ reader.metadata # None => reader.metadata.by <= run

\* The trace is in place before the run turns to the metadata, both are once
\* it is past them, and what the reader holds is matched by what is kept.
OrderInv ==
  deletes = 0 /\ ~exposed =>
    /\ \A s \in images \cup {kept} : HasTrace(s["metadata"], s["trace"])
    /\ HasTrace(reader.metadata, kept["trace"])
    /\ reader.at = "trace" => HasTrace(reader.metadata, reader.trace)
    /\ sup.pc \in Persisting /\ sup.nth = 2 => kept["trace"] # None /\ kept["trace"].by = run
    /\ sup.pc \in {"export", "exporting", "done"} /\ ~sup.error =>
         \A k \in Kept : kept[k] # None /\ kept[k].by = run

LEMMA FilesTyped ==
  ASSUME TypeOK
  PROVE  /\ \A s \in images \cup {kept}, k \in Kept :
              s[k] = None \/ (s[k] \in File /\ s[k] # None /\ s[k].by \in Nat)
         /\ run \in Nat
         /\ reader.metadata = None \/ (reader.metadata # None /\ reader.metadata.by \in Nat)
         /\ deletes \in Nat
BY NoneAssumption, StorageAssumption DEF TypeOK, Store, File, Reader

\* The exceptions of MetadataHasTrace are for good.
LEMMA ExceptionsStay ==
  ASSUME TypeOK, [Next]_vars
  PROVE  /\ deletes' = 0 => deletes = 0 /\ ~DeleteSession
         /\ ~exposed' => ~exposed
         /\ run' = run \/ (run' = run + 1 /\ \E c \in Cwds, w \in BOOLEAN : Prepare(c, w))
<1>1. \A c \in Cwds, w \in BOOLEAN : Prepare(c, w) => /\ UNCHANGED deletes
                                                      /\ run' = run + 1
                                                      /\ ~exposed' => ~exposed
  BY DEF Prepare
<1>2. DeleteSession => deletes' # 0 /\ UNCHANGED <<exposed, run>>
  BY StorageAssumption DEF DeleteSession, TypeOK
<1>3. \/ \E c \in Cwds, w \in BOOLEAN : Prepare(c, w)
      \/ DeleteSession
      \/ ~DeleteSession /\ UNCHANGED <<deletes, exposed, run>>
  BY DEF Next, vars, WorkloadWrites, Finalize, OpenTemp, WriteTemp, SyncTemp, Replace,
     WriteFails, ExportOpen, ExportWrite, ExportFails, Return, Crash, PowerLoss,
     StatusReadsMetadata, StatusReadsTrace, StatusReports
<1>4. DeleteSession => deletes' = deletes + 1
  BY DEF DeleteSession
<1> QED
  BY <1>1, <1>2, <1>3, <1>4 DEF TypeOK

\* What the reader holds changes only when it reads.
LEMMA ReaderMoves ==
  ASSUME [Next]_vars
  PROVE  \/ UNCHANGED reader
         \/ reader' = NotReading
         \/ StatusReadsMetadata \/ StatusReadsTrace
BY DEF Next, vars, Prepare, WorkloadWrites, Finalize, OpenTemp, WriteTemp, SyncTemp, Replace,
   WriteFails, ExportOpen, ExportWrite, ExportFails, Return, Crash, PowerLoss, DeleteSession,
   StatusReports

LEMMA WritersStep == TypeOK /\ WritersInv /\ [Next]_vars => WritersInv'
<1> SUFFICES ASSUME TypeOK, WritersInv, [Next]_vars PROVE WritersInv'
  OBVIOUS
<1>r. run \in Nat /\ run' \in Nat /\ run <= run'
  BY FilesTyped, ExceptionsStay
<1>k. \A s \in images \cup {kept}, k \in Kept :
        s[k] = None \/ (s[k] \in File /\ s[k] # None /\ s[k].by \in Nat /\ s[k].by <= run)
  BY FilesTyped DEF WritersInv
<1>1. ASSUME NEW s \in images' \cup {kept'}, NEW k \in Kept, s[k] # None PROVE s[k].by <= run'
  <2>1. CASE UNCHANGED <<kept, images>>
    BY <1>r, <1>k, <1>1, <2>1
  <2>2. ASSUME NEW j \in Kept, WorkloadWrites(j) PROVE s[k].by <= run'
    BY <1>r, <1>k, <1>1, <2>2 DEF WorkloadWrites, Holds, TypeOK, Store
  <2>3. CASE Replace
    <3>1. Target \in Kept
      BY TargetType DEF TypeOK
    <3> QED
      BY <1>r, <1>k, <1>1, <2>3, <3>1 DEF Replace, Holds, TypeOK, Store
  <2>4. CASE PowerLoss
    <3>1. PICK i \in images : /\ kept' = [j \in Kept |-> AfterLoss(i[j])]
                              /\ \A j \in Kept : i[j] \in File \cup {None}
      BY <2>4, LossPicks
    <3>2. s[k] = AfterLoss(i[k])
      BY <2>4, <3>1 DEF PowerLoss
    <3> QED
      BY <1>r, <1>k, <1>1, <3>1, <3>2, AfterLossKeeps
  <2>5. CASE DeleteSession
    BY <1>r, <1>k, <1>1, <2>5 DEF DeleteSession, Holds, TypeOK, Store
  <2> QED
    BY <2>1, <2>2, <2>3, <2>4, <2>5, DirectoryMoves
<1>2. reader'.metadata # None => reader'.metadata.by <= run'
  <2>0. reader.metadata # None => reader.metadata.by <= run /\ reader.metadata.by \in Nat
    BY FilesTyped DEF WritersInv
  <2>1. CASE UNCHANGED reader \/ reader' = NotReading
    BY <1>r, <2>0, <2>1 DEF NotReading
  <2>2. CASE StatusReadsMetadata
    BY <1>r, <1>k, <2>2 DEF StatusReadsMetadata, NotReading, Kept
  <2>3. CASE StatusReadsTrace
    BY <1>r, <2>0, <2>3 DEF StatusReadsTrace, TypeOK, Reader
  <2> QED
    BY <2>1, <2>2, <2>3, ReaderMoves
<1> QED
  BY <1>1, <1>2 DEF WritersInv

\* A step of the directory and the reader that the order survives.
LEMMA OrderOfFiles ==
  ASSUME TypeOK, ReachInv, WritersInv, OrderInv, [Next]_vars, deletes' = 0, ~exposed'
  PROVE  /\ \A s \in images' \cup {kept'} : HasTrace(s["metadata"], s["trace"])
         /\ HasTrace(reader'.metadata, kept'["trace"])
         /\ reader'.at = "trace" => HasTrace(reader'.metadata, reader'.trace)
<1>0. deletes = 0 /\ ~exposed /\ ~DeleteSession
  BY ExceptionsStay
<1>o. /\ \A s \in images \cup {kept} : HasTrace(s["metadata"], s["trace"])
      /\ HasTrace(reader.metadata, kept["trace"])
      /\ reader.at = "trace" => HasTrace(reader.metadata, reader.trace)
      /\ sup.pc \in Persisting /\ sup.nth = 2 => kept["trace"] # None /\ kept["trace"].by = run
  BY <1>0 DEF OrderInv
<1>k. \A s \in images \cup {kept}, k \in Kept :
        s[k] = None \/ (s[k] \in File /\ s[k] # None /\ s[k].by \in Nat /\ s[k].by <= run)
  BY FilesTyped DEF WritersInv
<1>w. \A k \in Kept : ~WorkloadWrites(k)
  BY <1>0 DEF WorkloadWrites, ReachInv
<1>n. "trace" \in Kept /\ "metadata" \in Kept /\ "trace" # "metadata"
  BY DEF Kept
<1>1. CASE UNCHANGED <<kept, images>>
  <2>1. CASE UNCHANGED reader \/ reader' = NotReading
    BY <1>o, <1>1, <2>1 DEF NotReading, HasTrace
  <2>2. CASE StatusReadsMetadata
    BY <1>o, <1>1, <2>2 DEF StatusReadsMetadata, NotReading, HasTrace
  <2>3. CASE StatusReadsTrace
    BY <1>o, <1>1, <2>3 DEF StatusReadsTrace, TypeOK, Reader, HasTrace
  <2> QED
    BY <2>1, <2>2, <2>3, ReaderMoves
<1>2. CASE Replace
  <2>r. UNCHANGED reader
    BY <1>2 DEF Replace
  <2>m. reader.metadata # None => reader.metadata.by <= run /\ reader.metadata.by \in Nat
    BY FilesTyped DEF WritersInv
  <2>f. [by |-> run, is |-> sup.is] # None
    BY NoneAssumption DEF TypeOK, Supervisor, File
  <2>d. run \in Nat /\ kept' = [kept EXCEPT ![Target] = [by |-> run, is |-> sup.is]]
        /\ images' = images \cup {kept'} /\ kept \in Store
    BY <1>2, FilesTyped DEF Replace, Holds, TypeOK
  <2>1. CASE Target = "trace"
    <3>1. /\ kept'["trace"] # None /\ kept'["trace"].by = run
          /\ kept'["metadata"] = kept["metadata"]
      BY <1>n, <2>1, <2>d, <2>f DEF Store
    <3>2. HasTrace(kept'["metadata"], kept'["trace"]) /\ HasTrace(reader.metadata, kept'["trace"])
      BY <1>k, <1>n, <2>m, <2>d, <3>1 DEF HasTrace
    <3> QED
      BY <1>o, <2>r, <2>d, <3>2
  <2>2. CASE Target = "metadata" /\ sup.nth = 2
    <3>1. /\ kept'["metadata"].by = run
          /\ kept'["trace"] = kept["trace"]
          /\ kept["trace"] # None /\ kept["trace"].by = run
      BY <1>2, <1>n, <1>o, <2>2, <2>d DEF Store, Replace, Persisting
    <3>2. HasTrace(kept'["metadata"], kept'["trace"])
      BY <2>d, <3>1 DEF HasTrace
    <3> QED
      BY <1>o, <2>r, <2>d, <3>1, <3>2
  <2> QED
    BY <2>1, <2>2, TargetType DEF TypeOK, Supervisor
<1>3. CASE PowerLoss
  <2>1. PICK i \in images : /\ kept' = [j \in Kept |-> AfterLoss(i[j])]
                            /\ \A j \in Kept : i[j] \in File \cup {None}
    BY <1>3, LossPicks
  <2>2. kept'["metadata"] = AfterLoss(i["metadata"]) /\ kept'["trace"] = AfterLoss(i["trace"])
    BY <1>n, <2>1
  <2>3. HasTrace(i["metadata"], i["trace"])
    BY <1>o
  <2>4. HasTrace(kept'["metadata"], kept'["trace"])
    BY <1>n, <2>1, <2>2, <2>3, AfterLossKeeps DEF HasTrace
  <2> QED
    BY <1>3, <2>4 DEF PowerLoss, NotReading, HasTrace
<1> QED
  BY <1>0, <1>w, <1>1, <1>2, <1>3, DirectoryMoves

LEMMA OrderOfRun ==
  ASSUME TypeOK, ReachInv, OrderInv, [Next]_vars, deletes' = 0, ~exposed'
  PROVE  /\ sup'.pc \in Persisting /\ sup'.nth = 2 => kept'["trace"] # None /\ kept'["trace"].by = run'
         /\ sup'.pc \in {"export", "exporting", "done"} /\ ~sup'.error =>
              \A k \in Kept : kept'[k] # None /\ kept'[k].by = run'
<1>0. deletes = 0 /\ ~exposed /\ ~DeleteSession
  BY ExceptionsStay
<1>o. /\ sup.pc \in Persisting /\ sup.nth = 2 => kept["trace"] # None /\ kept["trace"].by = run
      /\ sup.pc \in {"export", "exporting", "done"} /\ ~sup.error =>
           \A k \in Kept : kept[k] # None /\ kept[k].by = run
  BY <1>0 DEF OrderInv
<1>w. \A k \in Kept : ~WorkloadWrites(k)
  BY <1>0 DEF WorkloadWrites, ReachInv
<1>d. UNCHANGED kept \/ Replace \/ PowerLoss
  BY <1>0, <1>w, DirectoryMoves
<1>1. CASE UNCHANGED <<sup, kept, run>>
  BY <1>o, <1>1
<1>2. CASE sup'.pc \in {"idle", "running"}
  BY <1>2 DEF Persisting
<1>3. ASSUME NEW out \in BOOLEAN, Finalize(out) PROVE sup'.pc = "open" /\ sup'.nth = 1
  BY <1>3 DEF Finalize, Idle
<1>4. CASE OpenTemp \/ WriteTemp \/ SyncTemp
  <2>1. sup.pc \in Persisting /\ sup'.pc \in Persisting /\ sup'.nth = sup.nth
    BY <1>4 DEF OpenTemp, WriteTemp, SyncTemp, TypeOK, Supervisor, Persisting
  <2> QED
    BY <1>4, <1>o, <2>1 DEF OpenTemp, WriteTemp, SyncTemp, Persisting
<1>5. CASE Replace
  <2>f. [by |-> run, is |-> sup.is] # None
    BY NoneAssumption DEF TypeOK, Supervisor, File
  <2>d. /\ kept' = [kept EXCEPT ![Target] = [by |-> run, is |-> sup.is]]
        /\ kept \in Store /\ run' = run /\ sup.pc = "replace"
    BY <1>5 DEF Replace, Holds, TypeOK
  <2>1. CASE sup.nth = 1
    <3>1. Target = "trace" /\ sup'.pc = "open"
      BY <1>5, <2>1, ReplaceMoves, TargetType DEF TypeOK, Supervisor
    <3> QED
      BY <2>f, <2>d, <3>1 DEF Store, Kept
  <2>2. CASE sup.nth = 2
    <3>1. Target = "metadata" /\ sup'.pc = "export"
      BY <1>5, <2>2, ReplaceMoves, TargetType DEF TypeOK, Supervisor
    <3> QED
      BY <1>o, <2>2, <2>f, <2>d, <3>1 DEF Store, Kept, Persisting
  <2> QED
    BY <2>1, <2>2 DEF TypeOK, Supervisor
<1>6. CASE WriteFails
  <2>1. sup'.pc = "export" /\ sup'.error
    BY <1>6 DEF WriteFails, TypeOK, Supervisor
  <2> QED
    BY <2>1 DEF Persisting
<1>7. CASE ExportOpen \/ ExportWrite \/ ExportFails
  <2>1. /\ sup.pc \in {"export", "exporting"} /\ sup'.pc \in {"exporting", "done"}
        /\ ~sup'.error => ~sup.error
        /\ UNCHANGED <<kept, run>>
    BY <1>7 DEF ExportOpen, ExportWrite, ExportFails, TypeOK, Supervisor
  <2> QED
    BY <1>o, <2>1 DEF Persisting
<1>8. UNCHANGED sup => UNCHANGED run \/ sup'.pc = "idle"
  BY ExceptionsStay DEF Prepare
<1>9. Replace => ~UNCHANGED sup
  BY ReplaceMoves DEF TypeOK, Supervisor, Replace
<1>10. PowerLoss => sup'.pc = "idle"
  BY DEF PowerLoss, Idle
<1> QED
  BY <1>d, <1>1, <1>2, <1>3, <1>4, <1>5, <1>6, <1>7, <1>8, <1>9, <1>10, SupervisorMoves DEF Persisting

LEMMA OrderStep == TypeOK /\ ReachInv /\ WritersInv /\ OrderInv /\ [Next]_vars => OrderInv'
BY OrderOfFiles, OrderOfRun DEF OrderInv

LEMMA OrderHolds == Spec => [](TypeOK /\ ReachInv /\ WritersInv /\ OrderInv)
<1>1. Init => ReachInv /\ WritersInv /\ OrderInv
  BY DEF Init, ReachInv, WritersInv, OrderInv, HasTrace, Empty, Idle, NotReading, Kept, Persisting
<1> QED
  BY <1>1, ReachStep, WritersStep, OrderStep, TypeCorrect, PTL DEF Spec

\* The metadata of a run is never without its trace: in the directory, on
\* the disk after a power failure, and for `watcher status`, which reads the
\* metadata first (write_trace before write_metadata in _finalize).
THEOREM MetadataHasTraceHolds == Spec => []MetadataHasTrace
<1>1. OrderInv => MetadataHasTrace
  BY DEF OrderInv, MetadataHasTrace
<1> QED
  BY <1>1, OrderHolds, PTL

(***************************************************************************)
(* What a clean run has stored.                                            *)
(***************************************************************************)
\* No temporary file and no outcome is of a run to come, and a run that is
\* under way has none yet.
RunsInv ==
  /\ \A r \in Runs, k \in Kept : <<r, k>> \in temps => r <= run
  /\ \A r \in Runs : r > run => outcome[r] = "none"
  /\ sup.pc # "idle" => outcome[run] = "none"

\* A run with no error so far has no temporary file but the one at hand, and
\* past the export it has a whole one.
TidyInv ==
  /\ sup.pc = "running" => ~sup.error
  /\ sup.pc # "idle" /\ ~sup.error =>
       /\ \A k \in Kept : Temp = <<run, k>> \/ <<run, k>> \notin temps
       /\ Temp \in temps => sup.pc \in {"write", "sync", "replace"}
       /\ sup.pc = "exporting" => sup.out
       /\ sup.pc = "done" => sup.out /\ export = [by |-> run, is |-> "whole"]

LEMMA RunsStep == TypeOK /\ RunsInv /\ [Next]_vars => RunsInv'
<1> SUFFICES ASSUME TypeOK, RunsInv, [Next]_vars PROVE RunsInv'
  OBVIOUS
<1>r. run \in Nat /\ (sup.pc # "idle" => run \in Runs) /\ MaxRuns \in Nat
  BY StorageAssumption DEF TypeOK, Runs
<1>0. /\ \A r \in Runs, k \in Kept : <<r, k>> \in temps => r <= run
      /\ \A r \in Runs : r > run => outcome[r] = "none"
      /\ sup.pc # "idle" => outcome[run] = "none"
      /\ outcome \in [Runs -> {"none", "clean", "error", "crashed"}]
  BY DEF RunsInv, TypeOK
<1>1. ASSUME NEW c \in Cwds, NEW w \in BOOLEAN, Prepare(c, w) PROVE RunsInv'
  <2>1. run' = run + 1 /\ run' \in Runs /\ UNCHANGED temps
    BY <1>1, <1>r DEF Prepare, Runs
  <2>2. outcome[run'] = "none"
    BY <1>0, <1>r, <2>1
  <2>3. \/ UNCHANGED outcome
        \/ sup'.pc = "idle" /\ outcome' = [outcome EXCEPT ![run'] = "error"]
    BY <1>1 DEF Prepare
  <2> QED
    BY <1>0, <1>r, <2>1, <2>2, <2>3 DEF RunsInv, Runs
<1>2. CASE UNCHANGED <<run, outcome, temps>> /\ (sup'.pc # "idle" => sup.pc # "idle")
  BY <1>0, <1>2 DEF RunsInv
<1>3. CASE OpenTemp
  BY <1>0, <1>r, <1>3 DEF OpenTemp, RunsInv, Temp, TypeOK, Supervisor
<1>4. CASE Replace \/ WriteFails \/ DeleteSession
  <2>1. /\ UNCHANGED <<run, outcome>> /\ temps' \subseteq temps
        /\ sup.pc # "idle" \/ UNCHANGED sup
    BY <1>4 DEF Replace, WriteFails, DeleteSession, Persisting
  <2> QED
    BY <1>0, <2>1 DEF RunsInv
<1>5. CASE Return \/ Crash \/ PowerLoss
  <2>1. /\ sup'.pc = "idle" /\ UNCHANGED <<run, temps>>
        /\ \A r \in Runs : r > run => outcome'[r] = outcome[r]
    BY <1>5, <1>0, <1>r DEF Return, Crash, PowerLoss, Idle, Runs
  <2> QED
    BY <1>0, <2>1 DEF RunsInv
<1>6. CASE \/ \E k \in Kept : WorkloadWrites(k)
           \/ \E out \in BOOLEAN : Finalize(out)
           \/ WriteTemp \/ SyncTemp \/ ExportOpen \/ ExportWrite \/ ExportFails
           \/ StatusReadsMetadata \/ StatusReadsTrace \/ StatusReports \/ UNCHANGED vars
  <2>1. UNCHANGED <<run, outcome, temps>> /\ (sup'.pc # "idle" => sup.pc # "idle")
    BY <1>6 DEF WorkloadWrites, Finalize, WriteTemp, SyncTemp, ExportOpen, ExportWrite,
       ExportFails, StatusReadsMetadata, StatusReadsTrace, StatusReports, vars
  <2> QED
    BY <1>2, <2>1
<1> QED
  BY <1>1, <1>3, <1>4, <1>5, <1>6 DEF Next

LEMMA TidyStep == TypeOK /\ RunsInv /\ TidyInv /\ [Next]_vars => TidyInv'
<1> SUFFICES ASSUME TypeOK, RunsInv, TidyInv, [Next]_vars PROVE TidyInv'
  OBVIOUS
<1>e. sup'.pc = "running" => ~sup'.error
  <2>1. \A c \in Cwds, w \in BOOLEAN : Prepare(c, w) /\ sup'.pc = "running" => ~sup'.error
    BY DEF Prepare, Idle, TidyInv
  <2> QED
    BY <2>1, SupervisorMoves DEF TidyInv
<1> SUFFICES ASSUME sup'.pc # "idle", ~sup'.error
             PROVE  /\ \A k \in Kept : Temp' = <<run', k>> \/ <<run', k>> \notin temps'
                    /\ Temp' \in temps' => sup'.pc \in {"write", "sync", "replace"}
                    /\ sup'.pc = "exporting" => sup'.out
                    /\ sup'.pc = "done" => sup'.out /\ export' = [by |-> run', is |-> "whole"]
  BY <1>e DEF TidyInv
<1>t. Temp = <<run, Target>> /\ Temp' = <<run', Target'>> /\ Target \in Kept /\ Target' \in Kept
  <2>1. TypeOK'
    BY TypeStep
  <2>2. (sup \in Supervisor)' => (Target \in Kept)'
    BY Orders DEF Target, Supervisor, Kept
  <2> QED
    BY <2>1, <2>2, TargetType DEF TypeOK, Temp
<1>0. sup.pc # "idle" /\ ~sup.error =>
        /\ \A k \in Kept : Temp = <<run, k>> \/ <<run, k>> \notin temps
        /\ Temp \in temps => sup.pc \in {"write", "sync", "replace"}
        /\ sup.pc = "exporting" => sup.out
        /\ sup.pc = "done" => sup.out /\ export = [by |-> run, is |-> "whole"]
  BY DEF TidyInv
<1>1. CASE UNCHANGED <<sup, run, export>> /\ temps' \subseteq temps
  <2>1. Temp' = Temp
    BY <1>1 DEF Temp, Target
  <2> QED
    BY <1>0, <1>1, <2>1
<1>2. ASSUME NEW c \in Cwds, NEW w \in BOOLEAN, Prepare(c, w)
      PROVE  sup'.pc = "running" /\ \A k \in Kept : <<run', k>> \notin temps'
  <2>1. run' = run + 1 /\ run' \in Runs /\ UNCHANGED temps /\ run \in Nat
    BY <1>2, StorageAssumption DEF Prepare, Runs, TypeOK
  <2>2. sup'.pc = "running"
    BY <1>2, IdleType DEF Prepare, Supervisor
  <2> QED
    BY <2>1, <2>2 DEF RunsInv
<1>3. CASE \E out \in BOOLEAN : Finalize(out)
  <2>0. sup.pc = "running" /\ ~sup.error
    BY <1>3 DEF Finalize, TidyInv
  <2>1. sup.pc = "running" /\ sup'.pc = "open" /\ UNCHANGED <<temps, run>>
    BY <1>3 DEF Finalize, Idle
  <2> QED
    BY <1>0, <1>t, <2>0, <2>1
<1>4. CASE OpenTemp
  <2>1. /\ sup'.pc = "write" /\ Temp' = Temp /\ ~sup.error /\ sup.pc = "open"
        /\ run' = run /\ temps' = temps \cup {Temp}
    BY <1>4 DEF OpenTemp, Temp, Target, TypeOK, Supervisor
  <2> QED
    BY <1>0, <1>t, <2>1
<1>5. CASE WriteTemp \/ SyncTemp
  <2>1. /\ sup'.pc \in {"sync", "replace"} /\ Temp' = Temp /\ ~sup.error /\ sup.pc # "idle"
        /\ UNCHANGED <<run, temps>>
    BY <1>5 DEF WriteTemp, SyncTemp, Temp, Target, TypeOK, Supervisor
  <2> QED
    BY <1>0, <2>1
<1>6. CASE Replace
  <2>1. /\ sup'.pc \in {"open", "export"} /\ ~sup.error /\ sup.pc = "replace"
        /\ run' = run /\ temps' = temps \ {Temp}
    BY <1>6, ReplaceMoves DEF Replace, TypeOK, Supervisor
  <2>2. \A k \in Kept : <<run', k>> \notin temps'
    BY <1>0, <2>1
  <2> QED
    BY <1>t, <2>1, <2>2
<1>7. CASE WriteFails \/ ExportFails
  BY <1>7 DEF WriteFails, ExportFails, TypeOK, Supervisor
<1>8. CASE ExportOpen \/ ExportWrite
  <2>1. /\ Temp' = Temp /\ ~sup.error /\ sup.pc \in {"export", "exporting"}
        /\ sup'.pc \in {"exporting", "done"} /\ UNCHANGED <<run, temps>>
    BY <1>8 DEF ExportOpen, ExportWrite, Temp, Target, TypeOK, Supervisor
  <2>2. Temp \notin temps /\ \A k \in Kept : <<run, k>> \notin temps
    BY <1>0, <1>t, <2>1
  <2>3. /\ sup'.out
        /\ sup'.pc = "done" => export' = [by |-> run, is |-> "whole"]
    BY <1>8, <1>0, <2>1 DEF ExportOpen, ExportWrite, TypeOK, Supervisor
  <2> QED
    BY <2>1, <2>2, <2>3
<1>9. CASE \/ \E k \in Kept : WorkloadWrites(k)
           \/ DeleteSession \/ StatusReadsMetadata \/ StatusReadsTrace \/ StatusReports
           \/ UNCHANGED vars
  BY <1>1, <1>9 DEF WorkloadWrites, DeleteSession, StatusReadsMetadata, StatusReadsTrace,
     StatusReports, vars
<1>10. ~Return /\ ~Crash /\ ~PowerLoss
  BY DEF Return, Crash, PowerLoss, Idle
<1>11. CASE \E c \in Cwds, w \in BOOLEAN : Prepare(c, w)
  BY <1>2, <1>11, <1>t
<1> QED
  BY <1>3, <1>4, <1>5, <1>6, <1>7, <1>8, <1>9, <1>10, <1>11 DEF Next

LEMMA CleanStep ==
  ASSUME TypeOK, ReachInv, WritersInv, OrderInv, RunsInv, TidyInv, CleanIsStored, [Next]_vars
  PROVE  CleanIsStored'
<1> SUFFICES ASSUME NEW r \in Runs, outcome'[r] = "clean", deletes' = 0, losses' = 0
             PROVE  /\ \A k \in Kept : <<r, k>> \notin temps'
                    /\ exposed' \/ \A k \in Kept : kept'[k] # None /\ kept'[k].by >= r
                    /\ r = run' /\ sup'.pc = "idle" /\ sup'.out => export' = [by |-> r, is |-> "whole"]
  BY DEF CleanIsStored
<1>0. deletes = 0 /\ ~DeleteSession /\ (~exposed' => ~exposed)
  BY ExceptionsStay
<1>l. losses = 0 /\ ~PowerLoss
  <2>1. PowerLoss => losses' # 0
    BY StorageAssumption DEF PowerLoss, TypeOK
  <2>2. PowerLoss \/ UNCHANGED losses
    BY DEF Next, vars, Prepare, WorkloadWrites, Finalize, OpenTemp, WriteTemp, SyncTemp, Replace,
       WriteFails, ExportOpen, ExportWrite, ExportFails, Return, Crash, DeleteSession,
       StatusReadsMetadata, StatusReadsTrace, StatusReports
  <2> QED
    BY <2>1, <2>2
<1>n. run \in Nat /\ r \in Nat /\ outcome \in [Runs -> {"none", "clean", "error", "crashed"}]
  BY StorageAssumption DEF TypeOK, Runs
<1>c. outcome[r] = "clean" =>
        /\ \A k \in Kept : <<r, k>> \notin temps
        /\ exposed \/ \A k \in Kept : kept[k] # None /\ kept[k].by >= r
        /\ r = run /\ sup.pc = "idle" /\ sup.out => export = [by |-> r, is |-> "whole"]
        /\ r <= run /\ (sup.pc # "idle" => r # run)
  BY <1>0, <1>l, <1>n DEF CleanIsStored, RunsInv
<1>1. CASE Return
  <2>d. /\ UNCHANGED <<temps, kept, exposed, export, run>>
        /\ sup.pc = "done" \/ (sup.pc = "export" /\ ~sup.out)
        /\ sup'.out = sup.out
    BY <1>1 DEF Return, Idle
  <2>1. CASE r # run
    BY <1>1, <1>c, <1>n, <2>1, <2>d DEF Return
  <2>2. CASE r = run
    <3>1. ~sup.error
      BY <1>1, <1>n, <2>2 DEF Return
    <3>2. \A k \in Kept : <<run, k>> \notin temps
      BY <2>d, <3>1 DEF TidyInv
    <3>3. exposed \/ \A k \in Kept : kept[k] # None /\ kept[k].by = run
      BY <1>0, <2>d, <3>1 DEF OrderInv
    <3>4. sup.out => export = [by |-> run, is |-> "whole"]
      BY <2>d, <3>1 DEF TidyInv
    <3> QED
      BY <1>n, <2>2, <2>d, <3>2, <3>3, <3>4
  <2> QED
    BY <2>1, <2>2
<1>2. CASE ~Return
  <2>1. outcome[r] = "clean"
    <3>1. \/ UNCHANGED outcome
          \/ outcome' = [outcome EXCEPT ![run'] = "error"]
          \/ outcome' = [outcome EXCEPT ![run] = "crashed"]
      BY <1>2, <1>l DEF Next, vars, Prepare, WorkloadWrites, Finalize, OpenTemp, WriteTemp, SyncTemp,
         Replace, WriteFails, ExportOpen, ExportWrite, ExportFails, Crash, DeleteSession,
         StatusReadsMetadata, StatusReadsTrace, StatusReports
    <3> QED
      BY <1>n, <3>1
  <2>2. ASSUME NEW k \in Kept PROVE <<r, k>> \notin temps'
    <3>1. temps' \subseteq temps \/ OpenTemp
      BY DEF Next, vars, Prepare, WorkloadWrites, Finalize, WriteTemp, SyncTemp, Replace,
         WriteFails, ExportOpen, ExportWrite, ExportFails, Return, Crash, PowerLoss, DeleteSession,
         StatusReadsMetadata, StatusReadsTrace, StatusReports
    <3>2. OpenTemp => temps' = temps \cup {Temp} /\ r # run
      BY <1>c, <2>1 DEF OpenTemp
    <3> QED
      BY <1>c, <2>1, <3>1, <3>2 DEF Temp
  <2>3. ASSUME ~exposed', NEW k \in Kept PROVE kept'[k] # None /\ kept'[k].by >= r
    <3>w. \A j \in Kept : ~WorkloadWrites(j)
      BY <1>0, <2>3 DEF WorkloadWrites, ReachInv
    <3>1. CASE UNCHANGED kept
      BY <1>0, <1>c, <2>1, <2>3, <3>1
    <3>2. CASE Replace
      <4>1. Target \in Kept /\ [by |-> run, is |-> sup.is] # None
        BY TargetType, NoneAssumption DEF TypeOK, Supervisor, File
      <4>2. kept' = [kept EXCEPT ![Target] = [by |-> run, is |-> sup.is]] /\ kept \in Store
        BY <3>2 DEF Replace, Holds, TypeOK
      <4> QED
        BY <1>0, <1>c, <1>n, <2>1, <2>3, <4>1, <4>2 DEF Store
    <3> QED
      BY <1>0, <1>l, <3>w, <3>1, <3>2, DirectoryMoves
  <2>4. ASSUME r = run', sup'.pc = "idle", sup'.out PROVE export' = [by |-> r, is |-> "whole"]
    <3>1. \A c \in Cwds, w \in BOOLEAN : ~Prepare(c, w)
      <4>1. r <= run
        BY <1>c, <2>1
      <4>2. \A c \in Cwds, w \in BOOLEAN : Prepare(c, w) => run' = run + 1
        BY DEF Prepare
      <4> QED
        BY <1>n, <2>4, <4>1, <4>2
    <3>2. run' = run
      BY <3>1, ExceptionsStay
    <3>3. ~Crash
      BY <2>4 DEF Crash, Idle
    <3>4. UNCHANGED sup
      BY <1>2, <1>l, <2>4, <3>1, <3>3, SupervisorMoves
    <3>5. UNCHANGED export
      BY <1>l, <2>4, <3>1, <3>4 DEF Next, vars, WorkloadWrites, Finalize, OpenTemp, WriteTemp, SyncTemp,
         Replace, WriteFails, ExportOpen, ExportWrite, ExportFails, Return, Crash, DeleteSession,
         StatusReadsMetadata, StatusReadsTrace, StatusReports
    <3> QED
      BY <1>c, <2>1, <2>4, <3>2, <3>4, <3>5
  <2> QED
    BY <2>2, <2>3, <2>4
<1> QED
  BY <1>1, <1>2

\* A run that returned with no internal_error has stored its trace, its
\* metadata and its export, and has left no temporary file (_finalize and
\* the error path of _atomic_write).
THEOREM CleanIsStoredHolds == Spec => []CleanIsStored
<1>1. Init => RunsInv /\ TidyInv /\ CleanIsStored
  BY DEF Init, RunsInv, TidyInv, CleanIsStored, Idle
<1> QED
  BY <1>1, OrderHolds, RunsStep, TidyStep, CleanStep, PTL DEF Spec
=============================================================================
