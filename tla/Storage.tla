------------------------------ MODULE Storage ------------------------------
(***************************************************************************)
(* The authoritative artefacts of a session (supervisor/storage.py): the   *)
(* supervisor prepares the session's directory, and when the session ends  *)
(* it writes trace.json, then metadata.json, each through a temporary file *)
(* that is synced and renamed, then the copy named by trace_out, written   *)
(* in place (daemon.py _prepare and _finalize).  `watcher status` reads    *)
(* the artefacts whenever it is called (cli.py).                           *)
(*                                                                         *)
(* Any call on a file may fail; the supervisor may be killed between any   *)
(* two calls and run again under the same session id; the machine may lose *)
(* power, which leaves the directory as it was after some earlier          *)
(* operation, and of each file what was synced.  That directory operations *)
(* reach the disk in their order is what a journalling file system gives;  *)
(* the code does not sync the directory.                                   *)
(***************************************************************************)
EXTENDS Integers, Sequences, SequencesExt, FiniteSets

CONSTANTS
  Name,        \* the names of files and directories
  Root,        \* the storage root, a path: a sequence of names from "/"
  Cwds,        \* the working directories a workload may be given
  MaxRuns,     \* bound: supervisor runs under this session id
  MaxLosses,   \* bound: power failures
  MaxDeletes,  \* bound: calls of delete_session
  None

ASSUME StorageAssumption ==
  /\ {"sessions", "id", "trace", "metadata"} \subseteq Name
  /\ Root \in Seq(Name)
  /\ Cwds \subseteq Seq(Name)
  /\ MaxRuns \in Nat \ {0} /\ MaxLosses \in Nat /\ MaxDeletes \in Nat

VARIABLES
  kept,     \* the session directory: trace.json and metadata.json,
  temps,    \* and the temporary files there are, by run and artefact
  images,   \* what the disk may hold of `kept` after a power failure
  export,   \* the file trace_out names
  run,      \* the current or last run of the supervisor
  sup,      \* where that run is
  outcome,  \* how each run ended
  exposed,  \* a run was let in whose workload may write below the root
  reader,   \* a call of `watcher status`
  deletes, losses

vars == <<kept, temps, images, export, run, sup, outcome, exposed, reader, deletes, losses>>

Runs == 1 .. MaxRuns
Kept == {"trace", "metadata"}

\* How much of a file's text is there: `synced` survives a power failure.
Extent == {"partial", "whole", "synced"}

\* A file and the run that wrote it; 0 is the workload.
File == [by : 0 .. MaxRuns, is : Extent]
Store == [Kept -> File \cup {None}]

ASSUME NoneAssumption == None \notin File

\* A run: its position, the artefact it writes, how much of that is written,
\* internal_error, the workload's working directory, and trace_out.
Persisting == {"open", "write", "sync", "replace"}
Positions == Persisting \cup {"idle", "running", "export", "exporting", "done"}
Supervisor == [pc : Positions, nth : {1, 2}, is : Extent, error : BOOLEAN,
               cwd : Cwds \cup {<<>>}, out : BOOLEAN]
Reader == [at : {"start", "metadata", "trace"}, metadata : File \cup {None}, trace : File \cup {None}]

Idle == [pc |-> "idle", nth |-> 1, is |-> "partial", error |-> FALSE, cwd |-> <<>>, out |-> FALSE]
NotReading == [at |-> "start", metadata |-> None, trace |-> None]

Empty == [k \in Kept |-> None]

Init ==
  /\ kept = Empty /\ images = {Empty}
  /\ temps = {}
  /\ export = None
  /\ run = 0 /\ sup = Idle
  /\ outcome = [r \in Runs |-> "none"]
  /\ exposed = FALSE
  /\ reader = NotReading
  /\ deletes = 0 /\ losses = 0

\* Every state of the directory is one the disk may be left in.
Holds(s) == kept' = s /\ images' = images \cup {s}

(***************************************************************************)
(* Where things are.                                                       *)
(***************************************************************************)
SessionDir == Root \o <<"sessions", "id">>
PathOf(k) == Append(SessionDir, k)

\* is_outside: `target.relative_to(base)` fails, for paths made absolute by
\* abspath, which follows no links: a path is where its text says it is.
IsOutside(path, directory) == ~IsPrefix(directory, path)

(***************************************************************************)
(* A run of the supervisor.                                                *)
(***************************************************************************)
\* create_session: makedirs, which does not mind a directory that is there
\* with the files of an earlier run, or the StorageError it ends in.
CreateSession == {TRUE, FALSE}

\* Mutant: the root is never checked against the working directory.
PrepareUnchecked(cwd, waived) ==
  /\ sup.pc = "idle" /\ run < MaxRuns
  /\ run' = run + 1
  /\ \E made \in CreateSession :
       IF made
       THEN /\ sup' = [Idle EXCEPT !.pc = "running", !.cwd = cwd]
            /\ exposed' = (\/ exposed
                           \/ waived /\ ~IsOutside(Root, cwd)
                           \/ ~IsOutside(cwd, Root))
            /\ UNCHANGED outcome
       ELSE /\ outcome' = [outcome EXCEPT ![run'] = "error"]
            /\ UNCHANGED <<sup, exposed>>
  /\ UNCHANGED <<kept, temps, images, export, reader, deletes, losses>>

\* _prepare: the directory is made, then the root is checked against the
\* working directory unless the configuration waives it.  A run refused
\* here has no watcher, so _finalize writes nothing.
Prepare(cwd, waived) ==
  /\ sup.pc = "idle" /\ run < MaxRuns
  /\ run' = run + 1
  /\ \E made \in CreateSession :
       IF made /\ (waived \/ IsOutside(Root, cwd))
       THEN /\ sup' = [Idle EXCEPT !.pc = "running", !.cwd = cwd]
            /\ exposed' = (\/ exposed
                           \/ waived /\ ~IsOutside(Root, cwd)
                           \/ ~IsOutside(cwd, Root))
            /\ UNCHANGED outcome
       ELSE /\ outcome' = [outcome EXCEPT ![run'] = "error"]
            /\ UNCHANGED <<sup, exposed>>
  /\ UNCHANGED <<kept, temps, images, export, reader, deletes, losses>>

\* External: the workload writes a file below its working directory.
WorkloadWrites(k) ==
  /\ sup.pc = "running"
  /\ ~IsOutside(PathOf(k), sup.cwd)
  /\ Holds([kept EXCEPT ![k] = [by |-> 0, is |-> "partial"]])
  /\ UNCHANGED <<temps, export, run, sup, outcome, exposed, reader, deletes, losses>>

\* The workload is gone and the trace is sealed; trace_out may be set.
\* (An internal_error of an earlier step is one more way to end in error.)
Finalize(out) ==
  /\ sup.pc = "running"
  /\ sup' = [Idle EXCEPT !.pc = "open", !.out = out]
  /\ UNCHANGED <<kept, temps, images, export, run, outcome, exposed, reader, deletes, losses>>

\* Mutant: the metadata first.
MetadataFirst == <<"metadata", "trace">>

\* The order of the writes in _finalize.
PersistOrder == <<"trace", "metadata">>

Target == PersistOrder[sup.nth]
Temp == <<run, Target>>

\* _atomic_write: the temporary file is made under a name of its own,
OpenTemp ==
  /\ sup.pc = "open"
  /\ temps' = temps \cup {Temp}
  /\ sup' = [sup EXCEPT !.pc = "write", !.is = "partial"]
  /\ UNCHANGED <<kept, images, export, run, outcome, exposed, reader, deletes, losses>>

\* its text is written and flushed,
WriteTemp ==
  /\ sup.pc = "write"
  /\ sup' = [sup EXCEPT !.pc = "sync", !.is = "whole"]
  /\ UNCHANGED <<kept, temps, images, export, run, outcome, exposed, reader, deletes, losses>>

\* Mutant: no fsync.
SyncTempSkipped ==
  /\ sup.pc = "sync"
  /\ sup' = [sup EXCEPT !.pc = "replace"]
  /\ UNCHANGED <<kept, temps, images, export, run, outcome, exposed, reader, deletes, losses>>

\* and synced (writing to a file that was unlinked meanwhile succeeds),
SyncTemp ==
  /\ sup.pc = "sync"
  /\ sup' = [sup EXCEPT !.pc = "replace", !.is = "synced"]
  /\ UNCHANGED <<kept, temps, images, export, run, outcome, exposed, reader, deletes, losses>>

\* and takes the place of the kept file.
Replace ==
  /\ sup.pc = "replace"
  /\ Temp \in temps
  /\ Holds([kept EXCEPT ![Target] = [by |-> run, is |-> sup.is]])
  /\ temps' = temps \ {Temp}
  /\ sup' = IF sup.nth < Len(PersistOrder)
            THEN [sup EXCEPT !.pc = "open", !.nth = @ + 1, !.is = "partial"]
            ELSE [sup EXCEPT !.pc = "export"]
  /\ UNCHANGED <<export, run, outcome, exposed, reader, deletes, losses>>

\* Mutant: the failure is not reported.
WriteFailsQuietly ==
  /\ sup.pc \in {"open", "write", "sync", "replace"}
  /\ temps' \in {temps, temps \ {Temp}}
  /\ sup' = [sup EXCEPT !.pc = "export"]
  /\ UNCHANGED <<kept, images, export, run, outcome, exposed, reader, deletes, losses>>

\* Any call fails (the rename must if the temporary file is gone), or the
\* metadata is not serialisable: the temporary file is unlinked if that
\* can be done, and the artefacts not written yet are given up.
WriteFails ==
  /\ sup.pc \in Persisting
  /\ temps' \in {temps, temps \ {Temp}}
  /\ sup' = [sup EXCEPT !.pc = "export", !.error = TRUE]
  /\ UNCHANGED <<kept, images, export, run, outcome, exposed, reader, deletes, losses>>

\* trace.export: the file is truncated, then written; it is never synced.
ExportOpen ==
  /\ sup.pc = "export" /\ sup.out
  /\ export' = [by |-> run, is |-> "partial"]
  /\ sup' = [sup EXCEPT !.pc = "exporting"]
  /\ UNCHANGED <<kept, temps, images, run, outcome, exposed, reader, deletes, losses>>

ExportWrite ==
  /\ sup.pc = "exporting"
  /\ export' = [by |-> run, is |-> "whole"]
  /\ sup' = [sup EXCEPT !.pc = "done"]
  /\ UNCHANGED <<kept, temps, images, run, outcome, exposed, reader, deletes, losses>>

ExportFails ==
  /\ sup.pc = "exporting" \/ (sup.pc = "export" /\ sup.out)
  /\ sup' = [sup EXCEPT !.pc = "done", !.error = TRUE]
  /\ UNCHANGED <<kept, temps, images, export, run, outcome, exposed, reader, deletes, losses>>

\* The run returns; the caller sees whether internal_error is set.
Return ==
  /\ sup.pc = "done" \/ (sup.pc = "export" /\ ~sup.out)
  /\ outcome' = [outcome EXCEPT ![run] = IF sup.error THEN "error" ELSE "clean"]
  /\ sup' = [Idle EXCEPT !.out = sup.out]
  /\ UNCHANGED <<kept, temps, images, export, run, exposed, reader, deletes, losses>>

(***************************************************************************)
(* What may happen to it: external.                                        *)
(***************************************************************************)
\* The supervisor is killed between two calls.
Crash ==
  /\ sup.pc # "idle"
  /\ outcome' = [outcome EXCEPT ![run] = "crashed"]
  /\ sup' = Idle
  /\ UNCHANGED <<kept, temps, images, export, run, exposed, reader, deletes, losses>>

\* A file comes back with the text that was synced, at worst.
AfterLoss(f) == IF f = None \/ f.is = "synced" THEN f ELSE [f EXCEPT !.is = "partial"]

\* What becomes of the temporary files is not followed: their run is over
\* and no other looks at them.
PowerLoss ==
  /\ losses < MaxLosses
  /\ losses' = losses + 1
  /\ \E s \in images : kept' = [k \in Kept |-> AfterLoss(s[k])]
  /\ images' = {kept'}
  /\ export' = AfterLoss(export)
  /\ outcome' = IF sup.pc = "idle" THEN outcome ELSE [outcome EXCEPT ![run] = "crashed"]
  /\ sup' = Idle
  /\ reader' = NotReading
  /\ UNCHANGED <<temps, run, exposed, deletes>>

\* delete_session: a file that cannot be removed is passed over, so any part
\* of the directory goes.  Two calls stand for one that is interleaved.
DeleteSession ==
  /\ deletes < MaxDeletes
  /\ deletes' = deletes + 1
  /\ \E K \in SUBSET Kept : Holds([k \in Kept |-> IF k \in K THEN None ELSE kept[k]])
  /\ temps' \in SUBSET temps
  /\ UNCHANGED <<export, run, sup, outcome, exposed, reader, losses>>

(***************************************************************************)
(* `watcher status`: the metadata, without which it gives up, then the     *)
(* trace.                                                                  *)
(***************************************************************************)
StatusReadsMetadata ==
  /\ reader.at = "start"
  /\ reader' = IF kept["metadata"] = None
               THEN NotReading
               ELSE [at |-> "metadata", metadata |-> kept["metadata"], trace |-> None]
  /\ UNCHANGED <<kept, temps, images, export, run, sup, outcome, exposed, deletes, losses>>

StatusReadsTrace ==
  /\ reader.at = "metadata"
  /\ reader' = [reader EXCEPT !.at = "trace", !.trace = kept["trace"]]
  /\ UNCHANGED <<kept, temps, images, export, run, sup, outcome, exposed, deletes, losses>>

StatusReports ==
  /\ reader.at = "trace"
  /\ reader' = NotReading
  /\ UNCHANGED <<kept, temps, images, export, run, sup, outcome, exposed, deletes, losses>>

Next ==
  \/ \E c \in Cwds, waived \in BOOLEAN : Prepare(c, waived)
  \/ \E k \in Kept : WorkloadWrites(k)
  \/ \E out \in BOOLEAN : Finalize(out)
  \/ OpenTemp \/ WriteTemp \/ SyncTemp \/ Replace \/ WriteFails
  \/ ExportOpen \/ ExportWrite \/ ExportFails \/ Return
  \/ Crash \/ PowerLoss \/ DeleteSession
  \/ StatusReadsMetadata \/ StatusReadsTrace \/ StatusReports

Spec == Init /\ [][Next]_vars

(***************************************************************************)
(* Properties.                                                             *)
(***************************************************************************)
\* Every variable has a value of its kind.
TypeOK ==
  /\ kept \in Store /\ images \subseteq Store
  /\ temps \subseteq Runs \X Kept
  /\ export \in File \cup {None}
  /\ run \in 0 .. MaxRuns
  /\ sup \in Supervisor /\ (sup.pc # "idle" => run # 0)
  /\ outcome \in [Runs -> {"none", "clean", "error", "crashed"}]
  /\ exposed \in BOOLEAN
  /\ reader \in Reader
  /\ deletes \in 0 .. MaxDeletes /\ losses \in 0 .. MaxLosses

\* What a supervisor wrote under its final name is all there, now and
\* whatever the power does: no crash leaves a truncated trace
\* (_atomic_write: the temporary file, fsync, os.replace).
NeverTruncated ==
  \A s \in images \cup {kept}, k \in Kept :
    s[k] # None /\ s[k].by # 0 => s[k].is = "synced"

HasTrace(metadata, trace) ==
  metadata # None => trace # None /\ trace.by >= metadata.by

\* The metadata of a run is never without a trace of that run or of a later
\* one: in the directory, on the disk after a power failure (write_trace
\* before write_metadata in _finalize), and in what `watcher status` read at
\* any moment, the supervisor writing meanwhile (cmd_status reads in the
\* opposite order).  Deleted files and a workload let near them are excepted.
MetadataHasTrace ==
  deletes = 0 /\ ~exposed =>
    /\ \A s \in images \cup {kept} : HasTrace(s["metadata"], s["trace"])
    /\ reader.at = "trace" => HasTrace(reader.metadata, reader.trace)

\* A run that returned with no internal_error has stored what it promised:
\* its trace, its metadata and the export it was asked for, until a later
\* run writes, as long as nothing was deleted and no power failed.  It left
\* no temporary file behind (_finalize and the error path of _atomic_write).
CleanIsStored ==
  \A r \in Runs : outcome[r] = "clean" /\ deletes = 0 /\ losses = 0 =>
    /\ \A k \in Kept : <<r, k>> \notin temps
    /\ exposed \/ \A k \in Kept : kept[k] # None /\ kept[k].by >= r
    /\ r = run /\ sup.pc = "idle" /\ sup.out => export = [by |-> r, is |-> "whole"]

\* Only a supervisor writes below the storage root, as long as no run was
\* given a working directory at or below the root, or waived the check
\* (assert_outside in _prepare).
OutOfReach ==
  ~exposed => \A k \in Kept : kept[k] = None \/ kept[k].by # 0
=============================================================================
