------------------------------ MODULE Sandbox ------------------------------
(***************************************************************************)
(* A unit of the namespace backend (enforcement/backends/namespaces.py):   *)
(* launch, inspect, isolate_network, terminate, verify_empty and the       *)
(* survivor scan, with the guard that runs inside                          *)
(* (enforcement/linux/exec_guard.py), the signal rounds of                 *)
(* runtime/process.py and the /proc sampling of enforcement/procfs.py.     *)
(*                                                                         *)
(* The kernel is a table of processes that fork, exit, leave their process *)
(* group, enter nested namespaces and reuse pids while the supervisor      *)
(* looks.  A process is known by its start time; its `role` (launcher,     *)
(* init of the sandbox, task of the workload, stranger) is the truth the   *)
(* supervisor cannot read.                                                 *)
(***************************************************************************)
EXTENDS Integers, FiniteSets, FiniteSetsExt

CONSTANTS
  Pids,          \* process ids, positive numbers
  MaxBorn,       \* bound: processes ever started
  NetworkOpen,   \* profile.network is "open": isolation means a freeze
  MayHang,       \* a process may be stuck in the kernel, deaf to SIGKILL
  Nestings,      \* the PID and user namespaces a workload's fork may enter
  None

ASSUME SandboxAssumption ==
  /\ Pids \subseteq Nat \ {0} /\ IsFiniteSet(Pids)
  /\ MaxBorn \in Nat
  /\ NetworkOpen \in BOOLEAN /\ MayHang \in BOOLEAN
  /\ Nestings \subseteq {"unit", "nested"} \X {"unit", "nested"}
  /\ None \notin Pids \cup 0 .. MaxBorn

VARIABLES
  table,     \* the kernel's process table: a record for each pid in use
  born,      \* processes started so far
  guard,     \* the guard: a problem noted, position
  pipe,      \* the report pipe: empty, ok or bad
  spc,       \* the supervisor's position
  launcher,  \* pid of the launcher, the supervisor's own child
  box,       \* unit.host_pid and metadata["sandbox_pid"]
  ident,     \* unit.identity: start times and namespaces recorded at launch
  scan,      \* the survivor scan in progress, or the last one
  late,      \* the deadline of the hunt has passed
  frozen,    \* metadata["frozen"]
  ustate     \* unit.state

vars == <<table, born, guard, pipe, spc, launcher, box, ident, scan, late, frozen, ustate>>

Roles == {"launcher", "init", "task", "stranger"}
Spaces == {"host", "unit", "nested"}

ProcType ==
  [start : 1 .. MaxBorn, parent : {0} \cup Pids, role : Roles, group : 1 .. MaxBorn,
   pidns : Spaces, userns : Spaces, stopped : BOOLEAN, hung : BOOLEAN, zombie : BOOLEAN]

\* What /proc shows of a process.
Shown == [start : 1 .. MaxBorn, parent : {0} \cup Pids, zombie : BOOLEAN, pidns : Spaces, userns : Spaces]

ASSUME NoneAssumption == None \notin ProcType \cup Shown \cup Spaces

Used  == {p \in Pids : table[p] # None}
Live  == {p \in Used : ~table[p].zombie}
Ours  == {p \in Live : table[p].role # "stranger"}
Inits == {p \in Live : table[p].role = "init"}
GroupOf(p) == {q \in Live : table[q].group = table[p].group}
Runs(p) == p \in Live /\ ~table[p].stopped /\ ~table[p].hung

Blank  == [p \in Pids |-> None]
NoScan == [on |-> FALSE, pids |-> {}, todo |-> {}, seen |-> Blank, reused |-> FALSE]

Init ==
  /\ table = Blank /\ born = 0
  /\ guard = [problem |-> FALSE, at |-> "none"]
  /\ pipe = "empty"
  /\ spc = "idle"
  /\ launcher = None /\ box = None
  /\ ident = [lstart |-> None, sstart |-> None, pidns |-> None, userns |-> None, stale |-> FALSE]
  /\ scan = NoScan
  /\ late = FALSE /\ frozen = FALSE
  /\ ustate = "UNPREPARED"

(***************************************************************************)
(* The kernel: external, as the code relies on it.                         *)
(***************************************************************************)
Process(role, parent, group) ==
  [start |-> born + 1, parent |-> parent, role |-> role, group |-> group,
   pidns |-> "host", userns |-> "host", stopped |-> FALSE, hung |-> FALSE, zombie |-> FALSE]

\* A free pid is given to a new process, in the middle of a scan too.
Start(p, r) ==
  /\ p \notin Used /\ born < MaxBorn
  /\ born' = born + 1
  /\ table' = [table EXCEPT ![p] = r]
  /\ scan' = [scan EXCEPT !.reused = @ \/ p \in scan.pids]

\* What really ends when the processes of S are to end: nothing stuck in
\* the kernel does, and the end of a PID namespace's init is the end of
\* everything inside it, for which that init waits.
Dead(S) ==
  LET inside == {p \in Live : table[p].role \in {"init", "task"}}
      hit    == IF S \cap Inits # {} THEN S \cup inside ELSE S
      stuck  == \E p \in hit \cap inside : table[p].hung
  IN {p \in hit : ~table[p].hung /\ ~(table[p].role = "init" /\ stuck)}

\* The table once S is dead.  Orphans go to the sandbox's init, or to the
\* host's; the launcher stays a zombie until the supervisor reaps it.
Without(S) ==
  LET dead == Dead(S)
      left == Inits \ dead
      heir(p) == IF left = {} \/ table[p].role = "stranger" THEN 0 ELSE CHOOSE i \in left : TRUE
  IN [p \in Pids |->
        IF p \in dead
          THEN IF table[p].role = "launcher" THEN [table[p] EXCEPT !.zombie = TRUE] ELSE None
          ELSE IF p \in Used /\ table[p].parent \in dead
                 THEN [table[p] EXCEPT !.parent = heir(p)]
                 ELSE table[p]]

\* unshare --user --pid --fork: the launcher enters the unit's user
\* namespace and forks the init of its PID namespace, which runs the guard.
LauncherForks ==
  /\ launcher # None /\ launcher \in Ours /\ Runs(launcher) /\ guard.at = "none"
  /\ born < MaxBorn
  /\ \E p \in Pids \ Used :
       table' = [table EXCEPT ![launcher].userns = "unit",
                   ![p] = [Process("init", launcher, table[launcher].group)
                             EXCEPT !.pidns = "unit", !.userns = "unit"]]
  /\ born' = born + 1
  /\ guard' = [guard EXCEPT !.at = "setup"]
  /\ UNCHANGED <<pipe, spc, launcher, box, ident, scan, late, frozen, ustate>>

\* The launcher ends with its child.
LauncherExits ==
  /\ launcher # None /\ launcher \in Ours /\ Runs(launcher)
  /\ guard.at # "none" /\ Inits = {}
  /\ table' = Without({launcher})
  /\ UNCHANGED <<born, guard, pipe, spc, launcher, box, ident, scan, late, frozen, ustate>>

Workload == IF guard.at = "exec" THEN {p \in Ours : table[p].role # "launcher"} ELSE {}

\* The workload forks, into its own namespaces or into nested ones.
Fork ==
  /\ \E q \in Workload, p \in Pids, n \in Nestings :
       /\ Runs(q)
       /\ table[q].pidns = "nested" => n[1] = "nested"
       /\ table[q].userns = "nested" => n[2] = "nested"
       /\ Start(p, [Process("task", q, table[q].group) EXCEPT !.pidns = n[1], !.userns = n[2]])
  /\ UNCHANGED <<guard, pipe, spc, launcher, box, ident, late, frozen, ustate>>

\* A process of the workload exits, leaves its process group (setsid), or
\* is stuck in an uninterruptible wait.
WorkloadStep ==
  /\ \E p \in Workload :
       /\ Runs(p)
       /\ \/ table' = Without({p})
          \/ table[p].group # table[p].start /\ table' = [table EXCEPT ![p].group = table[p].start]
          \/ MayHang /\ table' = [table EXCEPT ![p].hung = TRUE]
  /\ UNCHANGED <<born, guard, pipe, spc, launcher, box, ident, scan, late, frozen, ustate>>

LauncherHangs ==
  /\ MayHang /\ launcher # None /\ launcher \in Ours /\ Runs(launcher) /\ guard.at = "exec"
  /\ table' = [table EXCEPT ![launcher].hung = TRUE]
  /\ UNCHANGED <<born, guard, pipe, spc, launcher, box, ident, scan, late, frozen, ustate>>

\* Unrelated processes come, as anyone's children but the unit's, and go,
\* for as long as the supervisor deals with the unit.
StrangerStarts ==
  /\ spc \notin {"idle", "done", "failed"}
  /\ \E p \in Pids, q \in {0} \cup (Live \ Ours) :
       Start(p, Process("stranger", q, born + 1))
  /\ UNCHANGED <<guard, pipe, spc, launcher, box, ident, late, frozen, ustate>>

StrangerExits ==
  /\ \E p \in Live \ Ours : table' = Without({p})
  /\ UNCHANGED <<born, guard, pipe, spc, launcher, box, ident, scan, late, frozen, ustate>>

(***************************************************************************)
(* The guard, as the sandbox's init.                                       *)
(***************************************************************************)
GuardRuns == \E p \in Inits : Runs(p)

\* main() up to its report, as nothing outside sees the steps in between
\* (mounts, rlimits, Landlock, seccomp, capabilities): all done; done with a
\* problem noted (an optional mount, an rlimit, capabilities or no_new_privs
\* found wrong afterwards); or one raised, and the guard exits.
GuardReports ==
  /\ guard.at = "setup" /\ GuardRuns
  /\ \/ \E problem \in BOOLEAN :
          /\ pipe' = IF problem THEN "bad" ELSE "ok"
          /\ guard' = [problem |-> problem, at |-> "reported"]
          /\ UNCHANGED table
     \/ /\ pipe' = "bad"
        /\ guard' = [problem |-> TRUE, at |-> "dead"]
        /\ table' = Without(Inits)
  /\ UNCHANGED <<born, spc, launcher, box, ident, scan, late, frozen, ustate>>

\* The workload is executed whatever the report said; or chdir or exec fails.
GuardExecs ==
  /\ guard.at = "reported" /\ GuardRuns
  /\ \/ guard' = [guard EXCEPT !.at = "exec"] /\ UNCHANGED table
     \/ guard' = [guard EXCEPT !.at = "dead"] /\ table' = Without(Inits)
  /\ UNCHANGED <<born, pipe, spc, launcher, box, ident, scan, late, frozen, ustate>>

(***************************************************************************)
(* The supervisor: launch().                                               *)
(***************************************************************************)
\* (The launcher takes the lowest free pid, every other process any.)
Spawn ==
  /\ spc = "idle" /\ born < MaxBorn /\ Used # Pids
  /\ launcher' = Min(Pids \ Used)
  /\ table' = [table EXCEPT ![launcher'] = Process("launcher", 0, born + 1)]
  /\ born' = born + 1
  /\ ustate' = "STARTING" /\ spc' = "locate"
  /\ UNCHANGED <<guard, pipe, box, ident, scan, late, frozen>>

\* _await_sandbox_pid: the launcher's first child, or none in time.
Locate ==
  /\ spc = "locate"
  /\ LET kids == {p \in Used : table[p].parent = launcher}
     IN \/ kids # {} /\ box' = Min(kids)
        \/ kids = {} /\ box' = None
  /\ spc' = "report"
  /\ UNCHANGED <<table, born, guard, pipe, launcher, ident, scan, late, frozen, ustate>>

\* _read_report: the report, the end of the pipe or a timeout.
Report ==
  /\ spc = "report"
  /\ \E report \in {pipe, "empty"} :
       spc' = IF report = "ok" /\ box # None THEN "names" ELSE "abort"
  /\ UNCHANGED <<table, born, guard, pipe, launcher, box, ident, scan, late, frozen, ustate>>

Sandboxed == box \in Used /\ table[box].role = "init"

\* refresh_namespaces, then the start times: two looks at the same pid.
ReadNamespaces ==
  /\ spc = "names"
  /\ ident' = [ident EXCEPT !.pidns = IF box \in Used THEN table[box].pidns ELSE None,
                            !.userns = IF box \in Used THEN table[box].userns ELSE None,
                            !.stale = ~Sandboxed]
  /\ spc' = "starts"
  /\ UNCHANGED <<table, born, guard, pipe, launcher, box, scan, late, frozen, ustate>>

ReadStarts ==
  /\ spc = "starts"
  /\ ident' = [ident EXCEPT !.lstart = table[launcher].start,
                            !.sstart = IF box \in Used THEN table[box].start ELSE None,
                            !.stale = @ \/ ~Sandboxed]
  /\ ustate' = "RUNNING" /\ spc' = "inspect"
  /\ UNCHANGED <<table, born, guard, pipe, launcher, box, scan, late, frozen>>

(***************************************************************************)
(* scan_survivors(): the pids are listed, then read in ascending order.    *)
(***************************************************************************)
ExpiredNever == FALSE
Expired == late

ScanBegin ==
  /\ \/ spc = "final"
     \/ spc = "hunt" /\ ~Expired
  /\ ~scan.on
  /\ scan' = [NoScan EXCEPT !.on = TRUE, !.pids = Used, !.todo = Used]
  /\ UNCHANGED <<table, born, guard, pipe, spc, launcher, box, ident, late, frozen, ustate>>

\* ProcRecord: what a process shows of itself, nothing once it is gone.
ProcRecord(p) ==
  IF p \in Used THEN [start |-> table[p].start, parent |-> table[p].parent, zombie |-> table[p].zombie,
                      pidns |-> table[p].pidns, userns |-> table[p].userns]
  ELSE None

ScanRead ==
  /\ scan.on /\ scan.todo # {}
  /\ LET p == Min(scan.todo)
     IN scan' = [scan EXCEPT !.todo = @ \ {p}, !.seen[p] = ProcRecord(p)]
  /\ UNCHANGED <<table, born, guard, pipe, spc, launcher, box, ident, late, frozen, ustate>>

Seen == {p \in Pids : scan.seen[p] # None /\ ~scan.seen[p].zombie}

\* A root of the unit's ancestry, re-checked against its start time.
ConfirmedByPid(p, start) == p \in Seen
Confirmed(p, start) == p \in Seen /\ (start = None \/ scan.seen[p].start = start)

Roots == {p \in Pids : \/ p = launcher /\ Confirmed(p, ident.lstart)
                       \/ p = box /\ Confirmed(p, ident.sstart)}

\* Every descendant of a root: the least set of the seen closed under "child of".
Descendants ==
  {p \in Seen : \A S \in SUBSET Seen :
     (\A q \in Seen : scan.seen[q].parent \in Roots \cup S => q \in S) => p \in S}

SurvivorsByPidNamespace == {p \in Seen : ident.pidns # None /\ scan.seen[p].pidns = ident.pidns}
Survivors ==
  {p \in Seen : \/ ident.pidns # None /\ scan.seen[p].pidns = ident.pidns
                \/ ident.userns # None /\ scan.seen[p].userns = ident.userns}
    \cup Roots \cup Descendants

ScanOver == scan.on /\ scan.todo = {}

(***************************************************************************)
(* inspect(), isolate_network() and terminate().                           *)
(***************************************************************************)
\* inspect reads the pid again and keeps the identity it has.  (The scan it
\* makes only counts processes for the evidence.)
Inspect ==
  /\ spc = "inspect"
  /\ ident' = IF ident.pidns = None /\ box \in Used
                THEN [ident EXCEPT !.pidns = table[box].pidns, !.userns = table[box].userns]
                ELSE ident
  /\ spc' = "running"
  /\ UNCHANGED <<table, born, guard, pipe, launcher, box, scan, late, frozen, ustate>>

\* The launcher's exit is noticed: poll() reaps it.
Reaped(t) == IF launcher \in Used /\ t[launcher] # None /\ t[launcher].zombie
               THEN [t EXCEPT ![launcher] = None] ELSE t

\* The launcher is still the supervisor's child: running, or not yet waited for.
HasLauncher == launcher \in Used /\ table[launcher].role = "launcher"

Poll ==
  /\ spc = "running" /\ Reaped(table) # table
  /\ table' = Reaped(table)
  /\ UNCHANGED <<born, guard, pipe, spc, launcher, box, ident, scan, late, frozen, ustate>>

\* isolate_network: with the network open the sandbox's process group is
\* stopped; an isolated namespace needs nothing.
Isolate ==
  /\ spc = "running" /\ ~frozen
  /\ NetworkOpen /\ box \in Used
  /\ table' = [p \in Pids |-> IF p \in GroupOf(box) THEN [table[p] EXCEPT !.stopped = TRUE]
                              ELSE table[p]]
  /\ frozen' = TRUE
  /\ UNCHANGED <<born, guard, pipe, spc, launcher, box, ident, scan, late, ustate>>

Terminate ==
  /\ spc = "running"
  /\ ustate' = "TERMINATING" /\ spc' = "term"
  /\ UNCHANGED <<table, born, guard, pipe, launcher, box, ident, scan, late, frozen>>

\* terminate_tree returns: to a launch that fails, or to the hunt.
Resume ==
  IF ustate = "STARTING" THEN spc' = "failed" /\ ustate' = "FAILED"
                         ELSE spc' = "hunt" /\ UNCHANGED ustate

\* terminate_tree: nothing to do when the launcher has exited; else SIGTERM
\* to its group, of which any part may heed it.
TermBegin ==
  /\ spc \in {"term", "abort"}
  /\ \/ table' = Reaped(table) /\ table' # table /\ Resume
     \/ HasLauncher /\ Reaped(table) = table
        /\ \E S \in SUBSET {p \in GroupOf(launcher) : ~table[p].stopped} : table' = Without(S)
        /\ spc' = "grace" /\ UNCHANGED ustate
     \/ ~HasLauncher /\ table' = table /\ Resume
  /\ UNCHANGED <<born, guard, pipe, launcher, box, ident, scan, late, frozen>>

\* The grace period: ended by the launcher's exit, or by SIGKILL to its group.
TermEndUnreaped ==
  /\ spc = "grace"
  /\ \/ table' = Reaped(table) /\ table' # table
     \/ Reaped(table) = table /\ table' = Without(GroupOf(launcher))
  /\ Resume
  /\ UNCHANGED <<born, guard, pipe, launcher, box, ident, scan, late, frozen>>
TermEnd ==
  /\ spc = "grace"
  /\ \/ table' = Reaped(table) /\ table' # table
     \/ Reaped(table) = table /\ table' = Reaped(Without(GroupOf(launcher)))
  /\ Resume
  /\ UNCHANGED <<born, guard, pipe, launcher, box, ident, scan, late, frozen>>

\* The hunt: scan, kill by pid what was found, until a scan finds nothing
\* or the deadline has passed.
Deadline ==
  /\ spc \in {"hunt", "kill"} /\ ~late
  /\ late' = TRUE
  /\ UNCHANGED <<table, born, guard, pipe, spc, launcher, box, ident, scan, frozen, ustate>>

HuntScanned ==
  /\ spc = "hunt" /\ ScanOver
  /\ IF Survivors = {} THEN spc' = "final" /\ scan' = NoScan
                       ELSE spc' = "kill" /\ scan' = [scan EXCEPT !.on = FALSE]
  /\ UNCHANGED <<table, born, guard, pipe, launcher, box, ident, late, frozen, ustate>>

HuntKill ==
  /\ spc = "kill"
  /\ table' = Without(Survivors \cap Live)
  /\ scan' = NoScan
  /\ spc' = "hunt"
  /\ UNCHANGED <<born, guard, pipe, launcher, box, ident, late, frozen, ustate>>

HuntExpired ==
  /\ spc = "hunt" /\ Expired /\ ~scan.on
  /\ spc' = "final"
  /\ UNCHANGED <<table, born, guard, pipe, launcher, box, ident, scan, late, frozen, ustate>>

\* One more scan decides the outcome; verify_empty() asks the same of it.
Conclude ==
  /\ spc = "final" /\ ScanOver
  /\ ustate' = IF Survivors = {} THEN "TERMINATED" ELSE "KILL_FAILED"
  /\ scan' = NoScan
  /\ spc' = "done"
  /\ UNCHANGED <<table, born, guard, pipe, launcher, box, ident, late, frozen>>

Kernel ==
  \/ LauncherForks \/ LauncherExits \/ Fork \/ WorkloadStep \/ LauncherHangs
  \/ StrangerStarts \/ StrangerExits

Guard == GuardReports \/ GuardExecs

Terminating ==
  \/ TermBegin \/ TermEnd \/ Deadline \/ ScanBegin \/ ScanRead \/ HuntScanned \/ HuntKill
  \/ HuntExpired \/ Conclude

Supervisor ==
  \/ Spawn \/ Locate \/ Report \/ ReadNamespaces \/ ReadStarts \/ Inspect \/ Poll \/ Isolate
  \/ Terminate \/ Terminating

Next == Kernel \/ Guard \/ Supervisor

\* Fairness: the supervisor's thread runs, and so does the clock.
Spec == Init /\ [][Next]_vars /\ WF_vars(Terminating) /\ WF_vars(Deadline)

(***************************************************************************)
(* Properties.                                                             *)
(***************************************************************************)
\* Types; only the launcher can be a zombie, and terminate_tree leaves none.
TypeOK ==
  /\ table \in [Pids -> ProcType \cup {None}] /\ born \in 0 .. MaxBorn
  /\ guard \in [problem : BOOLEAN, at : {"none", "setup", "reported", "exec", "dead"}]
  /\ pipe \in {"empty", "ok", "bad"}
  /\ spc \in {"idle", "locate", "report", "names", "starts", "inspect", "running", "abort", "term",
              "grace", "hunt", "kill", "final", "done", "failed"}
  /\ launcher \in Pids \cup {None} /\ box \in Pids \cup {None}
  /\ ident \in [lstart : 1 .. MaxBorn \cup {None}, sstart : 1 .. MaxBorn \cup {None},
                pidns : Spaces \cup {None}, userns : Spaces \cup {None}, stale : BOOLEAN]
  /\ scan \in [on : BOOLEAN, pids : SUBSET Pids, todo : SUBSET Pids,
               seen : [Pids -> Shown \cup {None}], reused : BOOLEAN]
  /\ scan.todo \subseteq scan.pids
  /\ \A p \in Pids : scan.seen[p] # None => p \in scan.pids /\ scan.seen[p].start <= born
  /\ late \in BOOLEAN /\ frozen \in BOOLEAN
  /\ ustate \in {"UNPREPARED", "STARTING", "RUNNING", "TERMINATING", "TERMINATED", "KILL_FAILED",
                 "FAILED"}
  /\ \A p \in Used \ Live : /\ table[p].role = "launcher"
                            /\ spc \notin {"hunt", "kill", "final", "done", "failed"}

\* Emptiness is real: when terminate() says TERMINATED, from the scan that
\* verify_empty() makes too, no process of the unit is alive, whatever it
\* forked, wherever it moved and however the pids were reused while /proc was being read.
EmptyIsEmpty == ustate = "TERMINATED" => Ours = {}

\* The hunt kills by pid what a scan found.  It spares every process of
\* someone else, unless a listed pid was reused since the scan began or the
\* recorded identity was not read from the sandbox.
HuntSparesStrangers ==
  [][ (spc = "kill" /\ spc' = "hunt" /\ ~scan.reused /\ ~ident.stale)
        => \A p \in Live \ Ours : table'[p] = table[p] ]_vars

\* terminate() returns, however long the workload forks
\* and even if some of it cannot be killed.
TerminateReturns == (spc = "term") ~> (spc = "done")

\* What exec_guard.py says of itself: a guard that reports a failure does not
\* run the workload, so a refused launch leaves nothing of it.
RefusedNeverRuns == (ustate = "FAILED" /\ guard.problem) => Workload = {}

\* What isolate_network says of an open network: the whole unit is stopped
\* before it is destroyed.
FrozenIsStill == frozen => \A p \in Workload : ~Runs(p)
=============================================================================
