--------------------------- MODULE SandboxProofs ---------------------------
(***************************************************************************)
(* Proofs about Sandbox, for any number of pids and processes, any nesting *)
(* of namespaces, with or without processes deaf to SIGKILL.               *)
(*                                                                         *)
(* The inductive invariant Inv says who can be in the process table (Kin), *)
(* what the supervisor's position implies (Positions), what the identity   *)
(* recorded at launch is worth (Identity), what a scan in progress has     *)
(* read of the launcher and the init (Scanning) and, while no listed pid   *)
(* was reused, of everyone (Faithful).  Most steps only let processes end  *)
(* (Fades); four bring one in.                                             *)
(***************************************************************************)
EXTENDS Sandbox, NaturalsInduction, WellFoundedInduction, TLAPS

\* launch() has returned a unit.
Launched == ustate \in {"RUNNING", "TERMINATING", "TERMINATED", "KILL_FAILED"}

\* Who a process can be: where it lives, whose child it is, and that nothing
\* inside outlives the init of the PID namespace.
KinOf(p) ==
  LET r == table[p]
      child(roles) == r.parent = 0 \/ (r.parent \in Used /\ table[r.parent].role \in roles)
  IN /\ r.start <= born
     /\ r.role = "launcher" =>
          /\ p = launcher /\ r.parent = 0 /\ r.pidns = "host"
          /\ guard.at # "none" => r.userns # "host"
     /\ r.role = "stranger" => r.pidns = "host" /\ r.userns = "host" /\ child({"stranger"})
     /\ r.role = "init" => r.pidns = "unit" /\ r.userns = "unit"
     /\ r.role = "task" => r.userns # "host" /\ child({"init", "task"})
     /\ r.role \in {"init", "task"} => guard.at # "none" /\ \E i \in Used : table[i].role = "init"
     /\ r.zombie => r.role = "launcher"

\* Start times name processes, and the unit has one init.
Kin ==
  /\ \A p \in Used : KinOf(p)
  /\ \A p, q \in Used : table[p].start = table[q].start => p = q
  /\ \A p, q \in Used : table[p].role = "init" /\ table[q].role = "init" => p = q

\* What the position of the supervisor implies: the launcher is its child
\* until it is reaped, and after terminate_tree only a hung one is left.
Positions ==
  /\ spc = "idle" => Used = {} /\ guard.at = "none"
  /\ spc \in {"locate", "report", "names", "starts", "grace"} => HasLauncher
  /\ spc \in {"hunt", "kill", "final", "done", "failed"} =>
       \A p \in Used : table[p].role = "launcher" => table[p].hung /\ ~table[p].zombie
  /\ spc = "idle" => ustate = "UNPREPARED"
  /\ spc \in {"locate", "report", "names", "starts"} => ustate = "STARTING"
  /\ spc \in {"inspect", "running", "hunt", "kill", "final", "done"} => Launched
  /\ spc \in {"term", "abort", "grace"} => ustate \in {"STARTING", "TERMINATING"}
  /\ ustate = "TERMINATED" => spc = "done"

\* What the recorded identity is worth: the sandbox's pid is its init's, the
\* start times single out the launcher and, unless the look was stale, the init.
Identity ==
  /\ spc \in {"names", "starts"} \/ Launched => box # None
  /\ box # None => guard.at # "none" /\ \A p \in Used : table[p].role = "init" => p = box
  /\ spc = "starts" \/ Launched =>
       /\ \A p \in Used : table[p].role = "init" => ident.pidns = "unit"
       /\ ~ident.stale => ident.pidns = "unit" /\ ident.userns = "unit"
  /\ Launched =>
       /\ ident.lstart \in 1 .. born
       /\ \A p \in Used : table[p].start = ident.lstart <=> table[p].role = "launcher"
       /\ ~ident.stale => /\ ident.sstart \in 1 .. born
                          /\ \A p \in Used : table[p].start = ident.sstart => table[p].role = "init"

\* What a scan in progress has read: of the launcher and the init, the truth.
Scanning ==
  /\ scan.todo \subseteq scan.pids
  /\ \A p \in Pids : scan.seen[p] # None => p \in scan.pids /\ scan.seen[p].start <= born
  /\ scan.on => spc \in {"hunt", "final"}
  /\ ~scan.on /\ spc # "kill" => \A p \in Pids : scan.seen[p] = None
  /\ scan.on => \A p \in Used : table[p].role \in {"launcher", "init"} =>
       \/ p \in scan.todo
       \/ /\ scan.seen[p] # None /\ scan.seen[p].start = table[p].start
          /\ scan.seen[p].pidns = table[p].pidns
          /\ scan.seen[p].zombie => table[p].zombie

\* One record of a scan in which no listed pid was reused: the process that
\* holds the pid now is the one that was read, and no stranger was read as the
\* child of a process of the unit.
SeenOf(p) ==
  LET r == scan.seen[p]
  IN /\ p \in Used => r.userns = table[p].userns
     /\ r.pidns # "host" => r.userns # "host"
     /\ r.userns = "host" /\ r.parent # 0 =>
          /\ r.parent \in scan.pids \cap Used => table[r.parent].userns = "host"
          /\ scan.seen[r.parent] # None => scan.seen[r.parent].userns = "host"
     /\ r.start = ident.lstart => r.userns # "host"
     /\ ~ident.stale /\ r.start = ident.sstart => r.userns # "host"

\* Every record of such a scan.
Faithful == ~scan.reused => \A p \in Pids : scan.seen[p] # None => SeenOf(p)

\* TypeOK without what follows from the rest of the invariant.
Types ==
  /\ table \in [Pids -> ProcType \cup {None}] /\ born \in 0 .. MaxBorn
  /\ guard \in [problem : BOOLEAN, at : {"none", "setup", "reported", "exec", "dead"}]
  /\ pipe \in {"empty", "ok", "bad"}
  /\ spc \in {"idle", "locate", "report", "names", "starts", "inspect", "running", "abort", "term",
              "grace", "hunt", "kill", "final", "done", "failed"}
  /\ launcher \in Pids \cup {None} /\ box \in Pids \cup {None}
  /\ ident \in [lstart : 1 .. MaxBorn \cup {None}, sstart : 1 .. MaxBorn \cup {None},
                pidns : Spaces \cup {None}, userns : Spaces \cup {None}, stale : BOOLEAN]
  /\ scan \in [on : BOOLEAN, pids : SUBSET Pids, todo : SUBSET Pids,
               seen : [Pids -> Shown \cup {None}], reused : BOOLEAN]
  /\ late \in BOOLEAN /\ frozen \in BOOLEAN
  /\ ustate \in {"UNPREPARED", "STARTING", "RUNNING", "TERMINATING", "TERMINATED", "KILL_FAILED",
                 "FAILED"}

\* The inductive invariant.
Inv == Types /\ Kin /\ Positions /\ Identity /\ Scanning /\ Faithful /\ EmptyIsEmpty

\* From table t to table u processes only end, become zombies, hang or are
\* adopted, and the unit's end with its init.
Fades(t, u) ==
  /\ u \in [Pids -> ProcType \cup {None}]
  /\ \A p \in Pids : u[p] # None =>
       /\ t[p] # None
       /\ u[p].start = t[p].start /\ u[p].role = t[p].role
       /\ u[p].pidns = t[p].pidns /\ u[p].userns = t[p].userns
       /\ t[p].hung => u[p].hung
       /\ t[p].zombie => u[p].zombie
       /\ u[p].zombie => t[p].role = "launcher" /\ (t[p].hung => t[p].zombie)
       /\ t[p].role = "launcher" => u[p].parent = 0
       /\ t[p].role = "stranger" =>
            u[p].parent = 0 \/ (u[u[p].parent] # None /\ t[u[p].parent].role = "stranger")
       /\ t[p].role = "task" =>
            u[p].parent = 0 \/ (u[u[p].parent] # None /\ t[u[p].parent].role \in {"init", "task"})
       /\ t[p].role \in {"init", "task"} => \E i \in Pids : u[i] # None /\ t[i].role = "init"

---------------------------------------------------------------------------
\* A nonempty set of numbers has a least one, which is what Min picks.
LEMMA LeastPid ==
  ASSUME NEW S \in SUBSET Nat, S # {}
  PROVE  Min(S) \in S
<1> DEFINE R == OpToRel(<, Nat)
<1>1. IsWellFoundedOn(R, Nat)
  BY NatLessThanWellFounded
<1>2. \A m, n \in Nat : <<n, m>> \in R <=> n < m
  BY DEF OpToRel
<1> HIDE DEF R
<1>3. PICK m \in S : \A n \in S : <<n, m>> \notin R
  BY <1>1, WFMin
<1>4. ASSUME NEW n \in S PROVE m <= n
  <2>1. m \in Nat /\ n \in Nat /\ <<n, m>> \notin R
    BY <1>3
  <2> QED
    BY <2>1, <1>2
<1> QED
  BY <1>3, <1>4 DEF Min

\* A process that became a zombie.
LEMMA Zombified ==
  ASSUME NEW r \in ProcType, NEW z, z = [r EXCEPT !.zombie = TRUE]
  PROVE  /\ z \in ProcType /\ z # None /\ z.zombie = TRUE /\ z.parent = r.parent
         /\ z.start = r.start /\ z.role = r.role /\ z.hung = r.hung
         /\ z.pidns = r.pidns /\ z.userns = r.userns
BY NoneAssumption DEF ProcType

\* A process that has a new parent.
LEMMA Adopted ==
  ASSUME NEW r \in ProcType, NEW h \in {0} \cup Pids, NEW k, k = [r EXCEPT !.parent = h]
  PROVE  /\ k \in ProcType /\ k # None /\ k.zombie = r.zombie /\ k.parent = h
         /\ k.start = r.start /\ k.role = r.role /\ k.hung = r.hung
         /\ k.pidns = r.pidns /\ k.userns = r.userns
BY NoneAssumption DEF ProcType

\* The pids in use, and the type of their processes.
LEMMA UsedType ==
  ASSUME Types
  PROVE  /\ Used \subseteq Pids
         /\ \A p \in Used : table[p] \in ProcType
         /\ \A p \in Pids : p \in Used <=> table[p] # None
BY DEF Types, Used

\* A table is one way for it to fade.
LEMMA SameFades ==
  ASSUME Types, Kin
  PROVE  Fades(table, table)
<1> SUFFICES ASSUME NEW p \in Pids, table[p] # None
             PROVE  /\ table[p].zombie => table[p].role = "launcher"
                    /\ table[p].role = "launcher" => table[p].parent = 0
                    /\ table[p].role = "stranger" =>
                         table[p].parent = 0 \/ (table[table[p].parent] # None /\ table[table[p].parent].role = "stranger")
                    /\ table[p].role = "task" =>
                         table[p].parent = 0 \/ (table[table[p].parent] # None /\ table[table[p].parent].role \in {"init", "task"})
                    /\ table[p].role \in {"init", "task"} => \E i \in Pids : table[i] # None /\ table[i].role = "init"
  BY DEF Fades, Types
<1>1. p \in Used /\ KinOf(p)
  BY DEF Used, Kin
<1> QED
  BY <1>1 DEF KinOf, Used

\* The dead: only of S and, once the init goes, everything inside.
LEMMA DeadFacts ==
  ASSUME Types, Kin, NEW S \in SUBSET Live
  PROVE  /\ Dead(S) \subseteq Live
         /\ \A p \in Dead(S) : ~table[p].hung
         /\ \A p \in Dead(S) : p \in S \/ table[p].role \in {"init", "task"}
         /\ \A p \in S : table[p].role = "launcher" /\ ~table[p].hung => p \in Dead(S)
         /\ \A i \in Dead(S) : table[i].role = "init" =>
              \A p \in Used : table[p].role \in {"init", "task"} => p \in Dead(S)
<1>0. Inits = {p \in Live : table[p].role = "init"} /\ Live \subseteq Used
  BY DEF Inits, Live
<1>1. \A p \in Used : table[p].role \in {"init", "task"} => p \in Live
  BY DEF Kin, KinOf, Live
<1>2. \A p \in Used : table[p].hung \in BOOLEAN
  BY UsedType DEF ProcType
<1> QED
  BY <1>0, <1>1, <1>2 DEF Dead

\* Without(S), entry by entry.
LEMMA WithoutIs ==
  ASSUME Types, Kin, NEW S \in SUBSET Live, NEW p \in Pids
  PROVE  /\ p \in Dead(S) /\ table[p].role = "launcher" => Without(S)[p] = [table[p] EXCEPT !.zombie = TRUE]
         /\ p \in Dead(S) /\ table[p].role # "launcher" => Without(S)[p] = None
         /\ p \notin Dead(S) /\ p \in Used /\ table[p].parent \in Dead(S) =>
              \E h \in {0} \cup (Inits \ Dead(S)) :
                 /\ table[p].role = "stranger" => h = 0
                 /\ Without(S)[p] = [table[p] EXCEPT !.parent = h]
         /\ p \notin Dead(S) /\ (p \notin Used \/ table[p].parent \notin Dead(S)) => Without(S)[p] = table[p]
BY DEF Without

\* Without(S) is a fading of the table: with the init gone nothing inside is
\* left, and orphans are adopted by the init or by the host's.
LEMMA WithoutFades ==
  ASSUME Types, Kin, NEW S \in SUBSET Live
  PROVE  Fades(table, Without(S))
<1> DEFINE u == Without(S)
<1>0. /\ DOMAIN u = Pids /\ u = [p \in Pids |-> u[p]]
      /\ \A p \in Used : table[p] \in ProcType
  BY UsedType DEF Without
<1>d. Dead(S) \subseteq Used /\ Inits \subseteq Used /\ Used \subseteq Pids
  BY DeadFacts DEF Live, Inits, Used
<1>1. ASSUME NEW p \in Pids
      PROVE  /\ u[p] \in ProcType \cup {None}
             /\ u[p] # None => /\ p \in Used
                               /\ u[p].start = table[p].start /\ u[p].role = table[p].role
                               /\ u[p].pidns = table[p].pidns /\ u[p].userns = table[p].userns
                               /\ u[p].hung = table[p].hung
                               /\ u[p].zombie => table[p].zombie \/ p \in Dead(S)
                               /\ table[p].zombie => u[p].zombie
                               /\ p \in Dead(S) => table[p].role = "launcher"
                               /\ \/ u[p].parent = table[p].parent /\ (p \in Dead(S) \/ table[p].parent \notin Dead(S))
                                  \/ u[p].parent = 0
                                  \/ table[p].role # "stranger" /\ u[p].parent \in Inits \ Dead(S) /\ table[p].parent \in Dead(S)
             /\ p \in Used /\ p \notin Dead(S) => u[p] # None
  <2>1. CASE p \in Dead(S)
    <3>1. table[p] \in ProcType /\ p \in Used
      BY <2>1, <1>0, <1>d
    <3>2. CASE table[p].role = "launcher"
      <4>1. u[p] = [table[p] EXCEPT !.zombie = TRUE]
        BY <2>1, <3>2, WithoutIs
      <4> HIDE DEF u
      <4> QED
        BY <4>1, <3>1, <3>2, <2>1, Zombified
    <3>3. CASE table[p].role # "launcher"
      BY <2>1, <3>3, WithoutIs
    <3> QED
      BY <3>2, <3>3
  <2>2. CASE p \notin Dead(S) /\ p \in Used /\ table[p].parent \in Dead(S)
    <3>1. PICK h \in {0} \cup (Inits \ Dead(S)) :
                 /\ table[p].role = "stranger" => h = 0
                 /\ u[p] = [table[p] EXCEPT !.parent = h]
      BY <2>2, WithoutIs
    <3>2. h \in {0} \cup Pids
      BY <1>d, <3>1
    <3> HIDE DEF u
    <3>3. table[p] \in ProcType
      BY <2>2, <1>0
    <3>4. /\ u[p] \in ProcType /\ u[p] # None /\ u[p].zombie = table[p].zombie /\ u[p].parent = h
          /\ u[p].start = table[p].start /\ u[p].role = table[p].role /\ u[p].hung = table[p].hung
          /\ u[p].pidns = table[p].pidns /\ u[p].userns = table[p].userns
      BY <3>1, <3>2, <3>3, Adopted
    <3>5. h = 0 \/ (h \in Inits \ Dead(S) /\ table[p].role # "stranger")
      BY <3>1
    <3> QED
      BY <3>4, <3>5, <2>2
  <2>3. CASE p \notin Dead(S) /\ (p \notin Used \/ table[p].parent \notin Dead(S))
    <3>1. u[p] = table[p] /\ table[p] \in ProcType \cup {None} /\ (p \in Used <=> table[p] # None)
      BY <2>3, WithoutIs DEF Types, Used
    <3> HIDE DEF u
    <3> QED
      BY <3>1, <2>3
  <2> QED
    BY <2>1, <2>2, <2>3
<1>2. u \in [Pids -> ProcType \cup {None}]
  BY <1>0, <1>1
<1>3. ASSUME NEW p \in Pids, u[p] # None
      PROVE  /\ u[p].zombie => table[p].role = "launcher" /\ (table[p].hung => table[p].zombie)
             /\ table[p].role = "launcher" => u[p].parent = 0
             /\ table[p].role = "stranger" =>
                  u[p].parent = 0 \/ (u[u[p].parent] # None /\ table[u[p].parent].role = "stranger")
             /\ table[p].role = "task" =>
                  u[p].parent = 0 \/ (u[u[p].parent] # None /\ table[u[p].parent].role \in {"init", "task"})
             /\ table[p].role \in {"init", "task"} => \E i \in Pids : u[i] # None /\ table[i].role = "init"
  <2>1. p \in Used /\ KinOf(p)
    BY <1>1, <1>3 DEF Kin
  <2>2. u[p].zombie => table[p].role = "launcher" /\ (table[p].hung => table[p].zombie)
    BY <2>1, <1>1, <1>3, DeadFacts DEF KinOf
  <2>3. table[p].role = "launcher" => u[p].parent = 0
    BY <2>1, <1>1, <1>3, <1>d, SandboxAssumption DEF KinOf
  <2>4. table[p].role = "stranger" =>
                  u[p].parent = 0 \/ (u[u[p].parent] # None /\ table[u[p].parent].role = "stranger")
    BY <2>1, <1>1, <1>3, <1>d DEF KinOf
  <2>5. table[p].role = "task" =>
                  u[p].parent = 0 \/ (u[u[p].parent] # None /\ table[u[p].parent].role \in {"init", "task"})
    BY <2>1, <1>1, <1>3, <1>d DEF KinOf, Inits
  <2>6. ASSUME table[p].role \in {"init", "task"}
        PROVE  \E i \in Pids : u[i] # None /\ table[i].role = "init"
    <3>1. PICK i \in Used : table[i].role = "init"
      BY <2>1, <2>6 DEF KinOf
    <3>2. i \notin Dead(S)
      BY <3>1, <2>1, <2>6, <1>1, <1>3, DeadFacts
    <3> QED
      BY <3>1, <3>2, <1>1, <1>d
  <2> QED
    BY <2>2, <2>3, <2>4, <2>5, <2>6
<1> QED
  BY <1>1, <1>2, <1>3 DEF Fades, Used

\* What Without spares: the launcher stays in the table, and someone else's
\* process is untouched when none is among the killed.
LEMMA WithoutSpares ==
  ASSUME Types, Kin, NEW S \in SUBSET Live
  PROVE  /\ \A p \in Used : table[p].role = "launcher" => Without(S)[p] # None
         /\ \A p \in S : table[p].role = "launcher" /\ ~table[p].hung => Without(S)[p].zombie
         /\ (\A p \in S : table[p].role # "stranger") =>
              \A p \in Used : table[p].role = "stranger" => Without(S)[p] = table[p]
<1>d. Dead(S) \subseteq Used /\ Used \subseteq Pids
  BY DeadFacts DEF Live, Used
<1>0. \A p \in Used : table[p] \in ProcType /\ KinOf(p)
  BY UsedType DEF Kin
<1>1. ASSUME NEW p \in Used, table[p].role = "launcher"
      PROVE  Without(S)[p] # None
  <2>1. table[p].parent = 0 /\ 0 \notin Dead(S)
    BY <1>0, <1>1, <1>d, SandboxAssumption DEF KinOf
  <2>2. CASE p \in Dead(S)
    <3>1. Without(S)[p] = [table[p] EXCEPT !.zombie = TRUE]
      BY <2>2, <1>1, <1>d, WithoutIs
    <3> QED
      BY <3>1, <1>0, Zombified
  <2>3. CASE p \notin Dead(S)
    BY <2>1, <2>3, <1>d, WithoutIs, NoneAssumption DEF Used
  <2> QED
    BY <2>2, <2>3
<1>2. ASSUME NEW p \in S, table[p].role = "launcher", ~table[p].hung
      PROVE  Without(S)[p].zombie
  <2>1. p \in Dead(S) /\ p \in Pids /\ table[p] \in ProcType
    BY <1>2, DeadFacts, <1>d, <1>0
  <2> QED
    <3>1. Without(S)[p] = [table[p] EXCEPT !.zombie = TRUE]
      BY <2>1, <1>2, WithoutIs
    <3> QED
      BY <3>1, <2>1, Zombified
<1>3. ASSUME \A p \in S : table[p].role # "stranger", NEW p \in Used, table[p].role = "stranger"
      PROVE  Without(S)[p] = table[p]
  <2>1. p \notin Dead(S)
    BY <1>3, DeadFacts
  <2>2. table[p].parent \notin Dead(S)
    <3>1. table[p].parent = 0 \/ (table[p].parent \in Used /\ table[table[p].parent].role = "stranger")
      BY <1>0, <1>3 DEF KinOf
    <3> QED
      BY <3>1, <1>3, DeadFacts, <1>d, SandboxAssumption
  <2> QED
    BY <2>1, <2>2, <1>d, WithoutIs
<1> QED
  BY <1>1, <1>2, <1>3

\* Reaping takes only a zombie launcher out of the table.
LEMMA ReapedFades ==
  ASSUME Types, Kin, NEW t, Fades(table, t)
  PROVE  /\ Fades(table, Reaped(t))
         /\ \A p \in Pids : p # launcher => Reaped(t)[p] = t[p]
         /\ Reaped(t) # t => HasLauncher /\ Reaped(t)[launcher] = None
         /\ HasLauncher /\ t[launcher] # None /\ t[launcher].zombie => Reaped(t)[launcher] = None
<1>1. CASE ~(launcher \in Used /\ t[launcher] # None /\ t[launcher].zombie)
  <2>1. Reaped(t) = t
    BY <1>1 DEF Reaped
  <2> QED
    BY <2>1, <1>1 DEF HasLauncher
<1>2. CASE launcher \in Used /\ t[launcher] # None /\ t[launcher].zombie
  <2>1. launcher \in Pids /\ table[launcher].role = "launcher"
    BY <1>2 DEF Fades, Used
  <2>2. Reaped(t) = [t EXCEPT ![launcher] = None] /\ t \in [Pids -> ProcType \cup {None}]
    BY <1>2 DEF Reaped, Fades
  <2> DEFINE u == Reaped(t)
  <2>3. /\ u \in [Pids -> ProcType \cup {None}] /\ u[launcher] = None
        /\ \A p \in Pids : p # launcher => u[p] = t[p]
    BY <2>1, <2>2
  <2> HIDE DEF u
  <2>4. \A p \in Pids : t[p] # None => t[p].parent \in {0} \cup Pids
    BY <2>2 DEF ProcType
  <2>5. Fades(table, u)
    BY <2>1, <2>3, <2>4 DEF Fades
  <2> QED
    BY <2>1, <2>3, <2>5, <1>2 DEF u, HasLauncher
<1> QED
  BY <1>1, <1>2

---------------------------------------------------------------------------
\* A step in which the table fades.
Fading ==
  /\ Fades(table, table') /\ born' = born /\ launcher' = launcher
  /\ guard'.at = "none" <=> guard.at = "none"

\* A table with the same processes, some of them hung, stopped or in another
\* group.
LEMMA TouchFades ==
  ASSUME Types, Kin, NEW u \in [Pids -> ProcType \cup {None}],
         \A p \in Pids : u[p] # None =>
           /\ p \in Used
           /\ u[p].start = table[p].start /\ u[p].role = table[p].role /\ u[p].parent = table[p].parent
           /\ u[p].pidns = table[p].pidns /\ u[p].userns = table[p].userns
           /\ u[p].zombie = table[p].zombie /\ (table[p].hung => u[p].hung),
         \A p \in Used : u[p] # None
  PROVE  Fades(table, u)
<1>1. Fades(table, table) /\ Used = {p \in Pids : table[p] # None}
  BY SameFades DEF Used
<1>2. ASSUME NEW p \in Pids, u[p] # None
      PROVE  /\ u[p].parent \in {0} \cup Pids
             /\ u[p].parent # 0 /\ table[u[p].parent] # None => u[u[p].parent] # None
  BY <1>1, <1>2 DEF ProcType
<1>3. ASSUME NEW p \in Pids, u[p] # None
      PROVE  table[p].role \in {"init", "task"} => \E i \in Pids : u[i] # None /\ table[i].role = "init"
  BY <1>1, <1>3 DEF Fades
<1> QED
  BY <1>1, <1>2, <1>3 DEF Fades

\* A process leaves its group.
LEMMA GroupLeft ==
  ASSUME Types, Kin, NEW p \in Used, NEW g \in 1 .. MaxBorn
  PROVE  /\ Fades(table, [table EXCEPT ![p].group = g])
         /\ \A q \in Used : [table EXCEPT ![p].group = g][q] # None
<1> DEFINE u == [table EXCEPT ![p].group = g]
<1>0. p \in Pids /\ table[p] \in ProcType /\ table \in [Pids -> ProcType \cup {None}]
  BY UsedType DEF Types
<1>1. /\ u \in [Pids -> ProcType \cup {None}]
      /\ \A q \in Pids : q # p => u[q] = table[q]
      /\ u[p] = [table[p] EXCEPT !.group = g]
  BY <1>0 DEF ProcType
<1>2. /\ u[p] \in ProcType /\ u[p] # None
      /\ u[p].start = table[p].start /\ u[p].role = table[p].role /\ u[p].parent = table[p].parent
      /\ u[p].pidns = table[p].pidns /\ u[p].userns = table[p].userns
      /\ u[p].zombie = table[p].zombie /\ u[p].hung = table[p].hung
  BY <1>0, <1>1, NoneAssumption DEF ProcType
<1> HIDE DEF u
<1>3. \A q \in Pids : q \in Used <=> table[q] # None
  BY UsedType
<1>4. Used \subseteq Pids
  BY UsedType
<1>5. Fades(table, u) /\ \A q \in Used : u[q] # None
  BY <1>1, <1>2, <1>3, <1>4, TouchFades
<1> QED
  BY <1>5 DEF u

\* A process gets stuck in the kernel.
LEMMA HungUp ==
  ASSUME Types, Kin, NEW p \in Used
  PROVE  /\ Fades(table, [table EXCEPT ![p].hung = TRUE])
         /\ \A q \in Used : [table EXCEPT ![p].hung = TRUE][q] # None
<1> DEFINE u == [table EXCEPT ![p].hung = TRUE]
<1>0. p \in Pids /\ table[p] \in ProcType /\ table \in [Pids -> ProcType \cup {None}]
  BY UsedType DEF Types
<1>1. /\ u \in [Pids -> ProcType \cup {None}]
      /\ \A q \in Pids : q # p => u[q] = table[q]
      /\ u[p] = [table[p] EXCEPT !.hung = TRUE]
  BY <1>0 DEF ProcType
<1>2. /\ u[p] \in ProcType /\ u[p] # None
      /\ u[p].start = table[p].start /\ u[p].role = table[p].role /\ u[p].parent = table[p].parent
      /\ u[p].pidns = table[p].pidns /\ u[p].userns = table[p].userns
      /\ u[p].zombie = table[p].zombie /\ u[p].hung
  <2>1. u[p] \in ProcType
    BY <1>0, <1>1 DEF ProcType
  <2>2. u[p] # None
    BY <2>1, NoneAssumption
  <2>3. /\ u[p].start = table[p].start /\ u[p].role = table[p].role /\ u[p].parent = table[p].parent
        /\ u[p].pidns = table[p].pidns /\ u[p].userns = table[p].userns
        /\ u[p].zombie = table[p].zombie /\ u[p].hung
    BY <1>0, <1>1 DEF ProcType
  <2> HIDE DEF u
  <2> QED BY <2>1, <2>2, <2>3
<1> HIDE DEF u
<1>3. \A q \in Pids : q \in Used <=> table[q] # None
  BY UsedType
<1>4. Used \subseteq Pids
  BY UsedType
<1>5. Fades(table, u) /\ \A q \in Used : u[q] # None
  BY <1>1, <1>2, <1>3, <1>4, TouchFades
<1> QED
  BY <1>5 DEF u

\* A stopped process.
LEMMA Stopped ==
  ASSUME NEW r \in ProcType, NEW z, z = [r EXCEPT !.stopped = TRUE]
  PROVE  /\ z \in ProcType /\ z # None /\ z.zombie = r.zombie /\ z.parent = r.parent
         /\ z.start = r.start /\ z.role = r.role /\ z.hung = r.hung
         /\ z.pidns = r.pidns /\ z.userns = r.userns
BY NoneAssumption DEF ProcType

\* A process group is stopped.
LEMMA Frozen ==
  ASSUME Types, Kin, NEW S \in SUBSET Used, NEW u,
         u = [p \in Pids |-> IF p \in S THEN [table[p] EXCEPT !.stopped = TRUE] ELSE table[p]]
  PROVE  Fades(table, u) /\ \A q \in Used : u[q] # None
<1>0. Used \subseteq Pids /\ \A p \in Pids : (p \in Used <=> table[p] # None) /\ table[p] \in ProcType \cup {None}
  BY UsedType DEF Types
<1>1. ASSUME NEW p \in S
      PROVE  /\ u[p] \in ProcType /\ u[p] # None
             /\ u[p].start = table[p].start /\ u[p].role = table[p].role /\ u[p].parent = table[p].parent
             /\ u[p].pidns = table[p].pidns /\ u[p].userns = table[p].userns
             /\ u[p].zombie = table[p].zombie /\ u[p].hung = table[p].hung
  <2>1. u[p] = [table[p] EXCEPT !.stopped = TRUE] /\ table[p] \in ProcType
    BY <1>0
  <2> QED
    BY <2>1, Stopped
<1>2. \A p \in Pids \ S : u[p] = table[p]
  OBVIOUS
<1>3. u \in [Pids -> ProcType \cup {None}]
  <2>1. \A p \in Pids : u[p] \in ProcType \cup {None}
    BY <1>0, <1>1, <1>2
  <2> QED
    BY <2>1
<1>4. \A q \in Used : u[q] # None
  BY <1>0, <1>1, <1>2
<1>5. Fades(table, u)
  BY <1>0, <1>1, <1>2, <1>3, <1>4, TouchFades
<1> QED
  BY <1>4, <1>5

\* The sets of processes that the actions range over.
LEMMA Subsets ==
  /\ Live \subseteq Used /\ Used \subseteq Pids /\ Ours \subseteq Live /\ Inits \subseteq Live
  /\ Workload \subseteq Ours
  /\ \A p \in Pids : GroupOf(p) \subseteq Live
BY DEF Live, Used, Ours, Inits, Workload, GroupOf

\* Processes come into the table by four steps; every other one only
\* ends them, or leaves them as they are.
LEMMA FadingSteps ==
  ASSUME Types, Kin, Next
  PROVE  Fading \/ LauncherForks \/ Fork \/ StrangerStarts \/ Spawn
<1>0. UNCHANGED <<table, born, launcher, guard>> => Fading
  BY SameFades DEF Fading
<1>1. ASSUME NEW S \in SUBSET Live, table' = Without(S), UNCHANGED <<born, launcher>>,
             guard'.at = "none" <=> guard.at = "none"
      PROVE  Fading
  BY <1>1, WithoutFades DEF Fading
<1>2. CASE LauncherExits
  BY <1>2, <1>1, Subsets DEF LauncherExits
<1>3. CASE WorkloadStep
  <2>1. PICK p \in Workload :
           \/ table' = Without({p})
           \/ table[p].group # table[p].start /\ table' = [table EXCEPT ![p].group = table[p].start]
           \/ MayHang /\ table' = [table EXCEPT ![p].hung = TRUE]
    BY <1>3 DEF WorkloadStep
  <2>2. p \in Live /\ p \in Used /\ table[p].start \in 1 .. MaxBorn
    BY Subsets, UsedType DEF ProcType
  <2>3. UNCHANGED <<born, launcher, guard>>
    BY <1>3 DEF WorkloadStep
  <2>4. CASE table' = Without({p})
    BY <2>2, <2>3, <2>4, <1>1
  <2>5. CASE table' = [table EXCEPT ![p].group = table[p].start]
    BY <2>2, <2>3, <2>5, GroupLeft DEF Fading
  <2>6. CASE table' = [table EXCEPT ![p].hung = TRUE]
    BY <2>2, <2>3, <2>6, HungUp DEF Fading
  <2> QED
    BY <2>1, <2>4, <2>5, <2>6
<1>4. CASE LauncherHangs
  BY <1>4, HungUp, Subsets DEF LauncherHangs, Fading
<1>5. CASE StrangerExits
  BY <1>5, <1>1, Subsets DEF StrangerExits
<1>6. CASE GuardReports
  <2>1. guard \in [problem : BOOLEAN, at : {"none", "setup", "reported", "exec", "dead"}] /\ guard.at = "setup"
    BY <1>6 DEF GuardReports, Types
  <2>2. guard'.at # "none" /\ UNCHANGED <<born, launcher>>
    BY <1>6 DEF GuardReports
  <2>3. table' = table \/ table' = Without(Inits)
    BY <1>6 DEF GuardReports
  <2> QED
    BY <2>1, <2>2, <2>3, <1>1, SameFades, Subsets DEF Fading
<1>7. CASE GuardExecs
  <2>1. guard \in [problem : BOOLEAN, at : {"none", "setup", "reported", "exec", "dead"}] /\ guard.at = "reported"
    BY <1>7 DEF GuardExecs, Types
  <2>2. guard'.at # "none" /\ UNCHANGED <<born, launcher>>
    BY <1>7, <2>1 DEF GuardExecs
  <2>3. table' = table \/ table' = Without(Inits)
    BY <1>7 DEF GuardExecs
  <2> QED
    BY <2>1, <2>2, <2>3, <1>1, SameFades, Subsets DEF Fading
<1>8. CASE Poll
  BY <1>8, SameFades, ReapedFades DEF Poll, Fading
<1>9. CASE Isolate
  <2>1. box \in Pids
    BY <1>9, Subsets DEF Isolate
  <2>2. GroupOf(box) \in SUBSET Used
    BY <2>1, Subsets
  <2> QED
    BY <1>9, <2>2, Frozen DEF Isolate, Fading
<1>10. CASE TermBegin
  <2>1. UNCHANGED <<born, launcher, guard>>
    BY <1>10 DEF TermBegin
  <2>2. \/ table' = table \/ table' = Reaped(table)
        \/ \E S \in SUBSET GroupOf(launcher) : table' = Without(S)
    BY <1>10 DEF TermBegin
  <2>3. GroupOf(launcher) \subseteq Live
    BY DEF GroupOf
  <2> QED
    BY <2>1, <2>2, <2>3, <1>1, SameFades, ReapedFades DEF Fading
<1>11. CASE TermEnd
  <2>1. UNCHANGED <<born, launcher, guard>>
    BY <1>11 DEF TermEnd
  <2>2. table' = Reaped(table) \/ table' = Reaped(Without(GroupOf(launcher)))
    BY <1>11 DEF TermEnd
  <2>3. GroupOf(launcher) \subseteq Live
    BY DEF GroupOf
  <2> QED
    BY <2>1, <2>2, <2>3, WithoutFades, SameFades, ReapedFades DEF Fading
<1>12. CASE HuntKill
  BY <1>12, <1>1 DEF HuntKill
<1>13. CASE Locate \/ Report \/ ReadNamespaces \/ ReadStarts \/ Inspect \/ Terminate \/ Deadline \/ ScanBegin
            \/ ScanRead \/ HuntScanned \/ HuntExpired \/ Conclude
  BY <1>13, <1>0 DEF Locate, Report, ReadNamespaces, ReadStarts, Inspect, Terminate, Deadline, ScanBegin,
                     ScanRead, HuntScanned, HuntExpired, Conclude
<1> QED
  BY <1>2, <1>3, <1>4, <1>5, <1>6, <1>7, <1>8, <1>9, <1>10, <1>11, <1>12, <1>13
     DEF Next, Kernel, Guard, Supervisor, Terminating

\* Kin survives a fading of the table.
LEMMA KinFades ==
  ASSUME Types, Kin, Fading
  PROVE  Kin'
<1>1. Used' \subseteq Used /\ Used' = {p \in Pids : table'[p] # None} /\ Used \subseteq Pids
  BY DEF Used, Fading, Fades
<1>2. ASSUME NEW p \in Used'
      PROVE  KinOf(p)'
  <2>1. p \in Used /\ p \in Pids /\ KinOf(p)
    BY <1>1, <1>2 DEF Kin
  <2>2. table'[p] \in ProcType /\ table'[p].parent \in {0} \cup Pids
    BY <1>1, <1>2 DEF Fading, Fades, ProcType
  <2>3. /\ table'[p].start <= born'
        /\ table'[p].role = "launcher" =>
             /\ p = launcher' /\ table'[p].parent = 0 /\ table'[p].pidns = "host"
             /\ guard'.at # "none" => table'[p].userns # "host"
        /\ table'[p].zombie => table'[p].role = "launcher"
        /\ table'[p].role = "init" => table'[p].pidns = "unit" /\ table'[p].userns = "unit"
    BY <2>1, <1>1 DEF Fading, Fades, KinOf
  <2>4. table'[p].role \in {"init", "task"} => guard'.at # "none" /\ \E i \in Used' : table'[i].role = "init"
    BY <2>1, <1>1 DEF Fading, Fades, KinOf
  <2>5. table'[p].role = "stranger" =>
          /\ table'[p].pidns = "host" /\ table'[p].userns = "host"
          /\ table'[p].parent = 0 \/ (table'[p].parent \in Used' /\ table'[table'[p].parent].role = "stranger")
    BY <2>1, <2>2, <1>1 DEF Fading, Fades, KinOf
  <2>6. table'[p].role = "task" =>
          /\ table'[p].userns # "host"
          /\ table'[p].parent = 0 \/ (table'[p].parent \in Used' /\ table'[table'[p].parent].role \in {"init", "task"})
    BY <2>1, <2>2, <1>1 DEF Fading, Fades, KinOf
  <2> QED
    BY <2>3, <2>4, <2>5, <2>6 DEF KinOf
<1>3. \A p \in Used' : p \in Used /\ table'[p].start = table[p].start /\ table'[p].role = table[p].role
  BY <1>1 DEF Fading, Fades
<1> QED
  BY <1>2, <1>3 DEF Kin

---------------------------------------------------------------------------
\* One entry more in the table.
LEMMA Added ==
  ASSUME Types, NEW p \in Pids, p \notin Used, NEW r \in ProcType, table' = [table EXCEPT ![p] = r]
  PROVE  /\ table' \in [Pids -> ProcType \cup {None}]
         /\ Used' = Used \cup {p} /\ table'[p] = r
         /\ \A q \in Used : table'[q] = table[q]
<1>1. r # None /\ table \in [Pids -> ProcType \cup {None}]
  BY NoneAssumption DEF Types
<1> QED
  BY <1>1 DEF Used

\* A new process, in the host's namespaces.
LEMMA HostProcess ==
  ASSUME Types, born < MaxBorn, NEW role \in Roles, NEW q \in {0} \cup Pids, NEW g \in 1 .. MaxBorn,
         NEW r, r = Process(role, q, g)
  PROVE  /\ r \in ProcType /\ r.start = born + 1 /\ r.parent = q /\ r.role = role /\ r.group = g
         /\ r.pidns = "host" /\ r.userns = "host" /\ ~r.zombie /\ ~r.hung /\ ~r.stopped
BY SandboxAssumption DEF Types, Process, ProcType, Spaces

\* Kin extends to a newcomer that is of a proper kind itself.
LEMMA KinGrows ==
  ASSUME Types, Kin, NEW p, p \notin Used, Used' = Used \cup {p}, \A q \in Used : table'[q] = table[q],
         born \in Nat, born' = born + 1, table'[p].start = born + 1,
         launcher' = launcher, guard' = guard,
         table'[p].role # "init", KinOf(p)'
  PROVE  Kin'
<1>1. ASSUME NEW q \in Used PROVE KinOf(q)'
  <2>1. KinOf(q) /\ table'[q] = table[q] /\ table[q].start \in Nat
    BY <1>1, UsedType, SandboxAssumption DEF Kin, ProcType
  <2>2. table[q].parent \in Used => table'[table[q].parent] = table[table[q].parent]
    OBVIOUS
  <2> QED
    BY <2>1, <2>2 DEF KinOf
<1>2. \A q \in Used : table[q].start < born + 1 /\ table[q].start \in Nat
  <2>1. \A q \in Used : KinOf(q) /\ table[q].start \in Nat
    BY UsedType, SandboxAssumption DEF Kin, ProcType
  <2> QED
    BY <2>1 DEF KinOf
<1>3. \A q1, q2 \in Used' : table'[q1].start = table'[q2].start => q1 = q2
  BY <1>2 DEF Kin
<1>4. \A q1, q2 \in Used' : table'[q1].role = "init" /\ table'[q2].role = "init" => q1 = q2
  BY DEF Kin
<1> QED
  BY <1>1, <1>3, <1>4 DEF Kin

\* A workload's fork.
LEMMA ForkAdds ==
  ASSUME Types, Kin, Fork
  PROVE  \E p \in Pids \ Used :
           /\ table' \in [Pids -> ProcType \cup {None}]
           /\ Used' = Used \cup {p} /\ \A q \in Used : table'[q] = table[q]
           /\ table'[p].role = "task" /\ table'[p].start = born + 1 /\ ~table'[p].zombie
           /\ table'[p].userns # "host"
           /\ table'[p].parent \in Used /\ table[table'[p].parent].role \in {"init", "task"}
           /\ guard.at = "exec" /\ Workload # {}
           /\ born' = born + 1 /\ born < MaxBorn
           /\ scan' = [scan EXCEPT !.reused = @ \/ p \in scan.pids]
<1>1. PICK q \in Workload, p \in Pids, n \in Nestings :
         Start(p, [Process("task", q, table[q].group) EXCEPT !.pidns = n[1], !.userns = n[2]])
  BY DEF Fork
<1> DEFINE r == [Process("task", q, table[q].group) EXCEPT !.pidns = n[1], !.userns = n[2]]
<1>2. p \notin Used /\ born < MaxBorn /\ born' = born + 1 /\ table' = [table EXCEPT ![p] = r]
      /\ scan' = [scan EXCEPT !.reused = @ \/ p \in scan.pids]
  BY <1>1 DEF Start
<1>3. q \in Used /\ q \in Pids /\ guard.at = "exec" /\ table[q].role \notin {"launcher", "stranger"}
  BY Subsets DEF Workload, Ours
<1>4. table[q].role \in {"init", "task"} /\ table[q].group \in 1 .. MaxBorn
  BY <1>3, UsedType DEF ProcType, Roles
<1>5. n[1] \in {"unit", "nested"} /\ n[2] \in {"unit", "nested"}
  BY SandboxAssumption
<1>6. "task" \in Roles /\ n[1] \in Spaces /\ n[2] \in Spaces /\ q \in {0} \cup Pids
  BY <1>3, <1>5 DEF Roles, Spaces
<1>7. r \in ProcType /\ r.start = born + 1 /\ r.parent = q /\ r.role = "task" /\ r.userns = n[2] /\ ~r.zombie
  <2> DEFINE b == Process("task", q, table[q].group)
  <2>1. r = [b EXCEPT !.pidns = n[1], !.userns = n[2]]
    OBVIOUS
  <2>2. b \in ProcType /\ b.start = born + 1 /\ b.parent = q /\ b.role = "task" /\ ~b.zombie
    BY <1>2, <1>4, <1>6, HostProcess
  <2> HIDE DEF r, b
  <2> QED
    BY <2>1, <2>2, <1>6 DEF ProcType
<1> HIDE DEF r
<1>8. /\ table' \in [Pids -> ProcType \cup {None}]
      /\ Used' = Used \cup {p} /\ table'[p] = r /\ \A q1 \in Used : table'[q1] = table[q1]
  BY <1>2, <1>7, Added
<1> QED
  BY <1>1, <1>2, <1>3, <1>4, <1>5, <1>7, <1>8

\* A stranger, the child of another or of the host's init.
LEMMA StrangerAdds ==
  ASSUME Types, Kin, StrangerStarts
  PROVE  \E p \in Pids \ Used :
           /\ table' \in [Pids -> ProcType \cup {None}]
           /\ Used' = Used \cup {p} /\ \A q \in Used : table'[q] = table[q]
           /\ table'[p].role = "stranger" /\ table'[p].start = born + 1 /\ ~table'[p].zombie
           /\ table'[p].userns = "host" /\ table'[p].pidns = "host"
           /\ \/ table'[p].parent = 0
              \/ table'[p].parent \in Used /\ table[table'[p].parent].role = "stranger"
           /\ born' = born + 1 /\ born < MaxBorn
           /\ scan' = [scan EXCEPT !.reused = @ \/ p \in scan.pids]
<1>1. PICK p \in Pids, q \in {0} \cup (Live \ Ours) : Start(p, Process("stranger", q, born + 1))
  BY DEF StrangerStarts
<1> DEFINE r == Process("stranger", q, born + 1)
<1>2. p \notin Used /\ born < MaxBorn /\ born' = born + 1 /\ table' = [table EXCEPT ![p] = r]
      /\ scan' = [scan EXCEPT !.reused = @ \/ p \in scan.pids]
  BY <1>1 DEF Start
<1>3. q = 0 \/ (q \in Used /\ q \in Pids /\ table[q].role = "stranger")
  BY Subsets DEF Ours
<1>4. born + 1 \in 1 .. MaxBorn /\ "stranger" \in Roles
  BY <1>2, SandboxAssumption DEF Types, Roles
<1>5. r \in ProcType /\ r.start = born + 1 /\ r.parent = q /\ r.role = "stranger" /\ r.userns = "host"
      /\ r.pidns = "host" /\ ~r.zombie
  BY <1>2, <1>3, <1>4, HostProcess
<1> HIDE DEF r
<1>6. /\ table' \in [Pids -> ProcType \cup {None}]
      /\ Used' = Used \cup {p} /\ table'[p] = r /\ \A q1 \in Used : table'[q1] = table[q1]
  BY <1>2, <1>5, Added
<1> QED
  BY <1>2, <1>3, <1>5, <1>6

\* The fork of the launcher: the one init.
LEMMA LauncherAdds ==
  ASSUME Types, Kin, LauncherForks
  PROVE  \E p \in Pids \ Used :
           /\ table' \in [Pids -> ProcType \cup {None}]
           /\ Used' = Used \cup {p} /\ p # launcher
           /\ \A q \in Used : q # launcher => table'[q] = table[q] /\ table[q].role = "stranger"
           /\ table'[p].role = "init" /\ table'[p].start = born + 1 /\ ~table'[p].zombie
           /\ table'[p].userns = "unit" /\ table'[p].pidns = "unit"
           /\ HasLauncher /\ launcher \in Pids
           /\ table'[launcher] = [table[launcher] EXCEPT !.userns = "unit"]
           /\ table'[launcher].start = table[launcher].start /\ table'[launcher].role = "launcher"
           /\ table'[launcher].parent = table[launcher].parent /\ table'[launcher].pidns = table[launcher].pidns
           /\ table'[launcher].zombie = table[launcher].zombie /\ table'[launcher].hung = table[launcher].hung
           /\ table'[launcher].userns = "unit"
           /\ born' = born + 1 /\ born < MaxBorn /\ guard.at = "none" /\ guard'.at = "setup"
<1>1. /\ launcher \in Used /\ launcher \in Pids /\ table[launcher] \in ProcType
      /\ guard.at = "none" /\ born < MaxBorn /\ born' = born + 1
      /\ guard' = [guard EXCEPT !.at = "setup"] /\ launcher \in Ours
  BY Subsets, UsedType DEF LauncherForks
<1>2. \A q \in Used : table[q].role \notin {"init", "task"} /\ (table[q].role = "launcher" => q = launcher)
  BY <1>1 DEF Kin, KinOf
<1>3. table[launcher].role = "launcher" /\ \A q \in Used : q # launcher => table[q].role = "stranger"
  BY <1>1, <1>2, UsedType DEF ProcType, Roles, Ours
<1> DEFINE r == [Process("init", launcher, table[launcher].group) EXCEPT !.pidns = "unit", !.userns = "unit"]
           l == [table[launcher] EXCEPT !.userns = "unit"]
<1>4. PICK p \in Pids \ Used : table' = [table EXCEPT ![launcher].userns = "unit", ![p] = r]
  BY DEF LauncherForks
<1>5. "unit" \in Spaces /\ "init" \in Roles /\ table[launcher].group \in 1 .. MaxBorn
  BY <1>1 DEF Spaces, Roles, ProcType
<1>6. r \in ProcType /\ r # None /\ r.start = born + 1 /\ r.role = "init" /\ r.pidns = "unit" /\ r.userns = "unit" /\ ~r.zombie
  <2> DEFINE b == Process("init", launcher, table[launcher].group)
  <2>1. r = [b EXCEPT !.pidns = "unit", !.userns = "unit"]
    OBVIOUS
  <2>2. b \in ProcType /\ b.start = born + 1 /\ b.role = "init" /\ ~b.zombie
    BY <1>1, <1>5, HostProcess
  <2> HIDE DEF r, b
  <2>3. r \in ProcType /\ r.start = born + 1 /\ r.role = "init" /\ r.pidns = "unit" /\ r.userns = "unit" /\ ~r.zombie
    BY <2>1, <2>2, <1>5 DEF ProcType
  <2> QED
    BY <2>3, NoneAssumption
<1>7. l \in ProcType /\ l # None /\ l.start = table[launcher].start /\ l.role = table[launcher].role
      /\ l.parent = table[launcher].parent /\ l.pidns = table[launcher].pidns /\ l.userns = "unit"
      /\ l.zombie = table[launcher].zombie /\ l.hung = table[launcher].hung
  BY <1>1, <1>5, NoneAssumption DEF ProcType
<1>8. p # launcher /\ table \in [Pids -> ProcType \cup {None}]
  BY <1>1, <1>4 DEF Types
<1>9. /\ table' \in [Pids -> ProcType \cup {None}]
      /\ table'[p] = r /\ table'[launcher] = l
      /\ \A q \in Pids : q # p /\ q # launcher => table'[q] = table[q]
  <2>1. table' = [[table EXCEPT ![launcher] = l] EXCEPT ![p] = r]
    BY <1>1, <1>4, <1>8
  <2> HIDE DEF r, l
  <2> QED
    BY <2>1, <1>1, <1>4, <1>6, <1>7, <1>8
<1>10. guard'.at = "setup"
  BY <1>1 DEF Types
<1> HIDE DEF r, l
<1>11. Used' = Used \cup {p}
  BY <1>9, <1>6, <1>7, <1>1, <1>4 DEF Used
<1> QED
  BY <1>1, <1>3, <1>4, <1>6, <1>7, <1>8, <1>9, <1>10, <1>11, Subsets DEF HasLauncher, l

\* The launcher, the first process of all.
LEMMA SpawnAdds ==
  ASSUME Types, Kin, Positions, Spawn
  PROVE  /\ table' \in [Pids -> ProcType \cup {None}]
         /\ Used = {} /\ Used' = {launcher'} /\ launcher' \in Pids
         /\ table'[launcher'].role = "launcher" /\ table'[launcher'].start = born + 1
         /\ table'[launcher'].parent = 0 /\ table'[launcher'].pidns = "host" /\ ~table'[launcher'].zombie
         /\ born' = born + 1 /\ born < MaxBorn
<1>1. Used = {} /\ born < MaxBorn /\ born' = born + 1 /\ Used # Pids /\ launcher' = Min(Pids \ Used)
      /\ table' = [table EXCEPT ![launcher'] = Process("launcher", 0, born + 1)]
  BY DEF Spawn, Positions
<1>2. launcher' \in Pids
  <2>1. Pids \ Used \in SUBSET Nat /\ Pids \ Used # {}
    BY <1>1, SandboxAssumption
  <2> QED
    BY <2>1, <1>1, LeastPid
<1> DEFINE r == Process("launcher", 0, born + 1)
<1>3. born + 1 \in 1 .. MaxBorn /\ "launcher" \in Roles
  BY <1>1, SandboxAssumption DEF Types, Roles
<1>4. r \in ProcType /\ r.start = born + 1 /\ r.parent = 0 /\ r.role = "launcher"
      /\ r.pidns = "host" /\ ~r.zombie
  BY <1>1, <1>3, HostProcess
<1> HIDE DEF r
<1>5. /\ table' \in [Pids -> ProcType \cup {None}]
      /\ Used' = Used \cup {launcher'} /\ table'[launcher'] = r
  BY <1>1, <1>2, <1>4, Added DEF r
<1> QED
  BY <1>1, <1>2, <1>4, <1>5

\* Every step preserves Kin.
LEMMA KinNext ==
  ASSUME Types, Kin, Positions, Identity, Next
  PROVE  Kin'
<1>0. born \in Nat
  BY SandboxAssumption DEF Types
<1>1. CASE Fading
  BY <1>1, KinFades
<1>2. CASE Fork
  <2>1. PICK p \in Pids \ Used :
           /\ Used' = Used \cup {p} /\ \A q \in Used : table'[q] = table[q]
           /\ table'[p].role = "task" /\ table'[p].start = born + 1 /\ ~table'[p].zombie
           /\ table'[p].userns # "host"
           /\ table'[p].parent \in Used /\ table[table'[p].parent].role \in {"init", "task"}
           /\ guard.at = "exec"
           /\ born' = born + 1
    BY <1>2, ForkAdds
  <2>2. PICK i \in Used : table[i].role = "init"
    BY <2>1 DEF Kin, KinOf
  <2>3. launcher' = launcher /\ guard' = guard
    BY <1>2 DEF Fork
  <2>4. KinOf(p)'
    BY <2>1, <2>2, <2>3, <1>0 DEF KinOf
  <2> QED
    BY <2>1, <2>3, <2>4, <1>0, KinGrows
<1>3. CASE StrangerStarts
  <2>1. PICK p \in Pids \ Used :
           /\ Used' = Used \cup {p} /\ \A q \in Used : table'[q] = table[q]
           /\ table'[p].role = "stranger" /\ table'[p].start = born + 1 /\ ~table'[p].zombie
           /\ table'[p].userns = "host" /\ table'[p].pidns = "host"
           /\ \/ table'[p].parent = 0
              \/ table'[p].parent \in Used /\ table[table'[p].parent].role = "stranger"
           /\ born' = born + 1
    BY <1>3, StrangerAdds
  <2>3. launcher' = launcher /\ guard' = guard
    BY <1>3 DEF StrangerStarts
  <2>4. KinOf(p)'
    BY <2>1, <2>3, <1>0 DEF KinOf
  <2> QED
    BY <2>1, <2>3, <2>4, <1>0, KinGrows
<1>4. CASE LauncherForks
  <2>1. PICK p \in Pids \ Used :
           /\ Used' = Used \cup {p} /\ p # launcher
           /\ \A q \in Used : q # launcher => table'[q] = table[q] /\ table[q].role = "stranger"
           /\ table'[p].role = "init" /\ table'[p].start = born + 1 /\ ~table'[p].zombie
           /\ table'[p].userns = "unit" /\ table'[p].pidns = "unit"
           /\ HasLauncher
           /\ table'[launcher].start = table[launcher].start /\ table'[launcher].role = "launcher"
           /\ table'[launcher].parent = table[launcher].parent /\ table'[launcher].pidns = table[launcher].pidns
           /\ table'[launcher].zombie = table[launcher].zombie
           /\ table'[launcher].userns = "unit"
           /\ born' = born + 1 /\ guard'.at = "setup"
    BY <1>4, LauncherAdds
  <2>3. launcher' = launcher /\ launcher \in Used
    BY <1>4, <2>1 DEF LauncherForks, HasLauncher
  <2>0. \A q \in Used : KinOf(q) /\ table[q].start \in Nat
    BY UsedType, SandboxAssumption DEF Kin, ProcType
  <2>4. KinOf(p)'
    BY <2>1, <2>3, <1>0 DEF KinOf
  <2>5. KinOf(launcher)'
    BY <2>0, <2>1, <2>3, <1>0 DEF KinOf, HasLauncher
  <2>6. ASSUME NEW q \in Used, q # launcher PROVE KinOf(q)'
    <3>1. table'[q] = table[q] /\ table[q].role = "stranger" /\ KinOf(q) /\ table[q].start \in Nat
      BY <2>0, <2>1, <2>6
    <3>2. table[q].parent \in Used /\ table[table[q].parent].role = "stranger" =>
            table'[table[q].parent] = table[table[q].parent]
      BY <2>1 DEF HasLauncher
    <3> QED
      BY <3>1, <3>2, <2>1, <1>0 DEF KinOf
  <2>7. \A q \in Used : table'[q].start = table[q].start /\ table[q].start < born + 1 /\ table'[q].role # "init"
    BY <2>0, <2>1, <1>0 DEF KinOf
  <2>8. \A q1, q2 \in Used' : table'[q1].start = table'[q2].start => q1 = q2
    BY <2>0, <2>1, <2>7, <1>0 DEF Kin
  <2>9. \A q1, q2 \in Used' : table'[q1].role = "init" /\ table'[q2].role = "init" => q1 = q2
    BY <2>1, <2>7
  <2>10. ASSUME NEW q \in Used' PROVE KinOf(q)'
    <3>1. q = p \/ q = launcher \/ (q \in Used /\ q # launcher)
      BY <2>1
    <3> QED
      BY <3>1, <2>4, <2>5, <2>6, <2>3 DEF KinOf
  <2> QED
    BY <2>8, <2>9, <2>10 DEF Kin
<1>5. CASE Spawn
  <2>1. guard' = guard /\ guard.at = "none"
    BY <1>5 DEF Spawn, Positions
  <2> QED
    BY <2>1, <1>5, <1>0, SpawnAdds DEF Kin, KinOf
<1> QED
  BY <1>1, <1>2, <1>3, <1>4, <1>5, FadingSteps

---------------------------------------------------------------------------
\* Every step preserves the types.
LEMMA TypesNext ==
  ASSUME Types, Kin, Positions, Next
  PROVE  Types'
<1> USE SandboxAssumption
<1>1. table' \in [Pids -> ProcType \cup {None}] /\ born' \in 0 .. MaxBorn /\ launcher' \in Pids \cup {None}
  <2>0. born \in 0 .. MaxBorn /\ launcher \in Pids \cup {None}
    BY DEF Types
  <2>1. CASE Fading
    BY <2>0, <2>1 DEF Fading, Fades
  <2>2. CASE Fork
    <3>1. launcher' = launcher
      BY <2>2 DEF Fork
    <3> QED
      BY <2>0, <2>2, <3>1, ForkAdds
  <2>3. CASE StrangerStarts
    BY <2>0, <2>3, StrangerAdds DEF StrangerStarts
  <2>4. CASE LauncherForks
    <3>1. launcher' = launcher
      BY <2>4 DEF LauncherForks
    <3> QED
      BY <2>0, <2>4, <3>1, LauncherAdds
  <2>5. CASE Spawn
    BY <2>0, <2>5, SpawnAdds
  <2> QED
    BY <2>1, <2>2, <2>3, <2>4, <2>5, FadingSteps
<1>2. /\ guard' \in [problem : BOOLEAN, at : {"none", "setup", "reported", "exec", "dead"}]
      /\ pipe' \in {"empty", "ok", "bad"}
  <2>0. /\ guard \in [problem : BOOLEAN, at : {"none", "setup", "reported", "exec", "dead"}]
        /\ pipe \in {"empty", "ok", "bad"}
    BY DEF Types
  <2>1. CASE LauncherForks
    BY <2>0, <2>1 DEF LauncherForks
  <2>2. CASE GuardReports
    <3>1. \/ \E problem \in BOOLEAN : guard' = [problem |-> problem, at |-> "reported"]
          \/ guard' = [problem |-> TRUE, at |-> "dead"]
      BY <2>2 DEF GuardReports
    <3>2. pipe' \in {"ok", "bad"}
      BY <2>2 DEF GuardReports
    <3>3. \A b \in BOOLEAN : \A at \in {"none", "setup", "reported", "exec", "dead"} :
            [problem |-> b, at |-> at] \in [problem : BOOLEAN, at : {"none", "setup", "reported", "exec", "dead"}]
      OBVIOUS
    <3> QED
      BY <3>1, <3>2, <3>3
  <2>3. CASE GuardExecs
    BY <2>0, <2>3 DEF GuardExecs
  <2>4. CASE UNCHANGED <<guard, pipe>>
    BY <2>0, <2>4
  <2> QED
    BY <2>1, <2>2, <2>3, <2>4
       DEF Next, Kernel, Guard, Supervisor, Terminating, LauncherExits, Fork, WorkloadStep, LauncherHangs,
           StrangerStarts, StrangerExits, TermBegin, TermEnd, Deadline, ScanBegin, ScanRead, HuntScanned,
           HuntKill, HuntExpired, Conclude, Spawn, Locate, Report, ReadNamespaces, ReadStarts, Inspect,
           Poll, Isolate, Terminate
<1>3. /\ spc' \in {"idle", "locate", "report", "names", "starts", "inspect", "running", "abort", "term",
                   "grace", "hunt", "kill", "final", "done", "failed"}
      /\ late' \in BOOLEAN /\ frozen' \in BOOLEAN
      /\ ustate' \in {"UNPREPARED", "STARTING", "RUNNING", "TERMINATING", "TERMINATED", "KILL_FAILED", "FAILED"}
  <2>0. /\ spc \in {"idle", "locate", "report", "names", "starts", "inspect", "running", "abort", "term",
                   "grace", "hunt", "kill", "final", "done", "failed"}
        /\ late \in BOOLEAN /\ frozen \in BOOLEAN
        /\ ustate \in {"UNPREPARED", "STARTING", "RUNNING", "TERMINATING", "TERMINATED", "KILL_FAILED", "FAILED"}
    BY DEF Types
  <2>1. CASE UNCHANGED <<spc, late, frozen, ustate>>
    BY <2>0, <2>1
  <2>2. CASE Spawn \/ Locate \/ Report \/ ReadNamespaces \/ ReadStarts \/ Inspect \/ Isolate \/ Terminate
    BY <2>0, <2>2 DEF Spawn, Locate, Report, ReadNamespaces, ReadStarts, Inspect, Isolate, Terminate
  <2>3. CASE TermBegin \/ TermEnd
    BY <2>0, <2>3 DEF TermBegin, TermEnd, Resume
  <2>4. CASE Deadline \/ HuntScanned \/ HuntKill \/ HuntExpired \/ Conclude
    BY <2>0, <2>4 DEF Deadline, HuntScanned, HuntKill, HuntExpired, Conclude
  <2> QED
    BY <2>1, <2>2, <2>3, <2>4
       DEF Next, Kernel, Guard, Supervisor, Terminating, LauncherForks, LauncherExits, Fork, WorkloadStep,
           LauncherHangs, StrangerStarts, StrangerExits, GuardReports, GuardExecs, Poll, ScanBegin, ScanRead
<1>4. /\ box' \in Pids \cup {None}
      /\ ident' \in [lstart : 1 .. MaxBorn \cup {None}, sstart : 1 .. MaxBorn \cup {None},
                     pidns : Spaces \cup {None}, userns : Spaces \cup {None}, stale : BOOLEAN]
  <2>0. /\ box \in Pids \cup {None}
        /\ ident \in [lstart : 1 .. MaxBorn \cup {None}, sstart : 1 .. MaxBorn \cup {None},
                      pidns : Spaces \cup {None}, userns : Spaces \cup {None}, stale : BOOLEAN]
    BY DEF Types
  <2>1. CASE UNCHANGED <<box, ident>>
    BY <2>0, <2>1
  <2>2. CASE Locate
    <3> DEFINE kids == {p \in Used : table[p].parent = launcher}
    <3>1. kids \in SUBSET Nat /\ kids \subseteq Pids
      BY Subsets
    <3>2. kids # {} => Min(kids) \in Pids
      BY <3>1, LeastPid
    <3> QED
      BY <3>2, <2>0, <2>2 DEF Locate
  <2>3. \A p \in Used : /\ table[p].start \in 1 .. MaxBorn /\ table[p].pidns \in Spaces /\ table[p].userns \in Spaces
    BY UsedType DEF ProcType
  <2>4. CASE ReadNamespaces
    BY <2>0, <2>3, <2>4 DEF ReadNamespaces, Sandboxed
  <2>5. CASE ReadStarts
    <3>1. launcher \in Used
      BY <2>5 DEF ReadStarts, Positions, HasLauncher
    <3> QED
      BY <2>0, <2>3, <2>5, <3>1 DEF ReadStarts, Sandboxed
  <2>6. CASE Inspect
    BY <2>0, <2>3, <2>6 DEF Inspect
  <2> QED
    BY <2>1, <2>2, <2>4, <2>5, <2>6
       DEF Next, Kernel, Guard, Supervisor, Terminating, LauncherForks, LauncherExits, Fork, WorkloadStep,
           LauncherHangs, StrangerStarts, StrangerExits, GuardReports, GuardExecs, TermBegin, TermEnd, Deadline,
           ScanBegin, ScanRead, HuntScanned, HuntKill, HuntExpired, Conclude, Spawn, Report, Poll, Isolate, Terminate
<1>5. scan' \in [on : BOOLEAN, pids : SUBSET Pids, todo : SUBSET Pids,
                 seen : [Pids -> Shown \cup {None}], reused : BOOLEAN]
  <2>0. scan \in [on : BOOLEAN, pids : SUBSET Pids, todo : SUBSET Pids,
                  seen : [Pids -> Shown \cup {None}], reused : BOOLEAN]
    BY DEF Types
  <2>1. CASE UNCHANGED scan
    BY <2>0, <2>1
  <2>2. NoScan \in [on : BOOLEAN, pids : SUBSET Pids, todo : SUBSET Pids,
                    seen : [Pids -> Shown \cup {None}], reused : BOOLEAN]
    BY DEF NoScan, Blank
  <2>3. CASE Fork
    BY <2>0, <2>3, ForkAdds
  <2>4. CASE StrangerStarts
    BY <2>0, <2>4, StrangerAdds
  <2>5. CASE ScanBegin
    BY <2>0, <2>2, <2>5, Subsets DEF ScanBegin
  <2>6. CASE ScanRead
    <3>1. \A p \in Pids : ProcRecord(p) \in Shown \cup {None}
      BY UsedType DEF ProcRecord, ProcType, Shown
    <3>2. scan.todo \in SUBSET Nat /\ scan.todo # {}
      BY <2>0, <2>6 DEF ScanRead
    <3>3. PICK p \in Pids : scan' = [scan EXCEPT !.todo = @ \ {p}, !.seen[p] = ProcRecord(p)]
      BY <2>0, <2>6, <3>2, LeastPid DEF ScanRead
    <3> QED
      BY <3>1, <3>3, <2>0
  <2>7. CASE HuntScanned \/ HuntKill \/ Conclude
    BY <2>0, <2>2, <2>7 DEF HuntScanned, HuntKill, Conclude
  <2> QED
    BY <2>1, <2>3, <2>4, <2>5, <2>6, <2>7
       DEF Next, Kernel, Guard, Supervisor, Terminating, LauncherForks, LauncherExits, WorkloadStep, LauncherHangs,
           StrangerExits, GuardReports, GuardExecs, TermBegin, TermEnd, Deadline, HuntExpired, Spawn, Locate, Report,
           ReadNamespaces, ReadStarts, Inspect, Poll, Isolate, Terminate
<1> QED
  BY <1>1, <1>2, <1>3, <1>4, <1>5 DEF Types

---------------------------------------------------------------------------
\* A step that leaves the supervisor where it is, and one that may not.
Quiet == UNCHANGED <<spc, ustate, box, ident, launcher>>

Decisive ==
  \/ Spawn \/ Locate \/ Report \/ ReadNamespaces \/ ReadStarts \/ Inspect \/ Terminate \/ TermBegin \/ TermEnd
  \/ HuntScanned \/ HuntKill \/ HuntExpired \/ Conclude

\* Every step is one or the other.
LEMMA QuietSteps ==
  ASSUME Next
  PROVE  Quiet \/ Decisive
BY DEF Quiet, Decisive, Next, Kernel, Guard, Supervisor, Terminating, LauncherForks, LauncherExits, Fork,
       WorkloadStep, LauncherHangs, StrangerStarts, StrangerExits, GuardReports, GuardExecs, Poll, Isolate,
       Deadline, ScanBegin, ScanRead

\* Only the supervisor's reaping takes the launcher out of the table.
LEMMA Kept ==
  ASSUME Types, Kin, HasLauncher, Next, ~Poll, ~TermBegin, ~TermEnd, ~Spawn
  PROVE  HasLauncher'
<1>0. launcher' = launcher
  BY DEF Next, Kernel, Guard, Supervisor, Terminating, LauncherForks, LauncherExits, Fork,
         WorkloadStep, LauncherHangs, StrangerStarts, StrangerExits, GuardReports, GuardExecs, Poll, Isolate,
         Deadline, ScanBegin, ScanRead, Locate, Report, ReadNamespaces, ReadStarts, Inspect, Terminate,
         HuntScanned, HuntKill, HuntExpired, Conclude
<1>h. launcher \in Used /\ launcher \in Pids /\ table[launcher].role = "launcher"
  BY Subsets DEF HasLauncher
<1>f. ASSUME Fading, table'[launcher] # None PROVE HasLauncher'
  BY <1>f, <1>h, <1>0 DEF Fading, Fades, HasLauncher, Used
<1>1. CASE Fork
  BY <1>1, <1>0, <1>h, ForkAdds DEF HasLauncher
<1>2. CASE StrangerStarts
  BY <1>2, <1>0, <1>h, StrangerAdds DEF HasLauncher
<1>3. CASE LauncherForks
  BY <1>3, <1>0, <1>h, LauncherAdds DEF HasLauncher
<1>4. ASSUME NEW S \in SUBSET Live, table' = Without(S) PROVE table'[launcher] # None
  BY <1>4, <1>h, WithoutSpares
<1>5. CASE LauncherExits \/ StrangerExits \/ HuntKill
  <2>1. \E S \in SUBSET Live : table' = Without(S)
    BY <1>5, Subsets DEF LauncherExits, StrangerExits, HuntKill
  <2>3. table'[launcher] # None
    BY <2>1, <1>4
  <2> QED
    BY <2>3, <1>1, <1>2, <1>3, <1>f, FadingSteps
<1>6. CASE WorkloadStep
  <2>1. PICK p \in Workload :
           \/ table' = Without({p})
           \/ table' = [table EXCEPT ![p].group = table[p].start]
           \/ table' = [table EXCEPT ![p].hung = TRUE]
    BY <1>6 DEF WorkloadStep
  <2>2. p \in Live /\ p \in Used /\ table[p].start \in 1 .. MaxBorn
    BY Subsets, UsedType DEF ProcType
  <2>3. CASE table' = Without({p})
    BY <2>2, <2>3, <1>4, <1>1, <1>2, <1>3, <1>f, FadingSteps
  <2>4. CASE table' = [table EXCEPT ![p].group = table[p].start]
    BY <2>2, <2>4, <1>h, GroupLeft, <1>1, <1>2, <1>3, <1>f, FadingSteps
  <2>5. CASE table' = [table EXCEPT ![p].hung = TRUE]
    BY <2>2, <2>5, <1>h, HungUp, <1>1, <1>2, <1>3, <1>f, FadingSteps
  <2> QED
    BY <2>1, <2>3, <2>4, <2>5
<1>7. CASE LauncherHangs
  <2>1. table'[launcher] # None
    BY <1>7, <1>h, HungUp DEF LauncherHangs
  <2> QED
    BY <2>1, <1>1, <1>2, <1>3, <1>f, FadingSteps
<1>8. CASE GuardReports \/ GuardExecs
  <2>1. table' = table \/ table' = Without(Inits)
    BY <1>8 DEF GuardReports, GuardExecs
  <2>2. table'[launcher] # None
    BY <2>1, <1>4, <1>h, Subsets DEF Used
  <2> QED
    BY <2>2, <1>1, <1>2, <1>3, <1>f, FadingSteps
<1>9. CASE Isolate
  <2>1. GroupOf(box) \in SUBSET Used
    BY DEF GroupOf, Live
  <2>2. table'[launcher] # None
    BY <2>1, <1>9, <1>h, Frozen DEF Isolate
  <2> QED
    BY <2>2, <1>1, <1>2, <1>3, <1>f, FadingSteps
<1>10. CASE UNCHANGED table
  BY <1>10, <1>0, <1>h DEF HasLauncher, Used
<1> QED
  BY <1>1, <1>2, <1>3, <1>5, <1>6, <1>7, <1>8, <1>9, <1>10
     DEF Next, Kernel, Guard, Supervisor, Terminating, Deadline, ScanBegin, ScanRead, Locate, Report,
         ReadNamespaces, ReadStarts, Inspect, Terminate, HuntScanned, HuntExpired, Conclude

\* A launcher that hangs goes on hanging, and no other process becomes one.
LEMMA StillHung ==
  ASSUME Types, Kin, Next, ~Spawn,
         \A p \in Used : table[p].role = "launcher" => table[p].hung /\ ~table[p].zombie
  PROVE  \A p \in Used' : table'[p].role = "launcher" => table'[p].hung /\ ~table'[p].zombie
<1>1. CASE Fading
  BY <1>1 DEF Fading, Fades, Used
<1>2. CASE Fork
  BY <1>2, ForkAdds
<1>3. CASE StrangerStarts
  BY <1>3, StrangerAdds
<1>4. CASE LauncherForks
  BY <1>4, LauncherAdds DEF HasLauncher
<1> QED
  BY <1>1, <1>2, <1>3, <1>4, FadingSteps

\* Before the launch there is no process, and none comes.
LEMMA NoneBorn ==
  ASSUME Types, Kin, Next, ~Spawn, Used = {}, spc = "idle"
  PROVE  Used' = {} /\ (guard'.at = "none" <=> guard.at = "none")
<1>1. ~Fork /\ ~StrangerStarts /\ ~LauncherForks
  BY Subsets DEF Fork, StrangerStarts, LauncherForks
<1>2. Fading
  BY <1>1, FadingSteps
<1> QED
  BY <1>2 DEF Fading, Fades, Used

\* Every step preserves Positions.
LEMMA PositionsNext ==
  ASSUME Types, Kin, Positions, Next
  PROVE  Positions'
<1>1. CASE Quiet
  <2>1. spc' = "idle" => Used' = {} /\ guard'.at = "none"
    BY <1>1, NoneBorn DEF Quiet, Positions, Spawn
  <2>2. spc' \in {"locate", "report", "names", "starts", "grace"} => HasLauncher'
    <3>1. spc' = spc
      BY <1>1 DEF Quiet
    <3>2. Poll => spc = "running"
      BY DEF Poll
    <3>3. TermBegin => spc' \in {"failed", "hunt", "grace"} /\ spc \in {"term", "abort"}
      BY DEF TermBegin, Resume
    <3>4. TermEnd => spc = "grace" /\ spc' \in {"failed", "hunt"}
      BY DEF TermEnd, Resume
    <3>5. Spawn => spc = "idle"
      BY DEF Spawn
    <3> QED
      BY <3>1, <3>2, <3>3, <3>4, <3>5, Kept DEF Positions
  <2>3. spc' \in {"hunt", "kill", "final", "done", "failed"} =>
           \A p \in Used' : table'[p].role = "launcher" => table'[p].hung /\ ~table'[p].zombie
    <3>1. spc' = spc
      BY <1>1 DEF Quiet
    <3>2. Spawn => spc = "idle"
      BY DEF Spawn
    <3> QED
      BY <3>1, <3>2, StillHung DEF Positions
  <2>4. Launched' = Launched /\ spc' = spc /\ ustate' = ustate
    BY <1>1 DEF Quiet, Launched
  <2> QED
    BY <2>1, <2>2, <2>3, <2>4 DEF Positions
<1>2. CASE Spawn
  <2>1. spc' = "locate" /\ ustate' = "STARTING" /\ HasLauncher'
    BY <1>2, SpawnAdds DEF Spawn, HasLauncher
  <2> QED
    BY <2>1 DEF Positions, Launched
<1>3. CASE Locate \/ Report \/ ReadNamespaces
  <2>1. /\ spc \in {"locate", "report", "names"} /\ spc' \in {"report", "names", "abort", "starts"}
        /\ ustate' = ustate /\ UNCHANGED <<table, launcher>>
    BY <1>3 DEF Locate, Report, ReadNamespaces
  <2>2. Positions /\ HasLauncher' = HasLauncher
    BY <2>1 DEF HasLauncher, Used
  <2>3. ustate = "STARTING"
    BY <2>1 DEF Positions
  <2> QED
    BY <2>1, <2>2, <2>3 DEF Positions, Launched
<1>4. CASE ReadStarts \/ Inspect \/ Terminate
  <2>1. /\ spc \in {"starts", "inspect", "running"}
        /\ \/ spc' = "inspect" /\ ustate' = "RUNNING"
           \/ spc' = "running" /\ spc = "inspect" /\ ustate' = ustate
           \/ spc' = "term" /\ ustate' = "TERMINATING"
    BY <1>4 DEF ReadStarts, Inspect, Terminate
  <2> QED
    BY <2>1 DEF Positions, Launched
<1>5. ASSUME TermBegin \/ TermEnd, Resume, ustate \in {"STARTING", "TERMINATING"},
             \A q \in Used' : table'[q].role = "launcher" => table'[q].hung /\ ~table'[q].zombie
      PROVE  Positions'
  <2>1. \/ spc' = "failed" /\ ustate' = "FAILED"
        \/ spc' = "hunt" /\ ustate' = "TERMINATING"
    BY <1>5 DEF Resume
  <2> QED
    BY <2>1, <1>5 DEF Positions, Launched
<1>6. CASE TermBegin
  <2>1. spc \in {"term", "abort"} /\ ustate \in {"STARTING", "TERMINATING"} /\ launcher' = launcher
    BY <1>6 DEF TermBegin, Positions
  <2>2. CASE Reaped(table) # table /\ table' = Reaped(table) /\ Resume
    <3>1. table'[launcher] = None /\ Fades(table, table')
      BY <2>2, SameFades, ReapedFades
    <3>2. \A q \in Used' : table'[q].role # "launcher"
      BY <3>1 DEF Fades, Used, Kin, KinOf
    <3> QED
      BY <3>2, <2>1, <2>2, <1>5, <1>6
  <2>3. CASE /\ HasLauncher /\ spc' = "grace" /\ ustate' = ustate
             /\ \E S \in SUBSET GroupOf(launcher) : table' = Without(S)
    <3>1. PICK S \in SUBSET Live : table' = Without(S)
      BY <2>3 DEF GroupOf
    <3>2. Fades(table, table') /\ table'[launcher] # None /\ launcher \in Pids
      BY <3>1, <2>3, WithoutFades, WithoutSpares DEF HasLauncher, Used
    <3>3. HasLauncher'
      BY <3>2, <2>1, <2>3 DEF Fades, HasLauncher, Used
    <3> QED
      BY <2>1, <2>3, <3>3 DEF Positions, Launched
  <2>4. CASE ~HasLauncher /\ table' = table /\ Resume
    <3>1. \A q \in Used' : table'[q].role # "launcher"
      BY <2>4 DEF Used, Kin, KinOf, HasLauncher
    <3> QED
      BY <3>1, <2>1, <2>4, <1>5, <1>6
  <2> QED
    BY <1>6, <2>2, <2>3, <2>4 DEF TermBegin
<1>7. CASE TermEnd
  <2>1. /\ spc = "grace" /\ ustate \in {"STARTING", "TERMINATING"} /\ launcher' = launcher /\ Resume
        /\ launcher \in Used /\ launcher \in Pids /\ table[launcher].role = "launcher" /\ HasLauncher
    BY <1>7, Subsets DEF TermEnd, Positions, HasLauncher
  <2>2. CASE Reaped(table) # table /\ table' = Reaped(table)
    <3>1. table'[launcher] = None /\ Fades(table, table')
      BY <2>2, SameFades, ReapedFades
    <3>2. \A q \in Used' : table'[q].role # "launcher"
      BY <3>1 DEF Fades, Used, Kin, KinOf
    <3> QED
      BY <3>2, <2>1, <2>2, <1>5, <1>7
  <2>3. CASE Reaped(table) = table /\ table' = Reaped(Without(GroupOf(launcher)))
    <3> DEFINE S == GroupOf(launcher)
               t == Without(S)
    <3>1. S \in SUBSET Live /\ Fades(table, t)
      BY WithoutFades DEF GroupOf
    <3>2. ~table[launcher].zombie
      BY <2>1, <2>3, SameFades, ReapedFades DEF Used
    <3>3. launcher \in S
      BY <2>1, <3>2 DEF GroupOf, Live
    <3>4. t[launcher] # None /\ (~table[launcher].hung => t[launcher].zombie)
      BY <2>1, <3>1, <3>3, WithoutSpares
    <3>5. Fades(table, table') /\ (~table[launcher].hung => table'[launcher] = None)
      BY <2>1, <2>3, <3>1, <3>4, ReapedFades
    <3>6. \A q \in Used' : table'[q].role = "launcher" => table'[q].hung /\ ~table'[q].zombie
      BY <3>2, <3>5, <2>1 DEF Fades, Used, Kin, KinOf
    <3> QED
      BY <3>6, <2>1, <1>5, <1>7
  <2> QED
    BY <1>7, <2>2, <2>3 DEF TermEnd
<1>8. CASE HuntScanned \/ HuntKill \/ HuntExpired \/ Conclude
  <2>1. /\ spc \in {"hunt", "kill", "final"} /\ spc' \in {"hunt", "kill", "final", "done"} /\ ~Spawn
        /\ \/ ustate' = ustate
           \/ ustate' \in {"TERMINATED", "KILL_FAILED"} /\ spc' = "done"
    BY <1>8 DEF HuntScanned, HuntKill, HuntExpired, Conclude, Spawn
  <2>2. \A p \in Used' : table'[p].role = "launcher" => table'[p].hung /\ ~table'[p].zombie
    BY <2>1, StillHung DEF Positions
  <2> QED
    BY <2>1, <2>2 DEF Positions, Launched
<1> QED
  BY <1>1, <1>2, <1>3, <1>4, <1>6, <1>7, <1>8, QuietSteps DEF Decisive

---------------------------------------------------------------------------
\* Who is in the table after a step: those who were, as they were, and
\* perhaps a newcomer, who is a task or a stranger once the unit has its init.
Stays(p) ==
  /\ p \in Used
  /\ table'[p].start = table[p].start /\ table'[p].role = table[p].role /\ table'[p].pidns = table[p].pidns
  /\ guard.at # "none" => table'[p].userns = table[p].userns
  /\ table[p].zombie => table'[p].zombie

Comes(p) ==
  /\ p \in Pids \ Used /\ table'[p].start = born + 1 /\ born' = born + 1
  /\ table'[p].role = "init" => guard.at = "none"
  /\ table'[p].role = "launcher" => spc = "idle"
  /\ spc # "idle" /\ guard.at # "none" => scan' = [scan EXCEPT !.reused = @ \/ p \in scan.pids]

\* Every process after a step stayed or came.
LEMMA Newcomers ==
  ASSUME Types, Kin, Positions, Next
  PROVE  /\ born \in Nat /\ born' \in Nat /\ born <= born'
         /\ guard.at # "none" => guard'.at # "none"
         /\ \A p \in Used' : Stays(p) \/ Comes(p)
<1>0. born \in Nat
  BY SandboxAssumption DEF Types
<1>1. CASE Fading
  BY <1>0, <1>1 DEF Fading, Fades, Used, Stays
<1>2. CASE Fork
  <2>1. guard' = guard
    BY <1>2 DEF Fork
  <2> QED
    BY <1>0, <1>2, <2>1, ForkAdds DEF Stays, Comes
<1>3. CASE StrangerStarts
  <2>1. guard' = guard
    BY <1>3 DEF StrangerStarts
  <2> QED
    BY <1>0, <1>3, <2>1, StrangerAdds DEF Stays, Comes
<1>4. CASE LauncherForks
  BY <1>0, <1>4, LauncherAdds DEF Stays, Comes, HasLauncher
<1>5. CASE Spawn
  <2>1. spc = "idle" /\ guard' = guard
    BY <1>5 DEF Spawn
  <2> QED
    BY <1>0, <1>5, <2>1, SpawnAdds DEF Comes
<1> QED
  BY <1>1, <1>2, <1>3, <1>4, <1>5, FadingSteps

\* Steps that do not touch the recorded identity keep what it is worth: a
\* newcomer is younger than both of its start times.
LEMMA IdentityKept ==
  ASSUME Types, Kin, Positions, Identity, Next, UNCHANGED <<box, ident>>, Launched' => Launched,
         spc' \in {"names", "starts"} => spc' = spc
  PROVE  Identity'
<1>0. /\ born \in Nat /\ born' \in Nat /\ born <= born'
      /\ guard.at # "none" => guard'.at # "none"
      /\ \A p \in Used' : Stays(p) \/ Comes(p)
  BY Newcomers
<1>1. spc' \in {"names", "starts"} \/ Launched' => box' # None
  BY DEF Identity
<1>2. box' # None => guard'.at # "none" /\ \A p \in Used' : table'[p].role = "init" => p = box'
  BY <1>0 DEF Identity, Stays, Comes
<1>3. spc' = "starts" \/ Launched' =>
        /\ \A p \in Used' : table'[p].role = "init" => ident'.pidns = "unit"
        /\ ~ident'.stale => ident'.pidns = "unit" /\ ident'.userns = "unit"
  BY <1>0 DEF Identity, Stays, Comes
<1>4. ASSUME Launched'
      PROVE  /\ ident'.lstart \in 1 .. born'
             /\ \A p \in Used' : table'[p].start = ident'.lstart <=> table'[p].role = "launcher"
             /\ ~ident'.stale => /\ ident'.sstart \in 1 .. born'
                                 /\ \A p \in Used' : table'[p].start = ident'.sstart => table'[p].role = "init"
  <2>1. Launched /\ spc # "idle"
    BY <1>4 DEF Positions, Launched
  <2>2. ident.lstart \in 1 .. born /\ (~ident.stale => ident.sstart \in 1 .. born)
    BY <2>1 DEF Identity
  <2>3. ident.lstart \in 1 .. born' /\ ident.lstart # born + 1
    BY <2>2, <1>0
  <2>4. ~ident.stale => ident.sstart \in 1 .. born' /\ ident.sstart # born + 1
    BY <2>2, <1>0
  <2>5. \A p \in Used' : table'[p].start = ident.lstart <=> table'[p].role = "launcher"
    BY <2>1, <2>3, <1>0 DEF Identity, Stays, Comes
  <2>6. ~ident.stale => \A p \in Used' : table'[p].start = ident.sstart => table'[p].role = "init"
    BY <2>1, <2>4, <1>0 DEF Identity, Stays, Comes
  <2> QED
    BY <2>3, <2>4, <2>5, <2>6
<1> QED
  BY <1>1, <1>2, <1>3, <1>4 DEF Identity

\* Every step preserves Identity; the looks at launch establish it.
LEMMA IdentityNext ==
  ASSUME Types, Kin, Positions, Identity, Next
  PROVE  Identity'
<1>1. CASE Quiet
  BY <1>1, IdentityKept DEF Quiet, Launched
<1>2. CASE Spawn
  <2>1. spc = "idle" /\ spc' = "locate" /\ ustate' = "STARTING" /\ UNCHANGED <<box, ident>>
    BY <1>2 DEF Spawn
  <2> QED
    BY <2>1, IdentityKept DEF Launched
<1>3. CASE Locate
  <2>1. spc = "locate" /\ spc' = "report" /\ ~Launched' /\ UNCHANGED <<table, guard>> /\ HasLauncher
    BY <1>3 DEF Locate, Positions, Launched
  <2> DEFINE kids == {p \in Used : table[p].parent = launcher}
  <2>2. \A p \in kids : table[p].role = "init"
    <3>1. launcher \in Used /\ table[launcher].role = "launcher" /\ launcher # 0
      BY <2>1, SandboxAssumption, Subsets DEF HasLauncher
    <3>2. \A p \in Used : KinOf(p) /\ table[p].role \in {"launcher", "init", "task", "stranger"}
      BY UsedType DEF Kin, ProcType, Roles
    <3> QED
      BY <3>1, <3>2 DEF KinOf
  <2>3. kids # {} => Min(kids) \in kids
    BY LeastPid, Subsets, SandboxAssumption
  <2>4. box' # None => /\ box' \in Used /\ table[box'].role = "init"
    BY <1>3, <2>2, <2>3 DEF Locate
  <2>5. box' # None => guard.at # "none" /\ \A p \in Used : table[p].role = "init" => p = box'
    BY <2>4 DEF Kin, KinOf
  <2> QED
    BY <2>1, <2>5 DEF Identity, Used
<1>4. CASE Report
  <2>1. spc = "report" /\ ~Launched' /\ UNCHANGED <<table, guard, box>> /\ (spc' = "names" => box # None) /\ spc' # "starts"
    BY <1>4 DEF Report, Positions, Launched
  <2> QED
    BY <2>1 DEF Identity, Used
<1>5. CASE ReadNamespaces
  <2>1. /\ spc = "names" /\ spc' = "starts" /\ ~Launched' /\ UNCHANGED <<table, guard, box>> /\ box # None
    BY <1>5 DEF ReadNamespaces, Positions, Launched, Identity
  <2>2. /\ ident'.pidns = (IF box \in Used THEN table[box].pidns ELSE None)
        /\ ident'.userns = (IF box \in Used THEN table[box].userns ELSE None)
        /\ ident'.stale = ~Sandboxed
    BY <1>5 DEF ReadNamespaces, Types
  <2>3. \A p \in Used : table[p].role = "init" => p = box /\ table[p].pidns = "unit" /\ table[p].userns = "unit"
    BY <2>1 DEF Identity, Kin, KinOf
  <2> QED
    BY <2>1, <2>2, <2>3 DEF Identity, Used, Sandboxed
<1>6. CASE ReadStarts
  <2>1. /\ spc = "starts" /\ spc' = "inspect" /\ UNCHANGED <<table, guard, box, born>>
        /\ box # None /\ HasLauncher
    BY <1>6 DEF ReadStarts, Positions, Identity
  <2>2. /\ ident'.lstart = table[launcher].start
        /\ ident'.sstart = (IF box \in Used THEN table[box].start ELSE None)
        /\ ident'.stale = (ident.stale \/ ~Sandboxed)
        /\ ident'.pidns = ident.pidns /\ ident'.userns = ident.userns
    BY <1>6 DEF ReadStarts, Types
  <2>3. \A p \in Used : table[p].start \in 1 .. born
    <3>1. \A p \in Used : table[p].start \in 1 .. MaxBorn /\ table[p].start <= born
      BY UsedType DEF ProcType, Kin, KinOf
    <3> QED
      BY <3>1, SandboxAssumption DEF Types
  <2>4. \A p \in Used : table[p].start = ident'.lstart <=> table[p].role = "launcher"
    BY <2>1, <2>2 DEF Kin, KinOf, HasLauncher
  <2>5. ~ident'.stale => /\ ident'.sstart \in 1 .. born
                         /\ \A p \in Used : table[p].start = ident'.sstart => table[p].role = "init"
    BY <2>2, <2>3 DEF Sandboxed, Kin
  <2>6. ident'.lstart \in 1 .. born
    BY <2>1, <2>2, <2>3 DEF HasLauncher
  <2>7. /\ \A p \in Used : table[p].role = "init" => ident'.pidns = "unit" /\ p = box
        /\ ~ident'.stale => ident'.pidns = "unit" /\ ident'.userns = "unit"
        /\ guard.at # "none"
    BY <2>1, <2>2 DEF Identity
  <2> QED
    BY <2>1, <2>4, <2>5, <2>6, <2>7 DEF Identity, Used
<1>7. CASE Inspect
  <2>1. /\ spc = "inspect" /\ spc' = "running" /\ UNCHANGED <<table, guard, box, born, ustate>> /\ Launched
    BY <1>7 DEF Inspect, Positions
  <2>2. CASE ident' = ident
    BY <2>1, <2>2, IdentityKept DEF Launched
  <2>3. CASE /\ ident.pidns = None
             /\ ident' = [ident EXCEPT !.pidns = table[box].pidns, !.userns = table[box].userns]
    <3>1. /\ ident'.stale = ident.stale /\ ident'.lstart = ident.lstart /\ ident'.sstart = ident.sstart
      BY <2>3 DEF Types
    <3>2. None # "unit"
      BY NoneAssumption DEF Spaces
    <3>3. ident.stale /\ \A p \in Used : table[p].role # "init"
      BY <2>1, <2>3, <3>2 DEF Identity
    <3> QED
      BY <2>1, <3>1, <3>3 DEF Identity, Used, Launched
  <2> QED
    BY <2>2, <2>3, <1>7 DEF Inspect
<1>8. CASE Terminate \/ HuntScanned \/ HuntKill \/ HuntExpired \/ Conclude
  <2>1. UNCHANGED <<box, ident>> /\ spc' \notin {"names", "starts"} /\ Launched
    BY <1>8 DEF Terminate, HuntScanned, HuntKill, HuntExpired, Conclude, Positions
  <2> QED
    BY <2>1, IdentityKept
<1>9. CASE TermBegin \/ TermEnd
  <2>1. UNCHANGED <<box, ident>> /\ spc' \notin {"names", "starts"} /\ (ustate' = ustate \/ ustate' = "FAILED")
    BY <1>9 DEF TermBegin, TermEnd, Resume
  <2> QED
    BY <2>1, IdentityKept DEF Launched
<1> QED
  BY <1>1, <1>2, <1>3, <1>4, <1>5, <1>6, <1>7, <1>8, <1>9, QuietSteps DEF Decisive

---------------------------------------------------------------------------
\* Every step that is not the scan's own leaves what was seen as it is; a
\* birth may note that a listed pid was reused.
SameLook ==
  /\ scan'.on = scan.on /\ scan'.pids = scan.pids /\ scan'.todo = scan.todo /\ scan'.seen = scan.seen
  /\ scan.reused => scan'.reused

Looking == ScanBegin \/ ScanRead \/ HuntScanned \/ HuntKill \/ Conclude

\* Every step leaves the scan alone or is one of its own.
LEMMA SameLooks ==
  ASSUME Types, Kin, Next
  PROVE  SameLook \/ Looking
<1>1. CASE UNCHANGED scan
  BY <1>1 DEF SameLook
<1>2. CASE Fork
  <2>1. PICK p \in Pids : scan' = [scan EXCEPT !.reused = @ \/ p \in scan.pids]
    BY <1>2, ForkAdds
  <2> QED
    BY <2>1 DEF SameLook, Types
<1>3. CASE StrangerStarts
  <2>1. PICK p \in Pids : scan' = [scan EXCEPT !.reused = @ \/ p \in scan.pids]
    BY <1>3, StrangerAdds
  <2> QED
    BY <2>1 DEF SameLook, Types
<1> QED
  BY <1>1, <1>2, <1>3
     DEF Looking, Next, Kernel, Guard, Supervisor, Terminating, LauncherForks, LauncherExits, WorkloadStep,
         LauncherHangs, StrangerExits, GuardReports, GuardExecs, TermBegin, TermEnd, Deadline, HuntExpired, Spawn,
         Locate, Report, ReadNamespaces, ReadStarts, Inspect, Poll, Isolate, Terminate

\* While the scan has something to say, the position is the hunt's.
LEMMA LookingAt ==
  ASSUME Types, Positions, Identity, Scanning
  PROVE  /\ scan.on => spc \in {"hunt", "final"} /\ Launched /\ guard.at # "none"
         /\ \A p \in Pids : scan.seen[p] # None =>
              spc \in {"hunt", "final", "kill"} /\ Launched /\ guard.at # "none"
<1>1. spc \in {"hunt", "final", "kill"} => Launched /\ guard.at # "none"
  BY DEF Positions, Identity
<1> QED
  BY <1>1 DEF Scanning

\* A blank scan.
LEMMA Blanks ==
  /\ NoScan.on = FALSE /\ NoScan.pids = {} /\ NoScan.todo = {} /\ NoScan.reused = FALSE
  /\ \A p \in Pids : NoScan.seen[p] = None
BY DEF NoScan, Blank

\* One read: what ProcRecord shows.
LEMMA OneRead ==
  ASSUME Types, ScanRead
  PROVE  \E p \in scan.todo :
           /\ p \in Pids
           /\ scan'.on = scan.on /\ scan'.pids = scan.pids /\ scan'.reused = scan.reused
           /\ scan'.todo = scan.todo \ {p}
           /\ \A q \in Pids : q # p => scan'.seen[q] = scan.seen[q]
           /\ p \notin Used => scan'.seen[p] = None
           /\ p \in Used =>
                /\ scan'.seen[p] # None
                /\ scan'.seen[p].start = table[p].start /\ scan'.seen[p].parent = table[p].parent
                /\ scan'.seen[p].zombie = table[p].zombie
                /\ scan'.seen[p].pidns = table[p].pidns /\ scan'.seen[p].userns = table[p].userns
<1>1. scan \in [on : BOOLEAN, pids : SUBSET Pids, todo : SUBSET Pids,
                seen : [Pids -> Shown \cup {None}], reused : BOOLEAN] /\ scan.todo # {}
  BY DEF Types, ScanRead
<1>2. scan.todo \in SUBSET Nat
  BY <1>1, SandboxAssumption
<1>3. PICK p \in scan.todo : scan' = [scan EXCEPT !.todo = @ \ {p}, !.seen[p] = ProcRecord(p)]
  BY <1>1, <1>2, LeastPid DEF ScanRead
<1>4. p \in Pids
  BY <1>1
<1>5. /\ scan'.on = scan.on /\ scan'.pids = scan.pids /\ scan'.reused = scan.reused
      /\ scan'.todo = scan.todo \ {p}
      /\ scan'.seen[p] = ProcRecord(p)
      /\ \A q \in Pids : q # p => scan'.seen[q] = scan.seen[q]
  BY <1>1, <1>3, <1>4
<1>6. p \notin Used => ProcRecord(p) = None
  BY DEF ProcRecord
<1>7. ASSUME p \in Used
      PROVE  /\ ProcRecord(p) # None
             /\ ProcRecord(p).start = table[p].start /\ ProcRecord(p).parent = table[p].parent
             /\ ProcRecord(p).zombie = table[p].zombie
             /\ ProcRecord(p).pidns = table[p].pidns /\ ProcRecord(p).userns = table[p].userns
  <2>1. ProcRecord(p) \in Shown
    BY <1>7, UsedType DEF ProcRecord, ProcType, Shown
  <2> QED
    BY <2>1, <1>7, NoneAssumption DEF ProcRecord
<1> QED
  BY <1>3, <1>4, <1>5, <1>6, <1>7

\* Every step preserves Scanning.
LEMMA ScanningNext ==
  ASSUME Types, Kin, Positions, Identity, Scanning, Next
  PROVE  Scanning'
<1>0. /\ born \in Nat /\ born' \in Nat /\ born <= born'
      /\ \A p \in Used' : Stays(p) \/ Comes(p)
  BY Newcomers
<1>s. \A p \in Pids : scan.seen[p] # None => scan.seen[p].start \in Nat
  BY SandboxAssumption DEF Types, Shown
<1>1. CASE SameLook /\ ~Looking
  <2>1. CASE scan.on
    <3>1. spc \in {"hunt", "final"} /\ guard.at # "none"
      BY <2>1, LookingAt
    <3>2. spc' = spc
      BY <1>1, <2>1, <3>1, QuietSteps
         DEF Looking, Quiet, Decisive, Spawn, Locate, Report, ReadNamespaces, ReadStarts, Inspect, Terminate,
             TermBegin, TermEnd, HuntExpired
    <3>3. \A p \in Used' : table'[p].role \in {"launcher", "init"} => Stays(p)
      BY <3>1, <1>0 DEF Comes
    <3> QED
      BY <1>0, <1>s, <1>1, <2>1, <3>1, <3>2, <3>3 DEF SameLook, Scanning, Stays
  <2>2. CASE ~scan.on /\ spc # "kill"
    <3>1. spc' # "kill"
      BY <1>1, <2>2, QuietSteps
         DEF Looking, Quiet, Decisive, Spawn, Locate, Report, ReadNamespaces, ReadStarts, Inspect, Terminate,
             TermBegin, TermEnd, HuntExpired, Resume
    <3> QED
      BY <1>0, <1>s, <1>1, <2>2, <3>1 DEF SameLook, Scanning
  <2>3. CASE ~scan.on /\ spc = "kill"
    <3>1. spc' = spc
      BY <1>1, <2>3, QuietSteps
         DEF Looking, Quiet, Decisive, Spawn, Locate, Report, ReadNamespaces, ReadStarts, Inspect, Terminate,
             TermBegin, TermEnd, HuntExpired
    <3> QED
      BY <1>0, <1>s, <1>1, <2>3, <3>1 DEF SameLook, Scanning
  <2> QED
    BY <2>1, <2>2, <2>3
<1>2. CASE ScanBegin
  <2>1. /\ scan'.on = TRUE /\ scan'.pids = Used /\ scan'.todo = Used
        /\ \A p \in Pids : scan'.seen[p] = None
    BY <1>2, Blanks DEF ScanBegin, NoScan
  <2>2. UNCHANGED <<table, spc>> /\ spc \in {"hunt", "final"}
    BY <1>2 DEF ScanBegin
  <2> QED
    BY <2>1, <2>2 DEF Scanning, Used
<1>3. CASE ScanRead
  <2>1. UNCHANGED <<table, spc, born>> /\ scan.on
    BY <1>3 DEF ScanRead
  <2>2. PICK p \in scan.todo :
           /\ p \in Pids
           /\ scan'.on = scan.on /\ scan'.pids = scan.pids
           /\ scan'.todo = scan.todo \ {p}
           /\ \A q \in Pids : q # p => scan'.seen[q] = scan.seen[q]
           /\ p \notin Used => scan'.seen[p] = None
           /\ p \in Used =>
                /\ scan'.seen[p] # None
                /\ scan'.seen[p].start = table[p].start
                /\ scan'.seen[p].zombie = table[p].zombie
                /\ scan'.seen[p].pidns = table[p].pidns
    BY <1>3, OneRead
  <2>3. Used' = Used /\ Used \subseteq Pids
    BY <2>1 DEF Used
  <2>4. \A q \in Used : table[q].start <= born
    BY DEF Kin, KinOf
  <2>5. \A q \in Pids : scan'.seen[q] # None => q \in scan'.pids /\ scan'.seen[q].start <= born'
    BY <2>1, <2>2, <2>4 DEF Scanning
  <2>6. \A q \in Used' : table'[q].role \in {"launcher", "init"} =>
           \/ q \in scan'.todo
           \/ /\ scan'.seen[q] # None /\ scan'.seen[q].start = table'[q].start
              /\ scan'.seen[q].pidns = table'[q].pidns
              /\ scan'.seen[q].zombie => table'[q].zombie
    BY <2>1, <2>2, <2>3 DEF Scanning
  <2> QED
    BY <2>1, <2>2, <2>5, <2>6 DEF Scanning
<1>4. CASE scan' = NoScan
  BY <1>4, Blanks DEF Scanning
<1>5. CASE HuntScanned /\ spc' = "kill" /\ scan' = [scan EXCEPT !.on = FALSE]
  <2>1. scan'.on = FALSE /\ scan'.pids = scan.pids /\ scan'.todo = scan.todo /\ scan'.seen = scan.seen
    BY <1>5 DEF Types
  <2> QED
    BY <2>1, <1>5, <1>0, <1>s DEF Scanning
<1> QED
  BY <1>1, <1>2, <1>3, <1>4, <1>5, SameLooks DEF Looking, HuntScanned, HuntKill, Conclude

\* Where a process sits tells the unit's from everyone else's.
LEMMA HostIsStranger ==
  ASSUME Types, Kin, guard.at # "none", NEW p \in Used
  PROVE  /\ table[p].userns = "host" <=> table[p].role = "stranger"
         /\ table[p].pidns # "host" => table[p].userns # "host"
<1>1. KinOf(p) /\ table[p].role \in {"launcher", "init", "task", "stranger"}
  BY UsedType DEF Kin, ProcType, Roles
<1> QED
  BY <1>1 DEF KinOf

\* Every step preserves Faithful.
LEMMA FaithfulNext ==
  ASSUME Types, Kin, Positions, Identity, Scanning, Faithful, Next
  PROVE  Faithful'
<1>0. \A p \in Used' : Stays(p) \/ Comes(p)
  BY Newcomers
<1>1. CASE SameLook /\ ~Looking
  <2> SUFFICES ASSUME ~scan'.reused, NEW p \in Pids, scan'.seen[p] # None
               PROVE  SeenOf(p)'
    BY DEF Faithful
  <2>1. ~scan.reused /\ scan'.seen = scan.seen /\ scan'.pids = scan.pids /\ scan.seen[p] # None
    BY <1>1 DEF SameLook
  <2>2. SeenOf(p)
    BY <2>1 DEF Faithful
  <2>3. spc \in {"hunt", "final", "kill"} /\ guard.at # "none" /\ Launched
    BY <2>1, LookingAt
  <2>4. ident' = ident
    BY <1>1, <2>3, QuietSteps
         DEF Looking, Quiet, Decisive, Spawn, Locate, Report, ReadNamespaces, ReadStarts, Inspect, Terminate,
             TermBegin, TermEnd, HuntExpired
  <2>5. \A q \in Used' : q \in scan.pids => q \in Used /\ table'[q].userns = table[q].userns
    <3> SUFFICES ASSUME NEW q \in Used', q \in scan.pids, Comes(q) PROVE FALSE
      BY <1>0, <2>3 DEF Stays
    <3>1. scan' = [scan EXCEPT !.reused = @ \/ q \in scan.pids]
      BY <2>3 DEF Comes
    <3>2. scan'.reused
      BY <3>1 DEF Types
    <3> QED
      BY <3>2
  <2>6. p \in scan.pids
    BY <2>1 DEF Scanning
  <2> QED
    BY <2>1, <2>2, <2>4, <2>5, <2>6 DEF SeenOf
<1>2. CASE ScanBegin
  <2>1. \A p \in Pids : scan'.seen[p] = None
    BY <1>2, Blanks DEF ScanBegin, NoScan
  <2> QED
    BY <2>1 DEF Faithful
<1>3. CASE ScanRead
  <2>0. UNCHANGED <<table, ident>> /\ scan.on /\ Used' = Used
    BY <1>3 DEF ScanRead, Used
  <2>1. PICK r \in scan.todo :
           /\ r \in Pids
           /\ scan'.pids = scan.pids /\ scan'.reused = scan.reused
           /\ \A q \in Pids : q # r => scan'.seen[q] = scan.seen[q]
           /\ r \notin Used => scan'.seen[r] = None
           /\ r \in Used =>
                /\ scan'.seen[r].start = table[r].start /\ scan'.seen[r].parent = table[r].parent
                /\ scan'.seen[r].pidns = table[r].pidns /\ scan'.seen[r].userns = table[r].userns
    BY <1>3, OneRead
  <2>2. r \in scan.pids /\ Launched /\ guard.at # "none"
    BY <2>0, <2>1, LookingAt DEF Scanning
  <2> SUFFICES ASSUME ~scan'.reused, NEW p \in Pids, scan'.seen[p] # None
               PROVE  SeenOf(p)'
    BY DEF Faithful
  <2>3. \A q \in Pids : scan.seen[q] # None => SeenOf(q)
    BY <2>1 DEF Faithful
  <2>5. \A q \in Pids : scan'.seen[q] # None /\ q \in Used => scan'.seen[q].userns = table[q].userns
    BY <2>1, <2>3 DEF SeenOf
  <2>p. \A q \in Pids : scan.seen[q] # None => scan.seen[q].parent \in {0} \cup Pids
    BY DEF Types, Shown
  <2>6. CASE p # r
    <3>1. scan'.seen[p] = scan.seen[p] /\ scan.seen[p] # None /\ SeenOf(p)
      BY <2>1, <2>3, <2>6
    <3>2. scan.seen[p].userns = "host" /\ scan.seen[p].parent # 0 =>
            (scan'.seen[scan.seen[p].parent] # None => scan'.seen[scan.seen[p].parent].userns = "host")
      <4>1. CASE scan.seen[p].parent = r
        BY <4>1, <3>1, <2>1, <2>2 DEF SeenOf
      <4>2. CASE scan.seen[p].parent # r
        BY <4>2, <3>1, <2>1, <2>p DEF SeenOf
      <4> QED
        BY <4>1, <4>2
    <3> QED
      BY <2>0, <2>1, <3>1, <3>2, <2>5 DEF SeenOf
  <2>7. CASE p = r
    <3>1. p \in Used /\ KinOf(p)
      BY <2>1, <2>7 DEF Kin
    <3>2. /\ scan'.seen[p].start = table[p].start /\ scan'.seen[p].parent = table[p].parent
          /\ scan'.seen[p].pidns = table[p].pidns /\ scan'.seen[p].userns = table[p].userns
      BY <2>1, <2>7, <3>1
    <3>3. /\ table[p].userns = "host" <=> table[p].role = "stranger"
          /\ table[p].pidns # "host" => table[p].userns # "host"
      BY <2>2, <3>1, HostIsStranger
    <3>4. /\ table[p].start = ident.lstart => table[p].userns # "host"
          /\ ~ident.stale /\ table[p].start = ident.sstart => table[p].userns # "host"
      BY <2>2, <3>1, <3>3 DEF Identity
    <3>5. table[p].userns = "host" /\ table[p].parent # 0 =>
            /\ table[p].parent \in Used /\ table[table[p].parent].userns = "host"
            /\ scan'.seen[table[p].parent] # None => scan'.seen[table[p].parent].userns = "host"
      BY <2>2, <2>5, <3>1, <3>3, HostIsStranger, Subsets DEF KinOf
    <3> QED
      BY <2>0, <3>1, <3>2, <3>3, <3>4, <3>5 DEF SeenOf
  <2> QED
    BY <2>6, <2>7
<1>4. CASE scan' = NoScan
  BY <1>4, Blanks DEF Faithful
<1>5. CASE HuntScanned /\ spc' = "kill" /\ scan' = [scan EXCEPT !.on = FALSE]
  <2>1. scan'.reused = scan.reused /\ scan'.pids = scan.pids /\ scan'.seen = scan.seen
    BY <1>5 DEF Types
  <2>2. UNCHANGED <<table, ident>> /\ Used' = Used
    BY <1>5 DEF HuntScanned, Used
  <2> QED
    BY <2>1, <2>2 DEF Faithful, SeenOf
<1> QED
  BY <1>1, <1>2, <1>3, <1>4, <1>5, SameLooks DEF Looking, HuntScanned, HuntKill, Conclude

---------------------------------------------------------------------------
\* A scan that finds nothing tells the truth: a live process of the unit
\* leaves its launcher or its init alive, and both are in the finished scan
\* under the identity recorded at launch.
LEMMA NothingFound ==
  ASSUME Types, Kin, Positions, Identity, Scanning, ScanOver, Survivors = {}
  PROVE  Ours = {}
<1>0. scan.on /\ scan.todo = {} /\ Launched
  BY LookingAt DEF ScanOver
<1>1. \A p \in Live : table[p].role \in {"launcher", "init"} =>
        /\ p \in Seen /\ scan.seen[p].start = table[p].start /\ scan.seen[p].pidns = table[p].pidns
  BY <1>0 DEF Scanning, Live, Used, Seen
<1>2. \A p \in Live : table[p].role # "launcher"
  <2> SUFFICES ASSUME NEW p \in Live, table[p].role = "launcher" PROVE FALSE
    OBVIOUS
  <2>1. p = launcher /\ table[p].start = ident.lstart /\ p \in Pids
    BY <1>0, Subsets DEF Live, Kin, KinOf, Identity
  <2>2. p \in Roots
    BY <1>1, <2>1 DEF Roots, Confirmed
  <2> QED
    BY <2>2 DEF Survivors
<1>3. \A p \in Live : table[p].role # "init"
  <2> SUFFICES ASSUME NEW p \in Live, table[p].role = "init" PROVE FALSE
    OBVIOUS
  <2>1. table[p].pidns = "unit" /\ ident.pidns = "unit" /\ p \in Seen /\ scan.seen[p].pidns = "unit"
    BY <1>0, <1>1 DEF Live, Kin, KinOf, Identity
  <2>2. "unit" # None
    BY NoneAssumption DEF Spaces
  <2> QED
    BY <2>1, <2>2 DEF Survivors
<1>4. \A p \in Live : table[p].role # "task"
  <2> SUFFICES ASSUME NEW p \in Live, table[p].role = "task" PROVE FALSE
    OBVIOUS
  <2>1. PICK i \in Used : table[i].role = "init"
    BY DEF Live, Kin, KinOf
  <2>2. i \in Live
    BY <2>1 DEF Live, Kin, KinOf
  <2> QED
    BY <2>1, <2>2, <1>3
<1>5. \A p \in Live : table[p].role \in {"launcher", "init", "task", "stranger"}
  BY Subsets, UsedType DEF ProcType, Roles
<1> QED
  BY <1>2, <1>3, <1>4, <1>5 DEF Ours

\* Every step preserves EmptyIsEmpty: only Conclude calls the unit TERMINATED,
\* and nothing of an empty unit comes back.
LEMMA EmptyNext ==
  ASSUME Types, Kin, Positions, Identity, Scanning, EmptyIsEmpty, Next
  PROVE  EmptyIsEmpty'
<1> SUFFICES ASSUME ustate' = "TERMINATED" PROVE Ours' = {}
  BY DEF EmptyIsEmpty
<1>1. CASE Conclude
  <2>1. Ours = {}
    BY <1>1, NothingFound DEF Conclude
  <2>2. table' = table
    BY <1>1 DEF Conclude
  <2> QED
    BY <2>1, <2>2 DEF Ours, Live, Used
<1>2. CASE ~Conclude
  <2>1. ustate = "TERMINATED"
    BY <1>2, QuietSteps
       DEF Quiet, Decisive, Spawn, Locate, Report, ReadNamespaces, ReadStarts, Inspect, Terminate, TermBegin,
           TermEnd, Resume, HuntScanned, HuntKill, HuntExpired
  <2>2. spc = "done" /\ Ours = {}
    BY <2>1 DEF Positions, EmptyIsEmpty
  <2>3. ~Fork /\ ~StrangerStarts /\ ~LauncherForks /\ ~Spawn
    BY <2>2 DEF Fork, Workload, StrangerStarts, LauncherForks, Spawn
  <2>4. Fading
    BY <2>3, FadingSteps
  <2>5. \A p \in Pids : table'[p] # None => p \in Used /\ table'[p].role = table[p].role
          /\ (table[p].zombie => table'[p].zombie)
    BY <2>4 DEF Fading, Fades, Used
  <2> QED
    BY <2>2, <2>5 DEF Ours, Live, Used
<1> QED
  BY <1>1, <1>2

\* What a scan finds is of the unit, when no listed pid was reused and the
\* identity was read from the sandbox: whatever is not in the host's user
\* namespace is closed under "child of", and every other layer stays in it.
LEMMA FoundIsOurs ==
  ASSUME Types, Kin, Positions, Identity, Scanning, Faithful, ~scan.reused, ~ident.stale,
         NEW p \in Survivors, p \in Used
  PROVE  table[p].role # "stranger"
<1>0. Seen \subseteq Pids /\ \A q \in Seen : scan.seen[q] # None /\ SeenOf(q) /\ scan.seen[q] \in Shown
  BY DEF Seen, Faithful, Types
<1>n. None \notin Spaces /\ \A q \in Seen : scan.seen[q].start \in 1 .. MaxBorn
  BY <1>0, NoneAssumption DEF Shown
<1> DEFINE S == {q \in Seen : scan.seen[q].userns # "host"}
<1>1. p \in Seen
  BY DEF Survivors, Roots, Confirmed, Descendants
<1>2. Launched /\ guard.at # "none"
  BY <1>0, <1>1, LookingAt
<1>3. /\ ident.pidns = "unit" /\ ident.userns = "unit"
      /\ ident.lstart \in 1 .. born /\ ident.sstart \in 1 .. born
  BY <1>2 DEF Identity
<1>4. ident.lstart # None /\ ident.sstart # None
  BY <1>3, SandboxAssumption DEF Types
<1>5. Roots \subseteq S
  BY <1>0, <1>4 DEF Roots, Confirmed, SeenOf
<1>6. \A q \in Seen : scan.seen[q].parent \in Roots \cup S => q \in S
  <2> SUFFICES ASSUME NEW q \in Seen, scan.seen[q].parent \in S, scan.seen[q].userns = "host" PROVE FALSE
    BY <1>5
  <2>1. scan.seen[q].parent \in Pids /\ scan.seen[q].parent # 0
    BY <1>0, SandboxAssumption
  <2> QED
    BY <2>1, <1>0 DEF SeenOf
<1>7. Descendants \subseteq S
  BY <1>6 DEF Descendants
<1>8. p \in S
  BY <1>0, <1>1, <1>3, <1>5, <1>7 DEF Survivors, SeenOf
<1>9. table[p].userns # "host"
  BY <1>0, <1>8 DEF SeenOf
<1> QED
  BY <1>2, <1>9, HostIsStranger

\* The kill of a scan's survivors leaves every stranger as it was.
LEMMA Spared ==
  ASSUME Inv, Next, spc = "kill", spc' = "hunt", ~scan.reused, ~ident.stale
  PROVE  \A p \in Live \ Ours : table'[p] = table[p]
<1> USE DEF Inv
<1>1. HuntKill
  BY QuietSteps DEF Quiet, Decisive, Spawn, Locate, Report, ReadNamespaces, ReadStarts, Inspect, Terminate,
         TermBegin, TermEnd, HuntScanned, HuntExpired, Conclude
<1>2. table' = Without(Survivors \cap Live) /\ Survivors \cap Live \in SUBSET Live
  BY <1>1 DEF HuntKill
<1>3. \A p \in Survivors \cap Live : table[p].role # "stranger"
  BY FoundIsOurs, Subsets
<1>4. \A p \in Live \ Ours : p \in Used /\ table[p].role = "stranger"
  BY Subsets DEF Ours
<1> QED
  BY <1>2, <1>3, <1>4, WithoutSpares

\* The invariant holds initially.
LEMMA InitInv ==
  ASSUME Init
  PROVE  Inv
<1>1. Types
  <2>1. Blank \in [Pids -> ProcType \cup {None}] /\ Blank \in [Pids -> Shown \cup {None}]
    BY DEF Blank
  <2>2. scan \in [on : BOOLEAN, pids : SUBSET Pids, todo : SUBSET Pids,
                  seen : [Pids -> Shown \cup {None}], reused : BOOLEAN]
    BY <2>1 DEF Init, NoScan
  <2>3. ident \in [lstart : 1 .. MaxBorn \cup {None}, sstart : 1 .. MaxBorn \cup {None},
                   pidns : Spaces \cup {None}, userns : Spaces \cup {None}, stale : BOOLEAN]
    BY DEF Init
  <2>4. guard \in [problem : BOOLEAN, at : {"none", "setup", "reported", "exec", "dead"}]
    BY DEF Init
  <2>5. /\ table \in [Pids -> ProcType \cup {None}] /\ born \in 0 .. MaxBorn
        /\ pipe = "empty" /\ spc = "idle" /\ launcher = None /\ box = None
        /\ late = FALSE /\ frozen = FALSE /\ ustate = "UNPREPARED"
    BY <2>1, SandboxAssumption DEF Init
  <2> QED
    BY <2>2, <2>3, <2>4, <2>5 DEF Types
<1>2. Used = {}
  BY DEF Init, Used, Blank
<1>3. Kin /\ EmptyIsEmpty
  BY <1>2, Subsets DEF Kin, EmptyIsEmpty
<1>4. Positions /\ Identity
  BY <1>2 DEF Init, Positions, Identity, Launched
<1>5. Scanning /\ Faithful
  BY <1>2, Blanks DEF Init, Scanning, Faithful
<1> QED
  BY <1>1, <1>3, <1>4, <1>5 DEF Inv

\* The invariant is inductive.
LEMMA NextInv ==
  ASSUME Inv, [Next]_vars
  PROVE  Inv'
<1>1. CASE Next
  BY <1>1, TypesNext, KinNext, PositionsNext, IdentityNext, ScanningNext, FaithfulNext, EmptyNext DEF Inv
<1>2. CASE UNCHANGED vars
  BY <1>2 DEF vars, Inv, Types, Kin, KinOf, Positions, Identity, Scanning, Faithful, SeenOf, EmptyIsEmpty,
              Used, Live, Ours, HasLauncher, Launched
<1> QED
  BY <1>1, <1>2

\* The invariant implies the type invariant, the reaping of the launcher included.
LEMMA InvImplies ==
  ASSUME Inv
  PROVE  TypeOK
<1>1. Types /\ Scanning
  BY DEF Inv
<1>2. \A p \in Used \ Live : /\ table[p].role = "launcher"
                             /\ spc \notin {"hunt", "kill", "final", "done", "failed"}
  BY DEF Inv, Live, Kin, KinOf, Positions
<1> QED
  BY <1>1, <1>2 DEF TypeOK, Types, Scanning

\* The inductive invariant holds throughout: the process table, the position
\* of launch() and terminate(), the recorded identity and the scan agree.
THEOREM Safety == Spec => []Inv
<1>1. Init => Inv
  BY InitInv
<1>2. Inv /\ [Next]_vars => Inv'
  BY NextInv
<1> QED
  BY <1>1, <1>2, PTL DEF Spec

\* The state is well typed, only the launcher can be a zombie, and none is left
\* once terminate_tree has returned.
THEOREM TypeCorrect == Spec => []TypeOK
<1>1. Inv => TypeOK
  BY InvImplies
<1> QED
  BY <1>1, Safety, PTL

\* terminate() says TERMINATED only when no process of the unit is alive: for
\* any number of forks, nested namespaces and pids reused under the scan.
THEOREM EmptyTheorem == Spec => []EmptyIsEmpty
<1>1. Inv => EmptyIsEmpty
  BY DEF Inv
<1> QED
  BY <1>1, Safety, PTL

\* The hunt kills no process of someone else, unless a listed pid was reused
\* since the scan began or the identity was not read from the sandbox.
THEOREM SparesTheorem == Spec => HuntSparesStrangers
<1>1. Inv /\ [Next]_vars =>
        [ (spc = "kill" /\ spc' = "hunt" /\ ~scan.reused /\ ~ident.stale)
            => \A p \in Live \ Ours : table'[p] = table[p] ]_vars
  BY Spared
<1> QED
  BY <1>1, Safety, PTL DEF Spec, HuntSparesStrangers
=============================================================================
