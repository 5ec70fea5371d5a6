--------------------------- MODULE PolicyDocument ---------------------------
(***************************************************************************)
(* A policy document from its text to the rules in force: policy_v1.py     *)
(* (loads_policy, parse_policy) and policy_v1_runtime.py                   *)
(* (project_policy_v1), and the older format of Policy.from_dict.          *)
(*                                                                         *)
(* A document is what its JSON says, field by field.  A field is None when *)
(* it is not written, Null for null and WrongType for a value of another   *)
(* type, which the code never converts.  A refusal is None: the code       *)
(* collects some problems and raises others at once, but one problem is    *)
(* enough to refuse.                                                       *)
(***************************************************************************)
EXTENDS PathPattern

CONSTANTS Null, WrongType,
          Base,                \* the workspace root, an absolute path: its segments
          MaxRules             \* MAX_RULE_COUNT

Bad == {Null, WrongType}
Given(v, default) == IF v = None THEN default ELSE v

\* What json.loads of the text alone tells: it is not read, not JSON, or
\* read with a flaw only the strict decoder sees.
TextFlaws == {"unreadable", "not_utf8", "bom", "syntax", "not_object"}
StrictFlaws == {"duplicate_key", "not_finite"}
StrictText(doc) == doc.text \notin TextFlaws \cup StrictFlaws

(***************************************************************************)
(* parse_policy, a section at a time.                                      *)
(***************************************************************************)
\* A required or optional integer: never a boolean, never below its minimum.
IntOK(v, minimum) == v # None => v \notin Bad /\ v >= minimum

\* _check_keys: no field nobody knows, in the root or in a section.
KeysOK(doc) == ~doc.unknown

\* _section: a section is left out or an object, and not null.
SectionsOK(doc) == doc.flat = {}

\* An array of compilable patterns, none of them twice in its canonical form,
\* as tripwires are.  (Order means nothing: the rules are a set.)
Compiled(values) ==
  LET given == Given(values, <<>>)
      wrong == \E i \in DOMAIN given : given[i] = WrongType \/ CompilePattern(given[i]) = None
      rules == {CompilePattern(given[i]) : i \in DOMAIN given}
  IN IF given \in Bad THEN None
     ELSE IF wrong \/ Cardinality(rules) # Len(given) THEN None
     ELSE rules

\* _patterns: the lists of allow and deny are limited in length as well.
Patterns(values) ==
  LET rules == Compiled(values)
  IN IF rules = None THEN None
     ELSE IF Len(Given(values, <<>>)) > MaxRules THEN None
     ELSE rules

\* _hostnames: names only, each once after case and dots are dropped.
Hostnames(values) ==
  LET given == Given(values, <<>>)
      names == {given[i].name : i \in DOMAIN given}
  IN IF given \in Bad THEN None
     ELSE IF Len(given) > MaxRules \/ \E i \in DOMAIN given : given[i].form # "name" THEN None
     ELSE IF Cardinality(names) # Len(given) THEN None
     ELSE names

VersionOK(doc) == doc.version = 1

NameOK(doc) == doc.name \in {None, "name"}

FilesystemOK(doc) ==
  LET allow == Patterns(doc.allow)
      deny  == Patterns(doc.deny)
  IN allow # None /\ deny # None /\ allow \cap deny = {}

NetworkOK(doc) ==
  LET allow == Hostnames(doc.hosts)
      deny  == Hostnames(doc.nohosts)
      mode  == Given(doc.mode, "none")
  IN /\ mode \notin Bad /\ mode \in {"none", "restricted", "open"}
     /\ allow # None /\ deny # None
     /\ allow # {} => mode = "restricted"
     /\ allow \cap deny = {}

\* No children is a meaningful ceiling, no runtime is not.
ProcessOK(doc) == IntOK(doc.children, 0) /\ IntOK(doc.runtime, 1)

ResourcesOK(doc) == IntOK(doc.memory, 16) /\ IntOK(doc.cpu, 1)

TripwiresOK(doc) == Compiled(doc.tripwires) # None

Classes == {"filesystem", "network", "process", "resources", "tripwire"}
DefaultViolation ==
  [c \in Classes |-> CASE c = "resources" -> "QUARANTINE" [] c = "tripwire" -> "KILL"
                       [] OTHER -> "DENY"]

\* on_violation, a function on the classes that are written.
ViolationsOK(doc) ==
  LET given == doc.violations
  IN given # None =>
       /\ given \notin Bad
       /\ \A c \in DOMAIN given :
            /\ given[c] \notin Bad /\ given[c] \in {"DENY", "QUARANTINE", "KILL"}
            /\ c = "tripwire" => given[c] = "KILL"

\* The validated document, every default written out.
Normalised(doc) ==
  LET given == Given(doc.violations, <<>>)
  IN [allow     |-> Patterns(doc.allow),
      deny      |-> Patterns(doc.deny),
      mode      |-> Given(doc.mode, "none"),
      hosts     |-> Hostnames(doc.hosts) \cup Hostnames(doc.nohosts),
      children  |-> Given(doc.children, 32),
      runtime   |-> Given(doc.runtime, 3600),
      memory    |-> doc.memory,
      cpu       |-> doc.cpu,
      tripwires |-> Compiled(doc.tripwires),
      violations |-> [c \in Classes |-> IF c \in DOMAIN given THEN given[c]
                                        ELSE DefaultViolation[c]]]

LoadsPolicy(doc) ==
  IF /\ StrictText(doc) /\ KeysOK(doc) /\ SectionsOK(doc)
     /\ VersionOK(doc) /\ NameOK(doc)
     /\ FilesystemOK(doc) /\ NetworkOK(doc) /\ ProcessOK(doc)
     /\ ResourcesOK(doc) /\ TripwiresOK(doc) /\ ViolationsOK(doc)
    THEN Normalised(doc)
    ELSE None

(***************************************************************************)
(* The rules the engine knows (watcher/policy.py, Policy).                 *)
(***************************************************************************)
\* The fields of a file of the older format, with the defaults of the class.
DefaultPolicy ==
  [allowed_paths |-> {}, forbidden_paths |-> {},
   allowed_domains |-> {}, forbidden_domains |-> {},
   restrict_network |-> None, unknown_domain |-> "DENY",
   allowed_tools |-> {}, forbidden_tools |-> {}, unknown_tool |-> "DENY",
   max_processes |-> 32, max_runtime |-> 3600, multiplier |-> 3,
   protected_env |-> {Raw(0, <<<<"T", "O", "K">>>>)},
   allow_privilege |-> FALSE, allow_host |-> FALSE, allow_persistence |-> FALSE,
   path_rule |-> None]

Decisions == {"ALLOW", "DENY", "QUARANTINE", "KILL"}

\* Policy.from_dict and __post_init__: "written" has some of the fields.
FromDict(flaw, written) ==
  LET p == [f \in DOMAIN DefaultPolicy |->
              IF f \in DOMAIN written THEN written[f] ELSE DefaultPolicy[f]]
  IN IF /\ flaw \notin TextFlaws
        /\ DOMAIN written \subseteq DOMAIN DefaultPolicy \ {"path_rule"}
        /\ p.unknown_domain \in Decisions /\ p.unknown_tool \in Decisions
        /\ IntOK(p.max_processes, 0) /\ IntOK(p.max_runtime, 1) /\ IntOK(p.multiplier, 1)
       THEN p
       ELSE None

(***************************************************************************)
(* project_policy_v1: each field enforced, not set, or refused.            *)
(***************************************************************************)
NetworkProjects(v1) == v1.mode = "none" /\ v1.hosts = {}

ResourcesProject(v1) == v1.memory = None /\ v1.cpu = None

ViolationsProject(v1) ==
  \A c \in Classes \ {"filesystem", "tripwire"} : v1.violations[c] = DefaultViolation[c]

\* The registry compares literal paths only.
TripwiresProject(v1) == \A t \in v1.tripwires : ~HasWildcard(t)

Tripwire(kinds, paths, envs, signs) ==
  [kinds |-> kinds, paths |-> paths, envs |-> envs, signs |-> signs, decision |-> "KILL"]

ProjectTripwires(v1) == {Tripwire({}, {Raw(1, t)}, {}, {}) : t \in v1.tripwires}

Project(v1) ==
  IF /\ NetworkProjects(v1) /\ ResourcesProject(v1)
     /\ ViolationsProject(v1) /\ TripwiresProject(v1)
    THEN [policy |-> [DefaultPolicy EXCEPT
                        !.restrict_network = TRUE,
                        !.unknown_domain = v1.violations["network"],
                        !.max_processes = v1.children,
                        !.max_runtime = v1.runtime,
                        !.path_rule = IF v1.allow = {} /\ v1.deny = {} THEN None
                                      ELSE [allow |-> v1.allow, deny |-> v1.deny,
                                            violation |-> v1.violations["filesystem"]]],
          tripwires |-> ProjectTripwires(v1)]
    ELSE None
=============================================================================
