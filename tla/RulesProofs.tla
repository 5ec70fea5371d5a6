---------------------------- MODULE RulesProofs ----------------------------
(***************************************************************************)
(* From the command line to the verdict, for every policy file, every set  *)
(* of flags, every request and every claim: the rules that come into force *)
(* are sound, an accepted Policy V1 document is enforced, and a claim that *)
(* displaces nothing of the request only adds restriction.  The path       *)
(* matcher is bounded, and its answer is what the pattern means.           *)
(*                                                                         *)
(* The inductive invariant (Inv) ties the rules to the document they come  *)
(* from, and the verdict to the rules.  The rest is about single requests: *)
(* the checks of Policy.evaluate, what a claim can change, and what paths  *)
(* and patterns mean.  That is said by placements (Place), which the two   *)
(* matchers search for: leftmost block by leftmost block in a segment      *)
(* (SegmentExact), "**" by "**" in a path (ExactInv).                      *)
(***************************************************************************)
EXTENDS Rules, NaturalsInduction, WellFoundedInduction, SequenceTheorems, FiniteSetTheorems, TLAPS

\* What a check may answer.
Refusals == Decisions \ {"ALLOW"}
Verdicts == Refusals \cup {None}

\* Rules the engine can be given: limits that are numbers, decisions that are
\* decisions, and a violation of a path that refuses it.
Sound(p) ==
  /\ DOMAIN p = DOMAIN DefaultPolicy
  /\ p.unknown_domain \in Decisions /\ p.unknown_tool \in Decisions
  /\ p.max_processes \in Int /\ p.max_runtime \in Int /\ p.multiplier \in Int
  /\ None \notin p.protected_env
  /\ p.path_rule # None => p.path_rule.violation \in Refusals

\* Rules under which no check of a request of a kind answers ALLOW.
Closed(p, kind) ==
  /\ Sound(p)
  /\ kind = "network_request" => p.unknown_domain # "ALLOW"
  /\ kind = "tool_request" => p.unknown_tool # "ALLOW"

\* None and WrongType are no value that decides.
LEMMA Apart ==
  /\ None \notin Decisions /\ None \notin Int /\ None \notin BOOLEAN /\ None \notin Bad
  /\ None \notin DefaultPolicy.protected_env /\ None \notin RawPath /\ WrongType \notin Int
BY RulesAssumption DEF NoneIsApart

\* The worst of some verdicts is one of them, and there is one if any refuses.
LEMMA WorstOf ==
  ASSUME NEW V \in SUBSET (Decisions \cup {None})
  PROVE  Worst(V) \in V \cup {None} /\ (Worst(V) # None <=> \E v \in V : v # None)
<1> DEFINE G == V \ {None}
<1>1. Worst(V) = IF G = {} THEN None ELSE CHOOSE v \in G : \A w \in G : Rank[v] >= Rank[w]
  BY DEF Worst
<1>2. G \subseteq {"ALLOW", "DENY", "QUARANTINE", "KILL"}
  BY DEF Decisions
<1>3. Rank["ALLOW"] = 0 /\ Rank["DENY"] = 1 /\ Rank["QUARANTINE"] = 2 /\ Rank["KILL"] = 3
  BY DEF Rank
<1>4. G # {} => \E v \in G : \A w \in G : Rank[v] >= Rank[w]
  <2>1. CASE "KILL" \in G
    BY <2>1, <1>2, <1>3
  <2>2. CASE "KILL" \notin G /\ "QUARANTINE" \in G
    BY <2>2, <1>2, <1>3
  <2>3. CASE "KILL" \notin G /\ "QUARANTINE" \notin G /\ "DENY" \in G
    BY <2>3, <1>2, <1>3
  <2>4. CASE G \subseteq {"ALLOW"}
    BY <2>4, <1>3
  <2> QED BY <2>1, <2>2, <2>3, <2>4, <1>2
<1>5. G # {} => Worst(V) \in G
  BY <1>1, <1>4
<1>6. G = {} => Worst(V) = None
  BY <1>1
<1> QED
  BY <1>5, <1>6

\* A set of numbers has a least one.
LEMMA Least ==
  ASSUME NEW S \in SUBSET Nat, S # {}
  PROVE  Min(S) \in S /\ \A n \in S : Min(S) <= n
<1> DEFINE R == OpToRel(<, Nat)
<1>1. IsWellFoundedOn(R, Nat)
  BY NatLessThanWellFounded
<1>2. \A m, n \in Nat : <<n, m>> \in R <=> n < m
  BY DEF OpToRel
<1> HIDE DEF R
<1>3. PICK m \in S : \A n \in S : <<n, m>> \notin R
  BY <1>1, WFMin
<1>4. ASSUME NEW n \in S PROVE m <= n
  <2>1. m \in Nat /\ n \in Nat /\ <<n, m>> \notin R
    BY <1>3
  <2> QED
    BY <2>1, <1>2
<1> QED
  BY <1>3, <1>4 DEF Min

\* Induction over a set of numbers.
LEMMA Upward ==
  ASSUME NEW n \in Nat, NEW P, 0 \in P, \A i \in 0 .. n - 1 : i \in P => i + 1 \in P
  PROVE  \A i \in 0 .. n : i \in P
<1> DEFINE S == {i \in 0 .. n : i \notin P}
<1> SUFFICES ASSUME S # {} PROVE FALSE
  OBVIOUS
<1>1. S \in SUBSET Nat
  OBVIOUS
<1>2. PICK m \in S : \A k \in S : m <= k
  BY <1>1, Least
<1>3. m \in 0 .. n /\ m \notin P /\ m # 0
  BY <1>2
<1>4. m - 1 \in 0 .. n - 1 /\ m - 1 \notin S
  BY <1>2, <1>3
<1>5. m - 1 \in P
  BY <1>4
<1>6. (m - 1) + 1 \in P
  BY <1>4, <1>5
<1> QED
  BY <1>3, <1>6

\* What is answered about one value.
LEMMA PathVerdicts ==
  ASSUME NEW p, Sound(p)
  PROVE  \A v : PathVerdict(p, v) \in Verdicts
<1>1. {"DENY", None} \subseteq Verdicts
  BY DEF Verdicts, Refusals, Decisions
<1>2. CASE p.path_rule # None
  BY <1>1, <1>2, Zenon DEF PathVerdict, PathRule, Sound, Verdicts, If
<1>3. CASE p.path_rule = None
  BY <1>1, <1>3, Zenon DEF PathVerdict, If
<1> QED
  BY <1>2, <1>3

LEMMA HostVerdicts == \A v : HostResourceVerdict(v) \in Verdicts
<1>1. {"KILL", None} \subseteq Verdicts
  BY DEF Verdicts, Refusals, Decisions
<1> QED BY <1>1, Zenon DEF HostResourceVerdict, If

\* The rules for hosts and tools answer from every set of verdicts that has
\* the refusals and what they say of the unknown.
LEMMA NetworkVerdicts ==
  ASSUME NEW p, NEW D, Verdicts \subseteq D, p.unknown_domain \in D
  PROVE  \A v : NetworkVerdict(p, v) \in D
<1>1. {"DENY", None} \subseteq D
  BY DEF Verdicts, Refusals, Decisions
<1> QED BY <1>1, Zenon DEF NetworkVerdict, If

LEMMA ToolVerdicts ==
  ASSUME NEW p, NEW D, Verdicts \subseteq D, p.unknown_tool \in D
  PROVE  \A v : ToolVerdict(p, v) \in D
<1>1. {"DENY", None} \subseteq D
  BY DEF Verdicts, Refusals, Decisions
<1> QED BY <1>1, Zenon DEF ToolVerdict, If

\* Every check gives a verdict of such a set or none.
LEMMA ChecksGiveVerdicts ==
  ASSUME NEW p, Sound(p), NEW D, Verdicts \subseteq D, D \subseteq Decisions \cup {None}, NEW r,
         r.kind = "network_request" => p.unknown_domain \in D,
         r.kind = "tool_request" => p.unknown_tool \in D
  PROVE  /\ DOMAIN Checks(p, r) = 1 .. 11
         /\ \A i \in 1 .. 11 : Checks(p, r)[i] \in D
<1>1. {"DENY", "KILL", None} \subseteq D
  BY DEF Verdicts, Refusals, Decisions
<1>2. /\ CheckPrivilegeEscalation(p, r) \in D
      /\ CheckCriticalCommand(p, r) \in D
      /\ CheckSandboxEscape(p, r) \in D
      /\ CheckPersistence(p, r) \in D
      /\ CheckEnvVar(p, r) \in D
      /\ CheckProcesses(p, r) \in D
      /\ CheckRuntime(p, r) \in D
  BY <1>1, Zenon DEF CheckPrivilegeEscalation, CheckCriticalCommand, CheckSandboxEscape, CheckPersistence,
                     CheckEnvVar, CheckProcesses, CheckRuntime, If
<1>3. \A V \in SUBSET D : Worst(V) \in D
  BY <1>1, WorstOf
<1>4. CheckHostResources(p, r) \in D
  BY <1>1, <1>3, HostVerdicts DEF CheckHostResources
<1>5. CheckPaths(p, r) \in D
  BY <1>1, <1>3, PathVerdicts DEF CheckPaths
<1>6. CheckNetwork(p, r) \in D
  BY <1>1, <1>3, NetworkVerdicts DEF CheckNetwork
<1>7. CheckTools(p, r) \in D
  BY <1>1, <1>3, ToolVerdicts DEF CheckTools
<1> QED
  BY <1>2, <1>4, <1>5, <1>6, <1>7 DEF Checks

\* What is decided comes from a check, or from none refusing.
LEMMA FirstVerdict ==
  ASSUME NEW p, Sound(p), NEW r
  PROVE  \/ \E i \in 1 .. 11 : Checks(p, r)[i] # None /\ Evaluate(p, r) = Checks(p, r)[i]
         \/ (\A i \in 1 .. 11 : Checks(p, r)[i] = None) /\ Evaluate(p, r) = "ALLOW"
<1>1. PICK given \in SUBSET Nat : given = {i \in 1 .. 11 : Checks(p, r)[i] # None}
  <2>1. {i \in 1 .. 11 : Checks(p, r)[i] # None} \in SUBSET Nat
    OBVIOUS
  <2> QED BY <2>1
<1>2. DOMAIN Checks(p, r) = 1 .. 11
  BY DEF Checks
<1>3. Evaluate(p, r) = IF given = {} THEN "ALLOW" ELSE Checks(p, r)[Min(given)]
  BY <1>1, <1>2 DEF Evaluate
<1> QED
  BY <1>1, <1>3, Least

\* Every set of rules decides.
LEMMA EvaluateDecides ==
  ASSUME NEW p, Sound(p), NEW r
  PROVE  Evaluate(p, r) \in Decisions
<1>1. Verdicts \subseteq Decisions \cup {None} /\ {p.unknown_domain, p.unknown_tool} \subseteq Decisions \cup {None}
  BY DEF Sound, Verdicts, Refusals
<1>2. \A i \in 1 .. 11 : Checks(p, r)[i] \in Decisions \cup {None}
  BY <1>1, ChecksGiveVerdicts
<1>3. "ALLOW" \in Decisions
  BY DEF Decisions
<1> QED
  BY <1>2, <1>3, FirstVerdict

\* Where no check answers ALLOW a request is refused exactly when some check
\* refuses it.
LEMMA RefusedByACheck ==
  ASSUME NEW p, NEW r, Closed(p, r.kind)
  PROVE  Blocked(Evaluate(p, r)) <=> \E i \in 1 .. 11 : Checks(p, r)[i] # None
<1>1. /\ Sound(p) /\ Verdicts \subseteq Decisions \cup {None}
      /\ r.kind = "network_request" => p.unknown_domain \in Verdicts
      /\ r.kind = "tool_request" => p.unknown_tool \in Verdicts
  BY DEF Closed, Sound, Verdicts, Refusals
<1>2. \A i \in 1 .. 11 : Checks(p, r)[i] \in Verdicts
  BY <1>1, ChecksGiveVerdicts
<1> QED
  BY <1>1, <1>2, FirstVerdict DEF Blocked, Verdicts, Refusals

---------------------------------------------------------------------------
(***************************************************************************)
(* What a claim can change.                                                *)
(***************************************************************************)
\* What _sanitize_client_payload keeps of a request.
LEMMA SanitizedFields ==
  ASSUME NEW a, NEW c, DOMAIN c = DOMAIN NoClaims
  PROVE  LET r == Sanitize(a, c)
         IN /\ r.kind = a.kind /\ r.action = a.action /\ r.resource = a.resource /\ r.signs = a.signs
            /\ r.meta.path = c.path /\ r.meta.domain = c.domain /\ r.meta.tool = c.tool
            /\ r.meta.env = c.env /\ r.meta.flags = c.flags /\ r.meta.children = c.children
            /\ r.meta.count = c.count /\ r.meta.runtime = c.runtime
            /\ r.meta.authoritative = Facts(a)
<1>1. DOMAIN NoClaims = {"path", "domain", "tool", "env", "flags", "children", "count",
                         "runtime", "authoritative"}
  BY DEF NoClaims
<1> DEFINE m == [c EXCEPT !.authoritative = Facts(a)]
<1>2. /\ m.path = c.path /\ m.domain = c.domain /\ m.tool = c.tool
      /\ m.env = c.env /\ m.flags = c.flags /\ m.children = c.children
      /\ m.count = c.count /\ m.runtime = c.runtime
      /\ m.authoritative = Facts(a)
  BY <1>1
<1> HIDE DEF m
<1>3. Sanitize(a, c) = [kind |-> a.kind, action |-> a.action, resource |-> a.resource,
                        signs |-> a.signs, meta |-> m]
  BY DEF Sanitize, m
<1> QED
  BY <1>2, <1>3

\* The number judged is at least every number measured.
LEMMA JudgedIsAtLeast ==
  ASSUME NEW n \in Int, NEW claimed \in Int \cup {None, WrongType}
  PROVE  LET j == Judged([value |-> n, observed |-> TRUE], claimed)
         IN j \in Int /\ j >= n
<1> DEFINE S == {n, claimed} \ {None, WrongType}
<1>1. n \in S /\ S \subseteq Int /\ S \subseteq {n, claimed}
  BY Apart
<1>2. Max(S) \in Int /\ Max(S) >= n
  <2>1. \E x \in S : \A y \in S : x >= y
    <3>1. CASE claimed \in S /\ claimed >= n
      BY <3>1, <1>1
    <3>2. CASE ~(claimed \in S /\ claimed >= n)
      <4>1. \A y \in S : n >= y
        BY <3>2, <1>1
      <4> QED BY <4>1, <1>1
    <3> QED BY <3>1, <3>2
  <2>2. Max(S) \in S /\ \A y \in S : Max(S) >= y
    BY <2>1 DEF Max
  <2> QED BY <2>2, <1>1
<1> HIDE DEF S
<1>3. Judged([value |-> n, observed |-> TRUE], claimed) = Max(S)
  BY <1>1 DEF Judged, S
<1> QED
  BY <1>2, <1>3

\* Nothing but a measurement is judged when nothing is claimed.
LEMMA NothingToJudge ==
  Judged([value |-> None, observed |-> FALSE], None) = None
BY DEF Judged

\* A request the transport can carry: the fields the daemon fills in itself,
\* and what the metadata may be.
Askable(a) == a.resource \in RawPath /\ None # Facts(a) /\ {a.tree, a.elapsed} \subseteq Int \cup {None}
Claimable(c) ==
  DOMAIN c = DOMAIN NoClaims /\ {c.children, c.runtime} \subseteq Int \cup {None, WrongType}

\* Every request and every claim the daemon builds is such.
LEMMA InputsAreTyped ==
  /\ \A a \in Asks : Askable(a)
  /\ \A c \in Claims : Claimable(c)
  /\ Claimable(NoClaims)
<1>1. NoClaims.children = None /\ NoClaims.runtime = None
  BY DEF NoClaims
<1> QED
  BY <1>1, RulesAssumption DEF Askable, Claimable

\* What is measured counts, whatever is claimed.
LEMMA MeasuredCount ==
  ASSUME NEW a, Askable(a), NEW c, Claimable(c), a.kind = "process_creation", a.tree # None
  PROVE  ProcessCountInput(Sanitize(a, c)) \in Int /\ ProcessCountInput(Sanitize(a, c)) >= a.tree
<1> DEFINE r == Sanitize(a, c)
<1>1. r.meta.authoritative = Facts(a) /\ r.meta.children = c.children
  BY SanitizedFields DEF Claimable
<1>2. Facts(a) = [count |-> a.tree, runtime |-> a.elapsed] /\ Facts(a) # None
  BY DEF Facts, Askable
<1>3. ResolveFact(r.meta, "count") = [value |-> a.tree, observed |-> TRUE]
  BY <1>1, <1>2 DEF ResolveFact
<1>4. a.tree \in Int /\ c.children \in Int \cup {None, WrongType}
  BY DEF Askable, Claimable
<1> HIDE DEF r
<1>5. ProcessCountInput(r) = Judged([value |-> a.tree, observed |-> TRUE], c.children)
  BY <1>1, <1>3 DEF ProcessCountInput
<1> QED
  BY <1>4, <1>5, JudgedIsAtLeast DEF r

\* The same for the runtime.
LEMMA MeasuredRuntime ==
  ASSUME NEW a, Askable(a), NEW c, Claimable(c), a.elapsed # None
  PROVE  LET r == Sanitize(a, c)
             j == Judged(ResolveFact(r.meta, "runtime"), r.meta.runtime)
         IN j \in Int /\ j >= a.elapsed
<1> DEFINE r == Sanitize(a, c)
<1>1. r.meta.authoritative = Facts(a) /\ r.meta.runtime = c.runtime
  BY SanitizedFields DEF Claimable
<1>2. Facts(a).runtime = a.elapsed /\ Facts(a) # None
  BY DEF Facts, Askable
<1>3. ResolveFact(r.meta, "runtime") = [value |-> a.elapsed, observed |-> TRUE]
  BY <1>1, <1>2 DEF ResolveFact
<1>4. a.elapsed \in Int /\ c.runtime \in Int \cup {None, WrongType}
  BY DEF Askable, Claimable
<1> HIDE DEF r
<1> QED
  BY <1>1, <1>3, <1>4, JudgedIsAtLeast DEF r

\* What is not measured and not claimed is not judged.
LEMMA UnclaimedIsNotJudged ==
  ASSUME NEW a, Askable(a)
  PROVE  LET r == Sanitize(a, NoClaims)
         IN /\ a.kind # "process_creation" \/ a.tree = None => ProcessCountInput(r) = None
            /\ a.tree # None /\ a.kind = "process_creation" => ProcessCountInput(r) = a.tree
            /\ Judged(ResolveFact(r.meta, "runtime"), r.meta.runtime) = a.elapsed
<1> DEFINE r == Sanitize(a, NoClaims)
<1>1. /\ r.meta.authoritative = Facts(a) /\ r.meta.children = None
      /\ r.meta.count = None /\ r.meta.runtime = None
  BY SanitizedFields DEF NoClaims
<1>2. /\ Facts(a) # None /\ Facts(a).runtime = a.elapsed
      /\ Facts(a).count = IF a.kind = "process_creation" THEN a.tree ELSE None
      /\ {a.tree, a.elapsed} \subseteq Int \cup {None}
  BY DEF Facts, Askable
<1> HIDE DEF r
<1>3. a.kind # "process_creation" \/ a.tree = None => ProcessCountInput(r) = None
  BY <1>1, <1>2, NothingToJudge DEF ProcessCountInput, ResolveFact
<1>4. \A n \in Int : Judged([value |-> n, observed |-> TRUE], None) = n
  <2> TAKE n \in Int
  <2>1. {n, None} \ {None, WrongType} = {n}
    BY Apart
  <2>2. Max({n}) = n
    BY DEF Max
  <2> QED BY <2>1, <2>2 DEF Judged
<1>5. a.tree # None /\ a.kind = "process_creation" => ProcessCountInput(r) = a.tree
  BY <1>1, <1>2, <1>4 DEF ProcessCountInput, ResolveFact
<1>6. Judged(ResolveFact(r.meta, "runtime"), r.meta.runtime) = a.elapsed
  BY <1>1, <1>2, <1>4, NothingToJudge DEF ResolveFact
<1> QED
  BY <1>3, <1>5, <1>6 DEF r

\* The recorded value is a candidate, and the only one when none is claimed,
\* unless a claim stands beside a value that does not look like its sort.
LEMMA RecordedIsACandidate ==
  ASSUME NEW meta, NEW resource, NEW key \in {"path", "domain", "tool"},
         \/ meta[key] \in Nothing
         \/ key = "path" /\ LooksLikePath(resource)
         \/ key = "domain" /\ LooksLikeHost(resource)
         \/ key = "tool"
  PROVE  /\ {resource} \ Nothing \subseteq CandidateValues(meta, resource, key)
         /\ meta[key] \in Nothing => CandidateValues(meta, resource, key) = {resource} \ Nothing
<1> DEFINE recorded == CASE key = "path"   -> LooksLikePath(resource)
                         [] key = "domain" -> LooksLikeHost(resource) \/ meta.domain \in Nothing
                         [] key = "tool"   -> TRUE
           first == ((IF recorded THEN {resource} ELSE {}) \cup {meta[key]}) \ Nothing
<1>1. recorded \/ meta[key] \in Nothing
  OBVIOUS
<1>4. CandidateValues(meta, resource, key) = IF first = {} THEN {resource} \ Nothing ELSE first
  BY DEF CandidateValues
<1> HIDE DEF recorded
<1>2. CASE recorded
  <2>1. first = ({resource} \cup {meta[key]}) \ Nothing
    BY <1>2
  <2> HIDE DEF first
  <2> QED BY <2>1, <1>4
<1>3. CASE ~recorded
  <2>1. first = {meta[key]} \ Nothing
    BY <1>3
  <2>2. first = {} /\ meta[key] \in Nothing
    BY <2>1, <1>1, <1>3
  <2> HIDE DEF first
  <2> QED BY <2>2, <1>4
<1> QED
  BY <1>2, <1>3

\* What one more candidate can do to a check: nothing, or make it refuse.
LEMMA MoreCandidates ==
  ASSUME NEW V \in SUBSET Verdicts, NEW W \in SUBSET Verdicts, V \subseteq W, Worst(V) # None
  PROVE  Worst(W) # None
BY WorstOf DEF Verdicts, Refusals

\* A measurement above its limit refuses the request, whatever is claimed.
LEMMA ProcessesMeasured ==
  ASSUME NEW p, Sound(p), NEW a, Askable(a), NEW c, Claimable(c),
         a.kind = "process_creation", a.tree # None,
         a.tree > p.max_processes \/ a.tree > p.max_processes * p.multiplier
  PROVE  CheckProcesses(p, Sanitize(a, c)) # None
<1> DEFINE r == Sanitize(a, c)  count == ProcessCountInput(r)
<1>1. count \in Int /\ count >= a.tree /\ a.tree \in Int
  BY MeasuredCount DEF Askable
<1>2. r.kind = "process_creation"
  BY SanitizedFields DEF Claimable
<1>3. count # None /\ "KILL" # None /\ "DENY" # None
  BY <1>1, Apart DEF Decisions
<1>4. p.max_processes \in Int /\ p.max_processes * p.multiplier \in Int
  BY DEF Sound
<1> HIDE DEF r
<1>5. count > p.max_processes \/ count > p.max_processes * p.multiplier
  <2> DEFINE few == p.max_processes  many == p.max_processes * p.multiplier
  <2>1. few \in Int /\ many \in Int /\ (a.tree > few \/ a.tree > many)
    BY <1>4
  <2> HIDE DEF count, few, many
  <2>2. count > few \/ count > many
    BY <1>1, <2>1
  <2> QED BY <2>2 DEF few, many
<1> QED
  BY <1>2, <1>3, <1>5 DEF CheckProcesses, If, r

\* A runtime measured above the limit makes its check refuse.
LEMMA RuntimeMeasured ==
  ASSUME NEW p, Sound(p), NEW a, Askable(a), NEW c, Claimable(c),
         a.elapsed # None, a.elapsed > p.max_runtime
  PROVE  CheckRuntime(p, Sanitize(a, c)) # None
<1> DEFINE r == Sanitize(a, c)  elapsed == Judged(ResolveFact(r.meta, "runtime"), r.meta.runtime)
<1>1. elapsed \in Int /\ elapsed >= a.elapsed /\ a.elapsed \in Int
  BY MeasuredRuntime DEF Askable
<1>2. elapsed # None /\ "KILL" # None
  BY <1>1, Apart DEF Decisions
<1>3. p.max_runtime \in Int
  BY DEF Sound
<1>4. elapsed > p.max_runtime
  <2> HIDE DEF elapsed
  <2> QED BY <1>1, <1>3
<1> QED
  BY <1>2, <1>4 DEF CheckRuntime, If

\* What a claim does not displace for the check of its kind.
Kept(a, c) ==
  /\ a.kind = "env_access" => c.env \in Nothing
  /\ a.kind \in FileEvents => c.path \in Nothing \/ LooksLikePath(a.resource)
  /\ a.kind = "network_request" => c.domain \in Nothing \/ LooksLikeHost(a.resource)
  /\ a.kind = "tool_request" => c.tool \in Nothing \/ a.resource # Empty

\* Claims silence no check: one that refuses with nothing claimed refuses
\* with anything claimed.
LEMMA NoCheckIsUndone ==
  ASSUME NEW p, NEW a, Askable(a), Closed(p, a.kind), NEW c, Claimable(c), Kept(a, c),
         NEW i \in 1 .. 11, Checks(p, Sanitize(a, NoClaims))[i] # None
  PROVE  Checks(p, Sanitize(a, c))[i] # None
<1> DEFINE r0 == Sanitize(a, NoClaims)  r == Sanitize(a, c)
<1>0. Claimable(NoClaims) /\ Sound(p) /\ None \in Nothing
  BY InputsAreTyped DEF Closed, Nothing
<1>1. /\ r0.kind = a.kind /\ r0.action = a.action /\ r0.resource = a.resource /\ r0.signs = a.signs
      /\ r0.meta.path = None /\ r0.meta.domain = None /\ r0.meta.tool = None
      /\ r0.meta.env = None /\ r0.meta.flags = {}
  BY SanitizedFields DEF NoClaims
<1>2. /\ r.kind = a.kind /\ r.action = a.action /\ r.resource = a.resource /\ r.signs = a.signs
      /\ r.meta.path = c.path /\ r.meta.domain = c.domain /\ r.meta.tool = c.tool /\ r.meta.env = c.env
  BY SanitizedFields DEF Claimable
<1>3. None \notin {"DENY", "QUARANTINE", "KILL"} /\ p.unknown_domain # None /\ p.unknown_tool # None
  BY <1>0, Apart DEF Sound, Decisions
<1>4. a.resource # None /\ {a.tree, a.elapsed} \subseteq Int \cup {None}
  BY Apart DEF Askable
<1>8. CheckPrivilegeEscalation(p, r0) # None => CheckPrivilegeEscalation(p, r) # None
  BY <1>1, <1>2, <1>3 DEF CheckPrivilegeEscalation, If
<1>9. CheckCriticalCommand(p, r0) # None => CheckCriticalCommand(p, r) # None
  BY <1>1, <1>2, <1>3 DEF CheckCriticalCommand, If
<1>10. CheckSandboxEscape(p, r0) # None => CheckSandboxEscape(p, r) # None
  BY <1>1, <1>2, <1>3 DEF CheckSandboxEscape, If
<1>11. CheckPersistence(p, r0) # None => CheckPersistence(p, r) # None
  BY <1>1, <1>2, <1>3 DEF CheckPersistence, If
<1>12. CheckEnvVar(p, r0) # None => CheckEnvVar(p, r) # None
  <2>1. NamedEnv(r0) = IF a.kind = "env_access" THEN a.resource ELSE None
    BY <1>0, <1>1 DEF NamedEnv, Said
  <2>2. a.kind = "env_access" => NamedEnv(r) = a.resource
    BY <1>2 DEF NamedEnv, Said, Kept
  <2> HIDE DEF r0, r
  <2> QED BY <2>1, <2>2, <1>3 DEF CheckEnvVar, If
\* The candidates with nothing claimed, and those with the claims.
<1>13. \A key \in {"path", "domain", "tool"} :
          CandidateValues(r0.meta, r0.resource, key) = {a.resource} \ Nothing
  <2> TAKE key \in {"path", "domain", "tool"}
  <2>1. r0.meta[key] \in Nothing
    BY <1>0, <1>1
  <2> QED BY <2>1, <1>1, RecordedIsACandidate
<1>14. a.kind \in FileEvents => {a.resource} \ Nothing \subseteq CandidateValues(r.meta, r.resource, "path")
  <2> SUFFICES ASSUME a.kind \in FileEvents
               PROVE  {a.resource} \ Nothing \subseteq CandidateValues(r.meta, r.resource, "path")
    OBVIOUS
  <2>1. r.meta["path"] \in Nothing \/ LooksLikePath(r.resource)
    BY <1>2 DEF Kept
  <2> QED BY <2>1, <1>2, RecordedIsACandidate
<1>5. CheckHostResources(p, r0) # None => CheckHostResources(p, r) # None
  <2> SUFFICES ASSUME CheckHostResources(p, r0) # None PROVE CheckHostResources(p, r) # None
    OBVIOUS
  <2> DEFINE V == {HostResourceVerdict(v) : v \in CandidateValues(r0.meta, r0.resource, "path")}
             W == {HostResourceVerdict(v) : v \in CandidateValues(r.meta, r.resource, "path")}
  <2>1. ~p.allow_host /\ a.kind \in FileEvents /\ Worst(V) # None
    BY <1>1 DEF CheckHostResources
  <2>2. V \subseteq W
    BY <1>13, <1>14, <2>1
  <2>4. V \in SUBSET Verdicts /\ W \in SUBSET Verdicts
    BY HostVerdicts
  <2>5. CheckHostResources(p, r) = Worst(W)
    BY <2>1, <1>2 DEF CheckHostResources
  <2> HIDE DEF V, W
  <2> QED BY <2>1, <2>2, <2>4, <2>5, MoreCandidates
<1>15. CheckPaths(p, r0) # None => CheckPaths(p, r) # None
  <2> SUFFICES ASSUME CheckPaths(p, r0) # None PROVE CheckPaths(p, r) # None
    OBVIOUS
  <2> DEFINE V == {PathVerdict(p, v) : v \in CandidateValues(r0.meta, r0.resource, "path")}
             W == {PathVerdict(p, v) : v \in CandidateValues(r.meta, r.resource, "path")}
  <2>1. a.kind \in FileEvents /\ Worst(V) # None
    BY <1>0, <1>1 DEF CheckPaths
  <2>2. V \subseteq W
    BY <1>13, <1>14, <2>1
  <2>4. V \in SUBSET Verdicts /\ W \in SUBSET Verdicts
    BY <1>0, PathVerdicts
  <2>5. CheckPaths(p, r) = Worst(W)
    BY <2>1, <1>2 DEF CheckPaths
  <2> HIDE DEF V, W
  <2> QED BY <2>1, <2>2, <2>4, <2>5, MoreCandidates
<1>16. CheckNetwork(p, r0) # None => CheckNetwork(p, r) # None
  <2> SUFFICES ASSUME CheckNetwork(p, r0) # None PROVE CheckNetwork(p, r) # None
    OBVIOUS
  <2> DEFINE V == {NetworkVerdict(p, v) : v \in CandidateValues(r0.meta, r0.resource, "domain")}
             W == {NetworkVerdict(p, v) : v \in CandidateValues(r.meta, r.resource, "domain")}
  <2>1. a.kind = "network_request" /\ Worst(V) # None
    BY <1>1 DEF CheckNetwork
  <2>2. V \subseteq W
    <3>1. r.meta["domain"] \in Nothing \/ LooksLikeHost(r.resource)
      BY <2>1, <1>2 DEF Kept
    <3>2. {a.resource} \ Nothing \subseteq CandidateValues(r.meta, r.resource, "domain")
      BY <3>1, <1>2, RecordedIsACandidate
    <3> QED BY <3>2, <1>13
  <2>3. Verdicts \subseteq Verdicts /\ p.unknown_domain \in Verdicts
    BY <2>1 DEF Closed, Sound, Verdicts, Refusals
  <2>4. V \in SUBSET Verdicts /\ W \in SUBSET Verdicts
    BY <2>3, NetworkVerdicts
  <2>5. CheckNetwork(p, r) = Worst(W)
    BY <2>1, <1>2 DEF CheckNetwork
  <2> HIDE DEF V, W
  <2> QED BY <2>1, <2>2, <2>4, <2>5, MoreCandidates
<1>17. CheckTools(p, r0) # None => CheckTools(p, r) # None
  <2> SUFFICES ASSUME CheckTools(p, r0) # None PROVE CheckTools(p, r) # None
    OBVIOUS
  <2>0. a.kind = "tool_request"
    BY <1>1 DEF CheckTools
  <2> DEFINE named0 == CandidateValues(r0.meta, r0.resource, "tool")
             named == CandidateValues(r.meta, r.resource, "tool")
             V == {ToolVerdict(p, v) : v \in IF named0 = {} THEN {r0.action} ELSE named0}
             W == {ToolVerdict(p, v) : v \in IF named = {} THEN {r.action} ELSE named}
  <2>1. CheckTools(p, r0) = Worst(V) /\ CheckTools(p, r) = Worst(W)
    BY <2>0, <1>1, <1>2 DEF CheckTools
  <2>2. named0 = {a.resource} \ Nothing /\ r0.action = r.action
    BY <1>1, <1>2, <1>13
  <2>3. {a.resource} \ Nothing \subseteq named /\ (c.tool \in Nothing => named = {a.resource} \ Nothing)
    BY <1>2, RecordedIsACandidate
  <2>4. Verdicts \subseteq Verdicts /\ p.unknown_tool \in Verdicts
    BY <2>0 DEF Closed, Sound, Verdicts, Refusals
  <2>5. V \in SUBSET Verdicts /\ W \in SUBSET Verdicts
    BY <2>4, ToolVerdicts
  <2>6. named0 = {} => a.resource = Empty
    BY <2>2, <1>4 DEF Nothing
  <2>7. named0 = {} => named = {}
    BY <2>0, <2>2, <2>3, <2>6 DEF Kept
  <2> HIDE DEF named0, named
  <2>8. V \subseteq W
    BY <2>2, <2>3, <2>7
  <2> HIDE DEF V, W
  <2> QED BY <2>1, <2>5, <2>8, MoreCandidates
<1>18. CheckProcesses(p, r0) # None => CheckProcesses(p, r) # None
  <2> SUFFICES ASSUME CheckProcesses(p, r0) # None PROVE CheckProcesses(p, r) # None
    OBVIOUS
  <2>1. a.kind = "process_creation" /\ ProcessCountInput(r0) # None
    BY <1>1 DEF CheckProcesses
  <2>2. a.tree # None /\ ProcessCountInput(r0) = a.tree
    BY <2>1, UnclaimedIsNotJudged
  <2>3. a.tree > p.max_processes \/ a.tree > p.max_processes * p.multiplier
    BY <2>1, <2>2 DEF CheckProcesses, If
  <2> QED
    BY <2>1, <2>2, <2>3, <1>0, ProcessesMeasured
<1>19. CheckRuntime(p, r0) # None => CheckRuntime(p, r) # None
  <2> SUFFICES ASSUME CheckRuntime(p, r0) # None PROVE CheckRuntime(p, r) # None
    OBVIOUS
  <2>1. Judged(ResolveFact(r0.meta, "runtime"), r0.meta.runtime) = a.elapsed
    BY UnclaimedIsNotJudged
  <2>2. a.elapsed # None /\ a.elapsed > p.max_runtime
    BY <2>1 DEF CheckRuntime, If
  <2> QED
    BY <2>2, <1>0, RuntimeMeasured
<1> HIDE DEF r0, r
<1>20. Checks(p, r0)[i] # None => Checks(p, r)[i] # None
  BY <1>8, <1>9, <1>10, <1>11, <1>12, <1>5, <1>15, <1>16, <1>17, <1>18, <1>19 DEF Checks
<1> QED
  BY <1>20 DEF r0, r

\* Nor does one lift a tripwire, unless it displaces what touched it.
LEMMA NoTripwireIsUndone ==
  ASSUME NEW a, Askable(a), NEW c, Claimable(c), NEW t, Touches(t, Sanitize(a, NoClaims)),
         a.kind = "env_access" => c.env \in Nothing,
         \/ c.path \in Nothing \/ a.resource = Empty
         \/ ~AnyPathMatches(NormalisePath(a.resource), t.paths)
  PROVE  Touches(t, Sanitize(a, c))
<1> DEFINE r0 == Sanitize(a, NoClaims)  r == Sanitize(a, c)
<1>1. /\ r0.kind = a.kind /\ r0.resource = a.resource /\ r0.signs = a.signs
      /\ r0.meta.path \in Nothing /\ r0.meta.env \in Nothing
  BY InputsAreTyped, SanitizedFields DEF NoClaims, Nothing
<1>2. /\ r.kind = a.kind /\ r.resource = a.resource /\ r.signs = a.signs
      /\ r.meta.path = c.path /\ r.meta.env = c.env
  BY SanitizedFields DEF Claimable
<1>3. Touches(t, r0)
  OBVIOUS
<1> HIDE DEF r0, r
<1>4. t.kinds = {} \/ r.kind \in t.kinds
  BY <1>1, <1>2, <1>3 DEF Touches
<1>5. CASE NamedEnv(r0) # None /\ NamedEnv(r0) \in t.envs
  <2>1. NamedEnv(r0) = IF a.kind = "env_access" THEN a.resource ELSE None
    BY <1>1 DEF NamedEnv, Said
  <2>2. a.kind = "env_access" /\ NamedEnv(r) = a.resource
    BY <2>1, <1>2, <1>5 DEF NamedEnv, Said
  <2> QED BY <2>1, <2>2, <1>4, <1>5 DEF Touches, r
<1>6. CASE r0.signs \cap t.signs # {}
  BY <1>1, <1>2, <1>4, <1>6 DEF Touches, r
<1>7. CASE /\ NormalisePath(Said(r0.meta.path, r0.resource)) # None
           /\ AnyPathMatches(NormalisePath(Said(r0.meta.path, r0.resource)), t.paths)
  <2>1. Said(r0.meta.path, r0.resource) = a.resource
    BY <1>1 DEF Said
  <2>2. NormalisePath(Empty) = None
    BY DEF NormalisePath, Nothing
  <2>3. c.path \in Nothing
    BY <2>1, <2>2, <1>7
  <2>4. Said(r.meta.path, r.resource) = a.resource
    BY <2>3, <1>2 DEF Said
  <2> QED BY <2>1, <2>4, <1>4, <1>7 DEF Touches, r
<1> QED
  BY <1>3, <1>5, <1>6, <1>7 DEF Touches

---------------------------------------------------------------------------
(***************************************************************************)
(* Placements: what a pattern means, without the recursion.                *)
(***************************************************************************)
\* A placement of a pattern of m elements on a text of n: w[i] is where the
\* first i elements end.  The elements of M take any number, element i one at
\* j for the pairs of O.
Place(w, m, n, M, O) ==
  /\ w \in [0 .. m -> Int] /\ w[0] = 0 /\ w[m] = n
  /\ \A i \in 1 .. m : IF i \in M THEN w[i - 1] <= w[i]
                       ELSE w[i] = w[i - 1] + 1 /\ <<i, w[i]>> \in O

\* A placement never goes back.
LEMMA PlaceRises ==
  ASSUME NEW m \in Nat, NEW n, NEW M, NEW O, NEW w, Place(w, m, n, M, O)
  PROVE  \A i \in 0 .. m : \A j \in i .. m : w[i] <= w[j]
<1> TAKE i \in 0 .. m
<1> DEFINE P == {d \in 0 .. m - i : w[i] <= w[i + d]}
<1>1. m - i \in Nat /\ \A j \in 0 .. m : w[j] \in Int
  BY DEF Place
<1>0. \A l \in 1 .. m : w[l - 1] <= w[l]
  <2> TAKE l \in 1 .. m
  <2>1. w[l - 1] \in Int /\ w[l] \in Int
    BY <1>1
  <2>2. w[l - 1] <= w[l] \/ w[l] = w[l - 1] + 1
    BY DEF Place
  <2> QED BY <2>1, <2>2
<1>2. 0 \in P
  BY <1>1
<1>3. ASSUME NEW d \in 0 .. (m - i) - 1, d \in P PROVE d + 1 \in P
  <2>1. i + (d + 1) \in 1 .. m /\ (i + (d + 1)) - 1 = i + d /\ d + 1 \in 0 .. m - i /\ i + d \in 0 .. m
    BY <1>1
  <2>2. w[i + d] <= w[i + (d + 1)]
    <3>1. PICK l \in 1 .. m : l = i + (d + 1)
      BY <2>1
    <3>2. w[l - 1] <= w[l] /\ l - 1 = i + d
      BY <3>1, <2>1, <1>0
    <3> QED BY <3>1, <3>2
  <2>3. w[i + d] \in Int /\ w[i + (d + 1)] \in Int /\ w[i] \in Int /\ w[i] <= w[i + d]
    BY <2>1, <1>1, <1>3
  <2> QED BY <2>1, <2>2, <2>3
<1> HIDE DEF P
<1>4. \A d \in 0 .. m - i : d \in P
  BY <1>1, <1>2, <1>3, Upward
<1> TAKE j \in i .. m
<1>5. j - i \in 0 .. m - i /\ i + (j - i) = j
  OBVIOUS
<1> QED BY <1>4, <1>5 DEF P

\* A placement of one element fewer,
LEMMA PlaceLess ==
  ASSUME NEW i \in Nat, NEW j \in Int, NEW M, NEW O, NEW w, Place(w, i + 1, j, M, O)
  PROVE  Place([l \in 0 .. i |-> w[l]], i, w[i], M, O) /\ w[i] \in Int
<1> DEFINE v == [l \in 0 .. i |-> w[l]]
<1>1. /\ \A l \in 0 .. i : l \in 0 .. i + 1 /\ v[l] = w[l] /\ w[l] \in Int
      /\ \A l \in 1 .. i : l \in 1 .. i + 1 /\ l - 1 \in 0 .. i /\ l \in 0 .. i
      /\ 0 \in 0 .. i /\ i \in 0 .. i
  BY DEF Place
<1>2. v \in [0 .. i -> Int]
  BY <1>1
<1>3. \A l \in 1 .. i : IF l \in M THEN v[l - 1] <= v[l] ELSE v[l] = v[l - 1] + 1 /\ <<l, v[l]>> \in O
  <2> TAKE l \in 1 .. i
  <2>1. v[l] = w[l] /\ v[l - 1] = w[l - 1] /\ l \in 1 .. i + 1
    BY <1>1
  <2> HIDE DEF v
  <2> QED BY <2>1 DEF Place
<1>4. v[0] = 0 /\ v[i] = w[i]
  BY <1>1 DEF Place
<1> HIDE DEF v
<1>5. Place(v, i, w[i], M, O)
  BY <1>2, <1>3, <1>4 DEF Place
<1> QED BY <1>1, <1>5 DEF v

\* and of one more.
LEMMA PlaceMore ==
  ASSUME NEW i \in Nat, NEW k \in Int, NEW j \in Int, NEW M, NEW O, NEW w, Place(w, i, k, M, O),
         IF i + 1 \in M THEN k <= j ELSE j = k + 1 /\ <<i + 1, j>> \in O
  PROVE  \E v : Place(v, i + 1, j, M, O)
<1> DEFINE v == [l \in 0 .. i + 1 |-> IF l = i + 1 THEN j ELSE w[l]]
<1>1. /\ v \in [0 .. i + 1 -> Int]
      /\ \A l \in 0 .. i : v[l] = w[l]
      /\ v[i + 1] = j /\ v[0] = 0 /\ v[i] = k
  BY DEF Place
<1>2. \A l \in 1 .. i + 1 : IF l \in M THEN v[l - 1] <= v[l] ELSE v[l] = v[l - 1] + 1 /\ <<l, v[l]>> \in O
  <2> TAKE l \in 1 .. i + 1
  <2>1. CASE l = i + 1
    <3>1. v[l] = j /\ v[l - 1] = k
      BY <2>1, <1>1
    <3> HIDE DEF v
    <3> QED BY <2>1, <3>1
  <2>2. CASE l \in 1 .. i
    <3>1. v[l] = w[l] /\ v[l - 1] = w[l - 1]
      BY <2>2, <1>1
    <3> HIDE DEF v
    <3> QED BY <2>2, <3>1 DEF Place
  <2> QED BY <2>1, <2>2
<1> HIDE DEF v
<1>3. Place(v, i + 1, j, M, O)
  BY <1>1, <1>2 DEF Place
<1> QED BY <1>3

\* What one row of the recursion of Denotes makes of the row before it.
NextRow(up, i, n, M, O) ==
  IF i = 0 THEN {0}
  ELSE IF i \in M THEN {j \in 0 .. n : \E k \in up[i - 1] : k <= j}
  ELSE {j \in 1 .. n : j - 1 \in up[i - 1] /\ <<i, j>> \in O}

IsRows(up, m, n, M, O) == up = [i \in 0 .. m |-> NextRow(up, i, n, M, O)]

\* The recursion has a solution,
LEMMA RowsExist ==
  ASSUME NEW m \in Nat, NEW n, NEW M, NEW O
  PROVE  \E up : IsRows(up, m, n, M, O)
<1> DEFINE Solves(g, l) == g = [i \in 0 .. l |-> NextRow(g, i, n, M, O)]
           P == {l \in 0 .. m : \E g : Solves(g, l)}
<1>1. 0 \in P
  <2> DEFINE g == [i \in 0 .. 0 |-> {0}]
  <2>1. \A i \in 0 .. 0 : i = 0
    OBVIOUS
  <2>2. Solves(g, 0) /\ 0 \in 0 .. m
    BY <2>1 DEF NextRow
  <2> HIDE DEF g, Solves
  <2> QED BY <2>2
<1>2. ASSUME NEW l \in 0 .. m - 1, l \in P PROVE l + 1 \in P
  <2>1. PICK g : Solves(g, l)
    BY <1>2
  <2> DEFINE h == [i \in 0 .. l + 1 |-> IF i = l + 1 THEN NextRow(g, i, n, M, O) ELSE g[i]]
  <2>2. l \in Nat /\ l + 1 \in 0 .. m /\ \A i \in 0 .. l : i # l + 1 /\ i \in 0 .. l + 1
    OBVIOUS
  <2>3. \A i \in 0 .. l : h[i] = g[i] /\ g[i] = NextRow(g, i, n, M, O)
    <3> HIDE DEF h
    <3>1. \A i \in 0 .. l : g[i] = NextRow(g, i, n, M, O)
      BY <2>1
    <3>2. \A i \in 0 .. l : h[i] = g[i]
      BY <2>2 DEF h
    <3> QED BY <3>1, <3>2
  <2>4. h[l + 1] = NextRow(g, l + 1, n, M, O)
    BY <2>2
  <2>5. \A i \in 0 .. l + 1 : h[i] = NextRow(h, i, n, M, O)
    <3> TAKE i \in 0 .. l + 1
    <3>1. h[i] = NextRow(g, i, n, M, O)
      <4>1. i = l + 1 \/ i \in 0 .. l
        BY <2>2
      <4>2. CASE i = l + 1
        BY <4>2, <2>4
      <4>3. CASE i \in 0 .. l
        BY <4>3, <2>3
      <4> QED BY <4>1, <4>2, <4>3
    <3>2. CASE i = 0
      BY <3>1, <3>2 DEF NextRow
    <3>3. CASE i # 0
      <4>1. i - 1 \in 0 .. l
        BY <3>3, <2>2
      <4>2. h[i - 1] = g[i - 1]
        BY <4>1, <2>3
      <4> HIDE DEF h
      <4> QED BY <3>1, <3>3, <4>2 DEF NextRow
    <3> QED BY <3>2, <3>3
  <2>6. Solves(h, l + 1)
    BY <2>5
  <2> HIDE DEF h, Solves
  <2> QED BY <2>2, <2>6
<1> HIDE DEF P
<1>3. m \in P
  <2>1. \A l \in 0 .. m : l \in P
    BY <1>1, <1>2, Upward
  <2> QED BY <2>1
<1>4. PICK g : Solves(g, m)
  BY <1>3 DEF P
<1> QED BY <1>4 DEF IsRows

\* and tells where placements can end.
LEMMA RowsPlace ==
  ASSUME NEW m \in Nat, NEW n \in Nat, NEW M, NEW O, NEW up,
         \A i \in 0 .. m : up[i] = NextRow(up, i, n, M, O)
  PROVE  n \in up[m] <=> \E w : Place(w, m, n, M, O)
<1> DEFINE P == {i \in 0 .. m : /\ up[i] \subseteq 0 .. n
                                /\ \A j \in 0 .. n : j \in up[i] <=> \E w : Place(w, i, j, M, O)}
<1>1. 0 \in P
  <2>1. 0 \in 0 .. m /\ 0 \in 0 .. n
    OBVIOUS
  <2>4. up[0] = {0}
    BY <2>1 DEF NextRow
  <2>2. Place([l \in 0 .. 0 |-> 0], 0, 0, M, O)
    BY DEF Place
  <2>3. \A j, w : Place(w, 0, j, M, O) => j = 0
    BY DEF Place
  <2> QED BY <2>1, <2>2, <2>3, <2>4
<1>2. ASSUME NEW i \in 0 .. m - 1, i \in P PROVE i + 1 \in P
  <2>1. i \in Nat /\ i + 1 \in 0 .. m /\ i + 1 # 0 /\ (i + 1) - 1 = i
    OBVIOUS
  <2>2. up[i] \subseteq 0 .. n /\ \A j \in 0 .. n : j \in up[i] <=> \E w : Place(w, i, j, M, O)
    BY <1>2
  <2>3. up[i + 1] = IF i + 1 \in M THEN {j \in 0 .. n : \E k \in up[i] : k <= j}
                    ELSE {j \in 1 .. n : j - 1 \in up[i] /\ <<i + 1, j>> \in O}
    BY <2>1 DEF NextRow
  <2> HIDE DEF P
  <2>4. ASSUME NEW j \in 0 .. n, j \in up[i + 1] PROVE \E w : Place(w, i + 1, j, M, O)
    <3>1. PICK k \in up[i] : IF i + 1 \in M THEN k <= j ELSE j = k + 1 /\ <<i + 1, j>> \in O
      BY <2>3, <2>4
    <3>2. k \in 0 .. n
      BY <3>1, <2>2
    <3>3. PICK w : Place(w, i, k, M, O)
      BY <3>1, <3>2, <2>2
    <3> QED BY <2>1, <3>1, <3>2, <3>3, PlaceMore
  <2>5. ASSUME NEW j \in 0 .. n, NEW w, Place(w, i + 1, j, M, O) PROVE j \in up[i + 1]
    <3>1. /\ w[i] \in Int /\ w[i + 1] = j /\ w[0] = 0
          /\ IF i + 1 \in M THEN w[i] <= j ELSE j = w[i] + 1 /\ <<i + 1, j>> \in O
      BY <2>1, <2>5 DEF Place
    <3>2. 0 <= w[i]
      BY <2>1, <2>5, <3>1, PlaceRises
    <3>3. w[i] \in 0 .. n
      BY <3>1, <3>2
    <3>4. w[i] \in up[i]
      <4>1. Place([l \in 0 .. i |-> w[l]], i, w[i], M, O)
        BY <2>1, <2>5, PlaceLess
      <4> QED BY <4>1, <3>3, <2>2
    <3>5. CASE i + 1 \in M
      BY <3>1, <3>4, <3>5, <2>3
    <3>6. CASE i + 1 \notin M
      BY <3>1, <3>3, <3>4, <3>6, <2>3
    <3> QED BY <3>5, <3>6
  <2>6. up[i + 1] \subseteq 0 .. n
    BY <2>3
  <2> QED BY <2>1, <2>4, <2>5, <2>6 DEF P
<1> HIDE DEF P
<1>3. m \in P
  <2>1. \A l \in 0 .. m : l \in P
    BY <1>1, <1>2, Upward
  <2> QED BY <2>1
<1> QED BY <1>3 DEF P

\* Where a pattern has its elements that take any number, and what the others
\* take.
Stars(p) == {i \in DOMAIN p : p[i] = Wild}
Chars(p, t) == {x \in (1 .. Len(p)) \X (1 .. Len(t)) : p[x[1]] \in {One, t[x[2]]}}
Spans(p) == {i \in 1 .. Len(p) : p[i] = Span}
Segments(p, t) == {x \in (1 .. Len(p)) \X (1 .. Len(t)) : SegmentMeans(p[x[1]], t[x[2]])}

\* A segment means what has a placement,
LEMMA SegmentPlaced ==
  ASSUME NEW p \in Seq(STRING), NEW t \in Seq(STRING)
  PROVE  SegmentMeans(p, t) <=> \E w : Place(w, Len(p), Len(t), Stars(p), Chars(p, t))
<1> DEFINE m == Len(p)  n == Len(t)
           Row(up, i) == IF i = 0 THEN {0}
                         ELSE IF p[i] = Wild THEN {j \in 0 .. n : \E k \in up[i - 1] : k <= j}
                         ELSE {j \in 1 .. n : j - 1 \in up[i - 1] /\ p[i] \in {One, t[j]}}
           Solves(up) == up = [i \in 0 .. m |-> Row(up, i)]
           ends == CHOOSE up : Solves(up)
<1>1. SegmentMeans(p, t) <=> n \in ends[m]
  BY DEF SegmentMeans, Denotes
<1>2. m \in Nat /\ n \in Nat
  OBVIOUS
<1>3. \A up : \A i \in 0 .. m : Row(up, i) = NextRow(up, i, n, Stars(p), Chars(p, t))
  <2> TAKE up
  <2> TAKE i \in 0 .. m
  <2>1. CASE i = 0
    BY <2>1 DEF NextRow
  <2>2. CASE i # 0
    <3>1. i \in 1 .. m /\ (i \in Stars(p) <=> p[i] = Wild)
      BY <2>2, <1>2 DEF Stars
    <3>2. \A j \in 1 .. n : <<i, j>> \in Chars(p, t) <=> p[i] \in {One, t[j]}
      BY <3>1 DEF Chars
    <3> HIDE DEF m, n
    <3> QED BY <2>2, <3>1, <3>2 DEF NextRow
  <2> QED BY <2>1, <2>2
<1> HIDE DEF m, n, Row
<1>4. \E up : Solves(up)
  <2>1. PICK up : IsRows(up, m, n, Stars(p), Chars(p, t))
    BY <1>2, RowsExist
  <2>2. up = [i \in 0 .. m |-> up[i]] /\ \A i \in 0 .. m : up[i] = Row(up, i)
    BY <1>3, <2>1 DEF IsRows
  <2>3. Solves(up)
    BY <2>2
  <2> HIDE DEF Solves
  <2> QED BY <2>3
<1>5. Solves(ends)
  <2> HIDE DEF Solves
  <2> QED BY <1>4
<1>6. \A i \in 0 .. m : ends[i] = NextRow(ends, i, n, Stars(p), Chars(p, t))
  <2> HIDE DEF ends
  <2> QED BY <1>3, <1>5
<1> HIDE DEF ends
<1>7. n \in ends[m] <=> \E w : Place(w, m, n, Stars(p), Chars(p, t))
  BY <1>2, <1>6, RowsPlace
<1> QED BY <1>1, <1>7 DEF m, n

\* Between two elements that take any number, a placement takes one step at a
\* time.
LEMMA PlaceSteps ==
  ASSUME NEW m \in Nat, NEW n, NEW M, NEW O, NEW w, Place(w, m, n, M, O),
         NEW a \in 0 .. m, NEW b \in a .. m, \A i \in a + 1 .. b : i \notin M
  PROVE  /\ \A i \in a .. b : w[i] = w[a] + (i - a)
         /\ \A i \in a + 1 .. b : <<i, w[a] + (i - a)>> \in O
<1> DEFINE P == {d \in 0 .. b - a : w[a + d] = w[a] + d}
<1>1. b - a \in Nat /\ \A j \in 0 .. m : w[j] \in Int
  BY DEF Place
<1>2. \A i \in a + 1 .. b : i \in 1 .. m /\ w[i] = w[i - 1] + 1 /\ <<i, w[i]>> \in O
  BY DEF Place
<1>3. 0 \in P
  BY <1>1
<1>4. ASSUME NEW d \in 0 .. (b - a) - 1, d \in P PROVE d + 1 \in P
  <2>1. a + (d + 1) \in a + 1 .. b /\ (a + (d + 1)) - 1 = a + d /\ d + 1 \in 0 .. b - a
    BY <1>1
  <2>2. PICK i \in a + 1 .. b : i = a + (d + 1)
    BY <2>1
  <2>3. w[i] = w[i - 1] + 1 /\ i - 1 = a + d
    BY <1>2, <2>1, <2>2
  <2>4. w[a + d] = w[a] + d /\ w[a] \in Int
    BY <1>1, <1>4
  <2>5. w[a + (d + 1)] = w[a] + (d + 1)
    BY <2>2, <2>3, <2>4
  <2> QED BY <2>1, <2>5
<1> HIDE DEF P
<1>5. \A d \in 0 .. b - a : d \in P
  BY <1>1, <1>3, <1>4, Upward
<1>6. ASSUME NEW i \in a .. b PROVE w[i] = w[a] + (i - a)
  <2>1. i - a \in 0 .. b - a /\ a + (i - a) = i
    OBVIOUS
  <2> QED BY <2>1, <1>5 DEF P
<1>7. ASSUME NEW i \in a + 1 .. b PROVE <<i, w[a] + (i - a)>> \in O
  <2>1. i \in a .. b
    OBVIOUS
  <2> QED BY <2>1, <1>2, <1>6
<1> QED BY <1>6, <1>7

\* and from the start of the text as well.
LEMMA PlaceStart ==
  ASSUME NEW m \in Nat, NEW n, NEW M, NEW O, NEW w, Place(w, m, n, M, O),
         NEW b \in 0 .. m, \A i \in 1 .. b : i \notin M
  PROVE  \A i \in 0 .. b : w[i] = i /\ (i # 0 => <<i, i>> \in O)
<1>1. 0 \in 0 .. m /\ b \in 0 .. m /\ \A i \in 0 + 1 .. b : i \notin M
  OBVIOUS
<1>2. /\ \A i \in 0 .. b : w[i] = w[0] + (i - 0)
      /\ \A i \in 0 + 1 .. b : <<i, w[0] + (i - 0)>> \in O
  BY <1>1, PlaceSteps
<1>3. w[0] = 0
  BY DEF Place
<1> TAKE i \in 0 .. b
<1>4. w[0] + (i - 0) = i /\ (i # 0 => i \in 0 + 1 .. b)
  BY <1>3
<1> QED BY <1>2, <1>4

\* Between any two places it takes at least what lies between them.
LEMMA PlaceNeeds ==
  ASSUME NEW m \in Nat, NEW n, NEW M, NEW O, NEW w, Place(w, m, n, M, O),
         NEW a \in 0 .. m, NEW b \in a .. m
  PROVE  w[a] + Cardinality({i \in a + 1 .. b : i \notin M}) <= w[b]
<1> DEFINE C(d) == {i \in a + 1 .. a + d : i \notin M}
           P == {d \in 0 .. b - a : /\ IsFiniteSet(C(d)) /\ Cardinality(C(d)) \in Nat
                                    /\ w[a] + Cardinality(C(d)) <= w[a + d]}
<1>1. b - a \in Nat /\ \A j \in 0 .. m : w[j] \in Int
  BY DEF Place
<1>2. \A i \in a + 1 .. b : IF i \in M THEN w[i - 1] <= w[i] ELSE w[i] = w[i - 1] + 1
  <2> TAKE i \in a + 1 .. b
  <2>1. i \in 1 .. m
    OBVIOUS
  <2> QED BY <2>1 DEF Place
<1>3. 0 \in P
  <2>1. C(0) = {} /\ 0 \in 0 .. b - a /\ a + 0 = a /\ w[a] \in Int
    BY <1>1
  <2> HIDE DEF C
  <2> QED BY <2>1, FS_EmptySet
<1>4. ASSUME NEW d \in 0 .. (b - a) - 1, d \in P PROVE d + 1 \in P
  <2>1. PICK i \in a + 1 .. b : i = a + (d + 1)
    BY <1>1
  <2>2. i - 1 = a + d /\ i - 1 \in 0 .. m /\ i \in 0 .. m /\ d + 1 \in 0 .. b - a
    BY <2>1
  <2>3. w[i - 1] \in Int /\ w[i] \in Int /\ w[a] \in Int
    BY <2>2, <1>1
  <2>4. /\ IsFiniteSet(C(d)) /\ Cardinality(C(d)) \in Nat
        /\ w[a] + Cardinality(C(d)) <= w[i - 1]
    BY <2>2, <1>4
  <2>5. i \notin C(d) /\ C(d + 1) = IF i \in M THEN C(d) ELSE C(d) \cup {i}
    BY <2>1, <2>2
  <2> HIDE DEF C
  <2>6. CASE i \in M
    <3>1. w[i - 1] <= w[i]
      BY <2>6, <1>2
    <3> QED BY <2>1, <2>2, <2>3, <2>4, <2>5, <2>6, <3>1
  <2>7. CASE i \notin M
    <3>1. w[i] = w[i - 1] + 1
      BY <2>7, <1>2
    <3>2. IsFiniteSet(C(d + 1)) /\ Cardinality(C(d + 1)) = Cardinality(C(d)) + 1
      BY <2>4, <2>5, <2>7, FS_AddElement
    <3> QED BY <2>1, <2>2, <2>3, <2>4, <3>1, <3>2
  <2> QED BY <2>6, <2>7
<1> HIDE DEF P
<1>5. b - a \in P
  <2>1. \A d \in 0 .. b - a : d \in P
    BY <1>1, <1>3, <1>4, Upward
  <2> QED BY <2>1, <1>1
<1>6. a + (b - a) = b
  OBVIOUS
<1> QED BY <1>5, <1>6 DEF P

\* The pattern that is matched: one without wildcards stands for all below.
Reads(p) == IF HasWildcard(p) THEN p ELSE Append(p, Span)

\* A path means what has a placement too.
LEMMA PathPlaced ==
  ASSUME NEW p \in Seq(Seq(STRING)), NEW t \in Seq(Seq(STRING))
  PROVE  LET q == Reads(p)
         IN PathMeans(p, t) <=> \E w : Place(w, Len(q), Len(t), Spans(q), Segments(q, t))
<1> DEFINE q == Reads(p)  m == Len(q)  n == Len(t)
           Row(up, i) == IF i = 0 THEN {0}
                         ELSE IF q[i] = Span THEN {j \in 0 .. n : \E k \in up[i - 1] : k <= j}
                         ELSE {j \in 1 .. n : j - 1 \in up[i - 1] /\ SegmentMeans(q[i], t[j])}
           Solves(up) == up = [i \in 0 .. m |-> Row(up, i)]
           ends == CHOOSE up : Solves(up)
<1>1. PathMeans(p, t) <=> n \in ends[m]
  BY DEF PathMeans, Denotes, Reads
<1>2. m \in Nat /\ n \in Nat
  BY DEF Reads, Span
<1>3. \A up : \A i \in 0 .. m : Row(up, i) = NextRow(up, i, n, Spans(q), Segments(q, t))
  <2> HIDE DEF q
  <2> TAKE up
  <2> TAKE i \in 0 .. m
  <2>1. CASE i = 0
    BY <2>1 DEF NextRow
  <2>2. CASE i # 0
    <3>1. i \in 1 .. m /\ (i \in Spans(q) <=> q[i] = Span)
      BY <2>2, <1>2 DEF Spans
    <3>2. \A j \in 1 .. n : <<i, j>> \in Segments(q, t) <=> SegmentMeans(q[i], t[j])
      BY <3>1 DEF Segments
    <3> HIDE DEF m, n
    <3> QED BY <2>2, <3>1, <3>2 DEF NextRow
  <2> QED BY <2>1, <2>2
<1> HIDE DEF m, n, q, Row
<1>4. \E up : Solves(up)
  <2>1. PICK up : IsRows(up, m, n, Spans(q), Segments(q, t))
    BY <1>2, RowsExist
  <2>2. up = [i \in 0 .. m |-> up[i]] /\ \A i \in 0 .. m : up[i] = Row(up, i)
    BY <1>3, <2>1 DEF IsRows
  <2>3. Solves(up)
    BY <2>2
  <2> HIDE DEF Solves
  <2> QED BY <2>3
<1>5. Solves(ends)
  <2> HIDE DEF Solves
  <2> QED BY <1>4
<1>6. \A i \in 0 .. m : ends[i] = NextRow(ends, i, n, Spans(q), Segments(q, t))
  <2> HIDE DEF ends
  <2> QED BY <1>3, <1>5
<1> HIDE DEF ends
<1>7. n \in ends[m] <=> \E w : Place(w, m, n, Spans(q), Segments(q, t))
  BY <1>2, <1>6, RowsPlace
<1> QED BY <1>1, <1>7 DEF m, n, q

\* A segment without wildcards means itself,
LEMMA LiteralSegment ==
  ASSUME NEW s \in Seq(STRING), ~Has(s, {Wild, One}), NEW u \in Seq(STRING)
  PROVE  SegmentMeans(s, u) <=> s = u
<1> DEFINE m == Len(s)  n == Len(u)
<1>1. m \in Nat /\ n \in Nat /\ \A i \in 1 .. m : s[i] # Wild /\ s[i] # One
  BY DEF Has
<1>0. m \in Nat /\ n \in Nat /\ m \in 0 .. m
  BY <1>1
<1>2. (\A i : i \notin Stars(s)) /\ \A i \in 1 .. m : \A j \in 1 .. n : <<i, j>> \in Chars(s, u) <=> s[i] = u[j]
  BY <1>1 DEF Stars, Chars
<1>3. Chars(s, u) \subseteq (1 .. m) \X (1 .. n)
  BY DEF Chars
<1>4. SegmentMeans(s, u) <=> \E w : Place(w, m, n, Stars(s), Chars(s, u))
  BY SegmentPlaced
<1> HIDE DEF m, n
<1>5. ASSUME NEW w, Place(w, m, n, Stars(s), Chars(s, u)) PROVE s = u
  <2>1. w[0] = 0 /\ w[m] = n
    BY <1>5 DEF Place
  <2>2. \A i \in 0 .. m : w[i] = i /\ (i # 0 => <<i, i>> \in Chars(s, u))
    BY <1>0, <1>2, <1>5, PlaceStart
  <2>3. m = n
    BY <1>0, <2>1, <2>2
  <2>4. \A i \in 1 .. m : s[i] = u[i]
    <3> TAKE i \in 1 .. m
    <3>1. i \in 0 .. m /\ i # 0 /\ i \in 1 .. n
      BY <1>1, <2>3
    <3> QED BY <3>1, <1>2, <2>2
  <2> QED BY <2>3, <2>4, SeqEqual DEF m, n
<1>6. ASSUME s = u PROVE \E w : Place(w, m, n, Stars(s), Chars(s, u))
  <2> DEFINE w == [i \in 0 .. m |-> i]
  <2>1. m = n
    BY <1>6 DEF m, n
  <2>2. w \in [0 .. m -> Int] /\ w[0] = 0 /\ w[m] = m
    BY <1>1
  <2>3. \A i \in 1 .. m : w[i] = w[i - 1] + 1 /\ w[i] = i
    BY <1>1
  <2>4. \A i \in 1 .. m : <<i, i>> \in Chars(s, u)
    BY <1>1, <1>2, <1>6, <2>1
  <2> HIDE DEF w
  <2>5. Place(w, m, n, Stars(s), Chars(s, u))
    BY <1>2, <2>1, <2>2, <2>3, <2>4 DEF Place
  <2> QED BY <2>5
<1> QED BY <1>4, <1>5, <1>6

\* and a path without wildcards itself and what is below it.
LEMMA LiteralPath ==
  ASSUME NEW p \in Seq(Seq(STRING)), ~HasWildcard(p), NEW u \in Seq(Seq(STRING))
  PROVE  PathMeans(p, u) <=> IsPrefix(p, u)
<1> DEFINE m == Len(p)  n == Len(u)  q == Append(p, Span)
<1>1. m \in Nat /\ n \in Nat /\ Len(q) = m + 1 /\ q = Reads(p)
  BY DEF Reads
<1>2. \A i \in 1 .. m : q[i] = p[i] /\ p[i] \in Seq(STRING) /\ ~Has(p[i], {Wild, One})
  <2> TAKE i \in 1 .. m
  <2>1. q[i] = p[i] /\ p[i] \in Seq(STRING) /\ i \in DOMAIN p
    OBVIOUS
  <2> HIDE DEF q, m
  <2> QED BY <2>1 DEF HasWildcard
<1>3. q[m + 1] = Span /\ \A i \in 1 .. m : q[i] # Span
  <2>1. Span[1] = Wild /\ 1 \in DOMAIN Span
    BY DEF Span
  <2>2. Has(Span, {Wild, One})
    BY <2>1 DEF Has
  <2>3. q[m + 1] = Span
    OBVIOUS
  <2> QED BY <1>2, <2>2, <2>3
<1>4. \A j \in 1 .. n : u[j] \in Seq(STRING)
  OBVIOUS
<1>5. IsPrefix(p, u) <=> m <= n /\ \A i \in 1 .. m : p[i] = u[i]
  BY DEF IsPrefix
<1> HIDE DEF m, n, q
<1>6. Spans(q) = {m + 1}
  <2>1. \A i : i \in 1 .. m + 1 <=> i \in 1 .. m \/ i = m + 1
    BY <1>1
  <2>2. \A i \in 1 .. m + 1 : q[i] = Span <=> i = m + 1
    BY <1>1, <1>3, <2>1
  <2> QED BY <1>1, <2>1, <2>2 DEF Spans
<1>7. \A i \in 1 .. m : \A j \in 1 .. n : <<i, j>> \in Segments(q, u) <=> p[i] = u[j]
  <2> TAKE i \in 1 .. m
  <2> TAKE j \in 1 .. n
  <2>1. <<i, j>> \in Segments(q, u) <=> SegmentMeans(p[i], u[j])
    BY <1>1, <1>2 DEF Segments, n
  <2> QED BY <2>1, <1>2, <1>4, LiteralSegment
<1>8. PathMeans(p, u) <=> \E w : Place(w, m + 1, n, {m + 1}, Segments(q, u))
  BY <1>1, <1>6, PathPlaced DEF n
<1>9. ASSUME NEW w, Place(w, m + 1, n, {m + 1}, Segments(q, u)) PROVE IsPrefix(p, u)
  <2>1. w[0] = 0 /\ w[m + 1] = n /\ w[m] <= w[m + 1]
    <3>1. m + 1 \in 1 .. m + 1 /\ m + 1 \in {m + 1} /\ (m + 1) - 1 = m
      BY <1>1
    <3>2. w[(m + 1) - 1] <= w[m + 1]
      BY <1>9, <3>1 DEF Place
    <3> QED BY <1>9, <3>1, <3>2 DEF Place
  <2>2. \A i \in 0 .. m : w[i] = i /\ (i # 0 => <<i, i>> \in Segments(q, u))
    <3>1. m + 1 \in Nat /\ m \in 0 .. m + 1 /\ \A i \in 1 .. m : i \notin {m + 1}
      BY <1>1
    <3> QED BY <1>9, <3>1, PlaceStart
  <2>3. m <= n
    <3>1. m \in Nat /\ n \in Nat /\ m \in 0 .. m
      BY <1>1
    <3> QED BY <3>1, <2>1, <2>2
  <2>4. \A i \in 1 .. m : p[i] = u[i]
    <3> TAKE i \in 1 .. m
    <3>1. i \in 0 .. m /\ i # 0 /\ i \in 1 .. n
      BY <1>1, <2>3
    <3> QED BY <3>1, <1>7, <2>2
  <2> QED BY <1>5, <2>3, <2>4
<1>10. ASSUME IsPrefix(p, u) PROVE \E w : Place(w, m + 1, n, {m + 1}, Segments(q, u))
  <2> DEFINE w == [i \in 0 .. m + 1 |-> IF i = m + 1 THEN n ELSE i]
  <2>1. m <= n /\ \A i \in 1 .. m : p[i] = u[i]
    BY <1>5, <1>10
  <2>2. w \in [0 .. m + 1 -> Int] /\ w[0] = 0 /\ w[m] = m /\ w[m + 1] = n
    BY <1>1
  <2>3. \A i \in 1 .. m : w[i] = w[i - 1] + 1 /\ w[i] = i
    BY <1>1
  <2>4. \A i \in 1 .. m : <<i, i>> \in Segments(q, u)
    BY <1>1, <1>7, <2>1
  <2> HIDE DEF w
  <2>5. \A i \in 1 .. m + 1 : IF i \in {m + 1} THEN w[i - 1] <= w[i]
                               ELSE w[i] = w[i - 1] + 1 /\ <<i, w[i]>> \in Segments(q, u)
    <3> TAKE i \in 1 .. m + 1
    <3>1. CASE i = m + 1
      BY <3>1, <1>1, <2>1, <2>2
    <3>2. CASE i \in 1 .. m
      BY <3>2, <1>1, <2>3, <2>4
    <3> QED BY <3>1, <3>2, <1>1
  <2>6. Place(w, m + 1, n, {m + 1}, Segments(q, u))
    BY <2>2, <2>5 DEF Place
  <2> QED BY <2>6
<1> QED BY <1>8, <1>9, <1>10

---------------------------------------------------------------------------
(***************************************************************************)
(* One segment: _segment_matches answers what a segment pattern means.     *)
(***************************************************************************)
\* A block of a segment pattern at a place of a text.
Occurs(block, t, at) == \A i \in DOMAIN block : block[i] \in {One, t[at + i]}

\* A part of a sequence.
LEMMA Part ==
  ASSUME NEW s \in Seq(STRING), NEW a \in Nat \ {0}, NEW b \in Nat, a <= b + 1, b <= Len(s)
  PROVE  /\ SubSeq(s, a, b) \in Seq(STRING) /\ Len(SubSeq(s, a, b)) = (b - a) + 1
         /\ \A i \in 1 .. (b - a) + 1 : SubSeq(s, a, b)[i] = s[(a - 1) + i]
<1>1. \A i \in a .. b : s[i] \in STRING
  OBVIOUS
<1>2. Len(SubSeq(s, a, b)) = (b - a) + 1 /\ SubSeq(s, a, b) \in Seq(STRING)
  BY <1>1, SubSeqProperties
<1>3. \A i \in 1 .. (b - a) + 1 : SubSeq(s, a, b)[i] = s[(a - 1) + i]
  BY <1>1, SubSeqProperties
<1> QED BY <1>2, <1>3

\* What is found is the first place of all where the block occurs.
Finds(found, block, t, start, end) ==
  \/ found = -1 /\ \A at \in start .. end - Len(block) : ~Occurs(block, t, at)
  \/ /\ found \in start .. end - Len(block) /\ Occurs(block, t, found)
     /\ \A at \in start .. end - Len(block) : Occurs(block, t, at) => found <= at

\* The scan of a literal block,
LEMMA LiteralFinds ==
  ASSUME NEW block \in Seq(STRING), ~Has(block, {One}), NEW t \in Seq(STRING),
         NEW start \in Nat, NEW end \in Int, end <= Len(t)
  PROVE  Finds(LiteralFind(block, t, start, end), block, t, start, end)
<1> DEFINE L == Len(block)
           At == {i \in start .. end - L : SubSeq(t, i + 1, i + L) = block}
<1>1. L \in Nat /\ \A i \in 1 .. L : block[i] # One
  BY DEF Has
<1>2. \A at \in start .. end - L : at \in At <=> Occurs(block, t, at)
  <2> TAKE at \in start .. end - L
  <2>1. at \in Nat /\ at + 1 \in Nat \ {0} /\ at + L \in Nat /\ at + 1 <= (at + L) + 1 /\ at + L <= Len(t)
    BY <1>1
  <2> DEFINE u == SubSeq(t, at + 1, at + L)
  <2>2. /\ u \in Seq(STRING) /\ Len(u) = ((at + L) - (at + 1)) + 1
        /\ \A i \in 1 .. ((at + L) - (at + 1)) + 1 : u[i] = t[((at + 1) - 1) + i]
    <3> HIDE DEF L
    <3> QED BY <2>1, Part
  <2>3. ((at + L) - (at + 1)) + 1 = L /\ (at + 1) - 1 = at
    BY <2>1, <1>1
  <2>4. u \in Seq(STRING) /\ Len(u) = L /\ \A i \in 1 .. L : u[i] = t[at + i]
    BY <2>2, <2>3
  <2> HIDE DEF u
  <2>5. u = block <=> \A i \in 1 .. L : block[i] = u[i]
    BY <2>4, SeqEqual
  <2>6. Occurs(block, t, at) <=> \A i \in 1 .. L : block[i] = t[at + i]
    <3>1. DOMAIN block = 1 .. L
      OBVIOUS
    <3>2. \A i \in 1 .. L : block[i] \in {One, t[at + i]} <=> block[i] = t[at + i]
      BY <1>1
    <3> HIDE DEF L
    <3> QED BY <3>1, <3>2 DEF Occurs
  <2>7. at \in At <=> u = block
    BY DEF u
  <2> QED BY <2>4, <2>5, <2>6, <2>7
<1>3. At \in SUBSET Nat /\ At \subseteq start .. end - L
  OBVIOUS
<1>4. LiteralFind(block, t, start, end) = IF At = {} THEN -1 ELSE Min(At)
  BY DEF LiteralFind
<1> HIDE DEF At
<1>5. CASE At = {}
  BY <1>2, <1>4, <1>5 DEF Finds
<1>6. CASE At # {}
  <2>1. Min(At) \in At /\ \A n \in At : Min(At) <= n
    BY <1>3, <1>6, Least
  <2> QED BY <1>2, <1>3, <1>4, <1>6, <2>1 DEF Finds
<1> QED BY <1>5, <1>6

\* What the bits of the scan say: which prefixes of the block end at i.
Ending(block, t, start, i) ==
  {n \in 1 .. Len(block) : n <= (i - start) + 1 /\ \A l \in 1 .. n : block[l] \in {One, t[((i + 1) - n) + l]}}

\* the bit-parallel scan of a block with "?",
LEMMA ShiftAndStates ==
  ASSUME NEW block \in Seq(STRING), NEW t, NEW start \in Nat, NEW i \in Int, i >= start
  PROVE  Ending(block, t, start, i) =
           {n \in DOMAIN block : /\ n = 1 \/ n - 1 \in Ending(block, t, start, i - 1)
                                 /\ block[n] \in {One, t[i + 1]}}
<1> DEFINE L == Len(block)
<1>1. L \in Nat /\ DOMAIN block = 1 .. L
  OBVIOUS
<1> HIDE DEF L
<1> SUFFICES ASSUME NEW n \in 1 .. L
             PROVE  /\ n <= (i - start) + 1
                    /\ \A l \in 1 .. n : block[l] \in {One, t[((i + 1) - n) + l]}
                    <=>
                    /\ n = 1 \/ n - 1 \in Ending(block, t, start, i - 1)
                    /\ block[n] \in {One, t[i + 1]}
  BY <1>1 DEF Ending, L
<1>2. ((i + 1) - n) + n = i + 1 /\ n \in 1 .. n /\ n \in Nat
  BY <1>1
<1>3. CASE n = 1
  <2>1. 1 <= (i - start) + 1 /\ \A l \in 1 .. n : l = 1
    BY <1>3
  <2> QED BY <1>2, <1>3, <2>1
<1>4. CASE n # 1
  <2>1. n - 1 \in 1 .. L /\ (n <= (i - start) + 1 <=> n - 1 <= ((i - 1) - start) + 1)
    BY <1>1, <1>4
  <2>2. \A l \in 1 .. n - 1 : (((i - 1) + 1) - (n - 1)) + l = ((i + 1) - n) + l
    BY <1>2
  <2>3. n - 1 \in Ending(block, t, start, i - 1) <=>
          /\ n - 1 <= ((i - 1) - start) + 1
          /\ \A l \in 1 .. n - 1 : block[l] \in {One, t[((i + 1) - n) + l]}
    BY <2>1, <2>2 DEF Ending, L
  <2>4. \A l : l \in 1 .. n <=> l \in 1 .. n - 1 \/ l = n
    BY <1>2
  <2> QED BY <1>2, <1>4, <2>1, <2>3, <2>4
<1> QED BY <1>3, <1>4

\* The shift-and search finds the leftmost place of a block.
LEMMA ShiftAndFinds ==
  ASSUME NEW block \in Seq(STRING), block # <<>>, NEW t \in Seq(STRING),
         NEW start \in Nat, NEW end \in Int, start <= end
  PROVE  Finds(ShiftAndFind(block, t, start, end), block, t, start, end)
<1> DEFINE L == Len(block)
           Row(g, i) == IF i < start THEN {}
                        ELSE {n \in DOMAIN block : /\ n = 1 \/ n - 1 \in g[i - 1]
                                                   /\ block[n] \in {One, t[i + 1]}}
           Solves(g) == g = [i \in start - 1 .. end - 1 |-> Row(g, i)]
           state == CHOOSE g : Solves(g)
           S(i) == Ending(block, t, start, i)
           Ends == {i \in start .. end - 1 : L \in state[i]}
<1>1. ShiftAndFind(block, t, start, end) = IF Ends = {} THEN -1 ELSE (Min(Ends) - L) + 1
  BY DEF ShiftAndFind
<1>2. L \in Nat \ {0} /\ L \in 1 .. L
  OBVIOUS
<1>3. S(start - 1) = {}
  BY <1>2 DEF Ending
<1>4. \A i \in start .. end - 1 : S(i) = {n \in DOMAIN block : /\ n = 1 \/ n - 1 \in S(i - 1)
                                                             /\ block[n] \in {One, t[i + 1]}}
  BY ShiftAndStates
<1> HIDE DEF S
<1>5. Solves(state)
  <2> DEFINE g == [i \in start - 1 .. end - 1 |-> S(i)]
  <2>1. \A i \in start - 1 .. end - 1 : g[i] = Row(g, i)
    <3> TAKE i \in start - 1 .. end - 1
    <3>1. CASE i < start
      <4>1. i = start - 1
        BY <3>1
      <4>2. g[i] = S(start - 1)
        BY <4>1
      <4>3. Row(g, i) = {}
        BY <3>1
      <4> HIDE DEF g, Row
      <4> QED BY <4>2, <4>3, <1>3
    <3>2. CASE i >= start
      <4>1. i \in start .. end - 1 /\ i - 1 \in start - 1 .. end - 1 /\ ~(i < start)
        BY <3>2
      <4>2. g[i - 1] = S(i - 1) /\ g[i] = S(i)
        BY <4>1
      <4> HIDE DEF g
      <4> QED BY <4>1, <4>2, <1>4
    <3> HIDE DEF g, Row
    <3> QED BY <3>1, <3>2
  <2>2. Solves(g)
    <3> HIDE DEF Row
    <3> QED BY <2>1
  <2> HIDE DEF g, Solves
  <2>3. \E up : Solves(up)
    BY <2>2
  <2> QED BY <2>3 DEF state
<1>6. \A i \in start - 1 .. end - 1 : state[i] = Row(state, i)
  <2> HIDE DEF state, Row
  <2> QED BY <1>5
<1> HIDE DEF state, Solves
<1> DEFINE P == {d \in 0 .. end - start : state[(start - 1) + d] = S((start - 1) + d)}
<1>7. 0 \in P
  <2>1. (start - 1) + 0 = start - 1 /\ start - 1 \in start - 1 .. end - 1 /\ start - 1 < start /\ 0 \in 0 .. end - start
    OBVIOUS
  <2>2. state[start - 1] = {}
    BY <2>1, <1>6
  <2> QED BY <2>1, <2>2, <1>3
<1>8. ASSUME NEW d \in 0 .. (end - start) - 1, d \in P PROVE d + 1 \in P
  <2>1. PICK i \in start .. end - 1 : i = (start - 1) + (d + 1)
    OBVIOUS
  <2>2. i - 1 = (start - 1) + d /\ i \in start - 1 .. end - 1 /\ ~(i < start) /\ d + 1 \in 0 .. end - start
    BY <2>1
  <2>3. state[i - 1] = S(i - 1)
    BY <2>2, <1>8
  <2>4. state[i] = S(i)
    <3>1. state[i] = {n \in DOMAIN block : /\ n = 1 \/ n - 1 \in state[i - 1]
                                          /\ block[n] \in {One, t[i + 1]}}
      BY <2>2, <1>6
    <3>2. S(i) = {n \in DOMAIN block : /\ n = 1 \/ n - 1 \in S(i - 1)
                                      /\ block[n] \in {One, t[i + 1]}}
      BY <2>1, <1>4
    <3> QED BY <3>1, <3>2, <2>3
  <2> QED BY <2>1, <2>2, <2>4
<1> HIDE DEF P, Row
<1>9. \A i \in start .. end - 1 : state[i] = S(i)
  <2>1. end - start \in Nat
    OBVIOUS
  <2>2. \A d \in 0 .. end - start : d \in P
    BY <2>1, <1>7, <1>8, Upward
  <2> TAKE i \in start .. end - 1
  <2>3. i - (start - 1) \in 0 .. end - start /\ (start - 1) + (i - (start - 1)) = i
    OBVIOUS
  <2> QED BY <2>2, <2>3 DEF P
<1>10. \A i \in start .. end - 1 : i \in Ends <=> L <= (i - start) + 1 /\ Occurs(block, t, (i - L) + 1)
  <2> TAKE i \in start .. end - 1
  <2>1. i \in Ends <=> L \in S(i)
    BY <1>9
  <2>2. \A l \in 1 .. L : ((i + 1) - L) + l = ((i - L) + 1) + l
    BY <1>2
  <2>3. L \in S(i) <=> L <= (i - start) + 1 /\ \A l \in 1 .. L : block[l] \in {One, t[((i + 1) - L) + l]}
    BY <1>2 DEF S, Ending
  <2>4. DOMAIN block = 1 .. L
    OBVIOUS
  <2> HIDE DEF L, Ends
  <2> QED BY <2>1, <2>2, <2>3, <2>4 DEF Occurs
<1>11. Ends \in SUBSET Nat /\ Ends \subseteq start .. end - 1
  OBVIOUS
<1> HIDE DEF Ends, L
<1>12. \A at \in start .. end - L : Occurs(block, t, at) => (at + L) - 1 \in Ends
  <2> TAKE at \in start .. end - L
  <2>1. (at + L) - 1 \in start .. end - 1 /\ (((at + L) - 1) - L) + 1 = at /\ L <= (((at + L) - 1) - start) + 1
    BY <1>2
  <2> QED BY <2>1, <1>10
<1>13. CASE Ends = {}
  BY <1>1, <1>12, <1>13 DEF Finds, L
<1>14. CASE Ends # {}
  <2>1. PICK f \in Ends : f = Min(Ends) /\ \A n \in Ends : f <= n
    BY <1>11, <1>14, Least
  <2>2. f \in start .. end - 1 /\ L <= (f - start) + 1 /\ Occurs(block, t, (f - L) + 1)
    BY <2>1, <1>10, <1>11
  <2>3. (f - L) + 1 \in start .. end - L
    BY <2>2, <1>2
  <2>4. \A at \in start .. end - L : Occurs(block, t, at) => (f - L) + 1 <= at
    <3> SUFFICES ASSUME NEW at \in start .. end - L, Occurs(block, t, at) PROVE (f - L) + 1 <= at
      OBVIOUS
    <3>1. f <= (at + L) - 1
      BY <1>12, <2>1
    <3> QED BY <3>1, <2>2, <1>2
  <2>5. ShiftAndFind(block, t, start, end) = (f - L) + 1
    BY <1>1, <1>14, <2>1
  <2> QED BY <2>2, <2>3, <2>4, <2>5 DEF Finds, L
<1> QED BY <1>13, <1>14

\* and all three: _find_block finds the leftmost placement.
LEMMA FindBlockFinds ==
  ASSUME NEW block \in Seq(STRING), NEW t \in Seq(STRING),
         NEW start \in Nat, NEW end \in Int, end <= Len(t)
  PROVE  Finds(FindBlock(block, t, start, end), block, t, start, end)
<1> DEFINE L == Len(block)
<1>1. L \in Nat /\ DOMAIN block = 1 .. L /\ (block = <<>> <=> L = 0)
  OBVIOUS
<1>2. CASE L = 0
  <2>1. \A at : Occurs(block, t, at)
    BY <1>1, <1>2 DEF Occurs
  <2>2. FindBlock(block, t, start, end) = IF start <= end THEN start ELSE -1
    BY <1>2 DEF FindBlock
  <2> QED BY <1>2, <2>1, <2>2 DEF Finds
<1>3. CASE L # 0 /\ end - L < start
  <2>1. FindBlock(block, t, start, end) = -1
    BY <1>3 DEF FindBlock
  <2>2. start .. end - L = {}
    BY <1>1, <1>3
  <2> QED BY <2>1, <2>2 DEF Finds
<1>4. CASE L # 0 /\ end - L >= start
  <2>1. ~(end - L < start) /\ start <= end /\ block # <<>>
    BY <1>1, <1>4
  <2>2. CASE ~Has(block, {One})
    <3>1. FindBlock(block, t, start, end) = LiteralFind(block, t, start, end)
      BY <1>4, <2>1, <2>2 DEF FindBlock
    <3> QED BY <3>1, <2>2, LiteralFinds
  <2>3. CASE Has(block, {One}) /\ \A i \in DOMAIN block : block[i] = One
    <3>1. FindBlock(block, t, start, end) = start
      BY <1>4, <2>1, <2>3 DEF FindBlock
    <3>2. \A at : Occurs(block, t, at)
      BY <2>3 DEF Occurs
    <3>3. start \in start .. end - L
      BY <1>1, <1>4
    <3> QED BY <3>1, <3>2, <3>3 DEF Finds
  <2>4. CASE Has(block, {One}) /\ ~\A i \in DOMAIN block : block[i] = One
    <3>1. FindBlock(block, t, start, end) = ShiftAndFind(block, t, start, end)
      BY <1>4, <2>1, <2>4 DEF FindBlock
    <3> QED BY <3>1, <2>1, ShiftAndFinds
  <2> QED BY <2>2, <2>3, <2>4
<1> QED BY <1>2, <1>3, <1>4, <1>1

\* A set of numbers below a bound has a greatest one.
LEMMA Greatest ==
  ASSUME NEW n \in Nat, NEW S \in SUBSET (0 .. n), S # {}
  PROVE  Max(S) \in S /\ \A i \in S : i <= Max(S)
<1> DEFINE R == {n - i : i \in S}
<1>1. R \in SUBSET Nat /\ R # {}
  OBVIOUS
<1>2. PICK r \in R : \A x \in R : r <= x
  BY <1>1, Least
<1>3. PICK m \in S : r = n - m
  OBVIOUS
<1>4. \A i \in S : i <= m
  <2> TAKE i \in S
  <2>1. n - i \in R
    OBVIOUS
  <2>2. n - m <= n - i
    BY <1>2, <1>3, <2>1
  <2> QED BY <2>2
<1>5. \A i \in S : (\A j \in S : i >= j) => i = m
  <2> SUFFICES ASSUME NEW i \in S, \A j \in S : i >= j PROVE i = m
    OBVIOUS
  <2>1. i >= m /\ i <= m /\ i \in Nat /\ m \in Nat
    BY <1>3, <1>4
  <2> QED BY <2>1
<1> QED BY <1>4, <1>5 DEF Max

\* The parts of _segment_matches.
First(p) == Min(Stars(p))
Final(p) == Max(Stars(p))
Before(p, i) == Max({s \in Stars(p) : s < i})
HeadBlock(p) == SubSeq(p, 1, First(p) - 1)
TailBlock(p) == SubSeq(p, Final(p) + 1, Len(p))
Limit(p, t) == Len(t) - Len(TailBlock(p))
Needed(p, i) == Cardinality({j \in i .. Final(p) : p[j] # Wild})
Position(pos, p, t, i) ==
  IF i = First(p) THEN Len(HeadBlock(p))
  ELSE LET before == Before(p, i)
           block  == SubSeq(p, before + 1, i - 1)
           found  == FindBlock(block, t, pos[before], Limit(p, t) - Needed(p, i))
       IN IF pos[before] < 0 \/ found < 0 THEN -1 ELSE found + Len(block)
IsPosition(pos, p, t) == pos = [i \in Stars(p) |-> Position(pos, p, t, i)]

\* The stars of a segment, and the one before another.
LEMMA StarsAre ==
  ASSUME NEW p \in Seq(STRING), Stars(p) # {}
  PROVE  /\ Stars(p) \subseteq 1 .. Len(p)
         /\ First(p) \in Stars(p) /\ Final(p) \in Stars(p)
         /\ \A i \in Stars(p) :
              /\ First(p) <= i /\ i <= Final(p)
              /\ i # First(p) => /\ Before(p, i) \in Stars(p) /\ Before(p, i) < i
                                 /\ \A s \in Stars(p) : s < i => s <= Before(p, i)
<1> DEFINE n == Len(p)
<1>1. n \in Nat /\ Stars(p) \subseteq 1 .. n /\ Stars(p) \in SUBSET (0 .. n) /\ Stars(p) \in SUBSET Nat
  BY DEF Stars
<1>2. First(p) \in Stars(p) /\ \A i \in Stars(p) : First(p) <= i
  BY <1>1, Least DEF First
<1>3. Final(p) \in Stars(p) /\ \A i \in Stars(p) : i <= Final(p)
  BY <1>1, Greatest DEF Final
<1>4. ASSUME NEW i \in Stars(p), i # First(p)
      PROVE  /\ Before(p, i) \in Stars(p) /\ Before(p, i) < i
             /\ \A s \in Stars(p) : s < i => s <= Before(p, i)
  <2> DEFINE B == {s \in Stars(p) : s < i}
  <2>1. First(p) \in B
    BY <1>1, <1>2, <1>4
  <2>2. B \in SUBSET (0 .. n) /\ B # {}
    BY <1>1, <2>1
  <2>3. Max(B) \in B /\ \A s \in B : s <= Max(B)
    BY <1>1, <2>2, Greatest
  <2> QED BY <2>3 DEF Before
<1> QED BY <1>1, <1>2, <1>3, <1>4

\* The positions of the blocks are defined,
LEMMA PositionExists ==
  ASSUME NEW p \in Seq(STRING), NEW t, Stars(p) # {}
  PROVE  \E pos : IsPosition(pos, p, t)
<1> DEFINE m == Len(p)
           Upto(g, l) == g = [i \in Stars(p) |-> IF i <= l THEN Position(g, p, t, i) ELSE -1]
           P == {l \in 0 .. m : \E g : Upto(g, l)}
<1>1. m \in Nat /\ Stars(p) \subseteq 1 .. m
  BY DEF Stars
<1>2. 0 \in P
  <2> DEFINE g == [i \in Stars(p) |-> -1]
  <2>1. \A i \in Stars(p) : ~(i <= 0)
    BY <1>1
  <2>2. Upto(g, 0)
    BY <2>1
  <2> HIDE DEF g, Upto
  <2> QED BY <1>1, <2>2
<1>3. ASSUME NEW l \in 0 .. m - 1, l \in P PROVE l + 1 \in P
  <2>1. PICK g : Upto(g, l)
    BY <1>3
  <2> DEFINE h == [i \in Stars(p) |-> IF i = l + 1 THEN Position(g, p, t, i) ELSE g[i]]
  <2>2. \A i \in Stars(p) : g[i] = IF i <= l THEN Position(g, p, t, i) ELSE -1
    BY <2>1
  <2>3. \A i \in Stars(p) : h[i] = IF i = l + 1 THEN Position(g, p, t, i) ELSE g[i]
    OBVIOUS
  <2>4. \A i \in Stars(p) : h[i] = IF i <= l + 1 THEN Position(h, p, t, i) ELSE -1
    <3> HIDE DEF h
    <3> TAKE i \in Stars(p)
    <3>1. h[i] = IF i <= l + 1 THEN Position(g, p, t, i) ELSE -1
      BY <1>1, <2>2, <2>3
    <3>2. i <= l + 1 => Position(h, p, t, i) = Position(g, p, t, i)
      <4>1. CASE i = First(p)
        BY <4>1 DEF Position
      <4>2. CASE i # First(p) /\ i <= l + 1
        <5>1. Before(p, i) \in Stars(p) /\ Before(p, i) < i
          BY <4>2, StarsAre
        <5>2. Before(p, i) # l + 1
          BY <5>1, <4>2, <1>1
        <5>3. h[Before(p, i)] = g[Before(p, i)]
          BY <5>1, <5>2, <2>3
        <5> QED BY <4>2, <5>3 DEF Position
      <4> QED BY <4>1, <4>2
    <3> QED BY <3>1, <3>2
  <2>5. Upto(h, l + 1)
    BY <2>4
  <2>6. l + 1 \in 0 .. m
    BY <1>1
  <2> HIDE DEF h, Upto
  <2> QED BY <2>5, <2>6
<1> HIDE DEF P
<1>4. m \in P
  <2>1. \A l \in 0 .. m : l \in P
    BY <1>1, <1>2, <1>3, Upward
  <2> QED BY <2>1, <1>1
<1>5. PICK g : Upto(g, m)
  BY <1>4 DEF P
<1>6. \A i \in Stars(p) : i <= m
  BY <1>1
<1>7. IsPosition(g, p, t)
  BY <1>5, <1>6 DEF IsPosition
<1> QED BY <1>7

\* and decide.
LEMMA SegmentMatchesIs ==
  ASSUME NEW p \in Seq(STRING), NEW t, Stars(p) # {}
  PROVE  \E pos :
           /\ IsPosition(pos, p, t)
           /\ SegmentMatches(p, t) <=>
                /\ Len(t) >= Len(HeadBlock(p)) + Len(TailBlock(p))
                /\ AnchoredMatch(HeadBlock(p), SubSeq(t, 1, Len(HeadBlock(p))))
                /\ AnchoredMatch(TailBlock(p), SubSeq(t, Limit(p, t) + 1, Len(t)))
                /\ pos[Final(p)] >= 0
<1> DEFINE Solves(g) == g = [i \in Stars(p) |-> Position(g, p, t, i)]
           pos == CHOOSE g : Solves(g)
<1>1. SegmentMatches(p, t) <=>
        /\ Len(t) >= Len(HeadBlock(p)) + Len(TailBlock(p))
        /\ AnchoredMatch(HeadBlock(p), SubSeq(t, 1, Len(HeadBlock(p))))
        /\ AnchoredMatch(TailBlock(p), SubSeq(t, Limit(p, t) + 1, Len(t)))
        /\ pos[Final(p)] >= 0
  BY DEF SegmentMatches, Position, Limit, Needed, HeadBlock, TailBlock, Before, First, Final, Stars
<1>2. Solves(pos)
  <2> HIDE DEF Solves
  <2>1. \E g : Solves(g)
    BY PositionExists DEF Solves, IsPosition
  <2> QED BY <2>1
<1> HIDE DEF pos
<1>3. IsPosition(pos, p, t)
  BY <1>2 DEF IsPosition
<1> QED BY <1>1, <1>3

\* The block of a pattern between two of its places, at a place of a text.
BlockAt(p, t, a, b, at) == \A i \in a + 1 .. b - 1 : p[i] \in {One, t[at + (i - a)]}

\* The block as a sequence of its own.
LEMMA BlockIs ==
  ASSUME NEW p \in Seq(STRING), NEW t, NEW a \in Nat, NEW b \in Nat, a < b, b <= Len(p) + 1
  PROVE  /\ SubSeq(p, a + 1, b - 1) \in Seq(STRING)
         /\ Len(SubSeq(p, a + 1, b - 1)) = (b - 1) - a
         /\ \A at \in Int : Occurs(SubSeq(p, a + 1, b - 1), t, at) <=> BlockAt(p, t, a, b, at)
<1> DEFINE block == SubSeq(p, a + 1, b - 1)
<1>1. /\ a + 1 \in Nat \ {0} /\ b - 1 \in Nat /\ a + 1 <= (b - 1) + 1 /\ b - 1 <= Len(p)
      /\ ((b - 1) - (a + 1)) + 1 = (b - 1) - a /\ (a + 1) - 1 = a
  OBVIOUS
<1>2. /\ block \in Seq(STRING) /\ Len(block) = (b - 1) - a
      /\ \A i \in 1 .. (b - 1) - a : block[i] = p[a + i]
  <2>1. /\ block \in Seq(STRING) /\ Len(block) = ((b - 1) - (a + 1)) + 1
        /\ \A i \in 1 .. ((b - 1) - (a + 1)) + 1 : block[i] = p[((a + 1) - 1) + i]
    BY <1>1, Part
  <2> HIDE DEF block
  <2> QED BY <2>1, <1>1
<1> HIDE DEF block
<1>3. DOMAIN block = 1 .. (b - 1) - a
  BY <1>2
<1>4. ASSUME NEW at \in Int PROVE Occurs(block, t, at) <=> BlockAt(p, t, a, b, at)
  <2>1. ASSUME Occurs(block, t, at), NEW i \in a + 1 .. b - 1 PROVE p[i] \in {One, t[at + (i - a)]}
    <3>1. i - a \in 1 .. (b - 1) - a /\ a + (i - a) = i
      OBVIOUS
    <3>2. block[i - a] \in {One, t[at + (i - a)]} /\ block[i - a] = p[i]
      BY <2>1, <3>1, <1>2, <1>3 DEF Occurs
    <3> QED BY <3>2
  <2>2. ASSUME BlockAt(p, t, a, b, at), NEW i \in DOMAIN block PROVE block[i] \in {One, t[at + i]}
    <3>1. a + i \in a + 1 .. b - 1 /\ (a + i) - a = i /\ i \in 1 .. (b - 1) - a
      BY <1>3
    <3>2. p[a + i] \in {One, t[at + ((a + i) - a)]} /\ block[i] = p[a + i]
      BY <2>2, <3>1, <1>2 DEF BlockAt
    <3> QED BY <3>1, <3>2
  <2> QED BY <2>1, <2>2 DEF Occurs, BlockAt
<1> QED BY <1>2, <1>4 DEF block

\* An anchored block.
LEMMA AnchoredIs ==
  ASSUME NEW block \in Seq(STRING), NEW t \in Seq(STRING), NEW a \in Nat, a + Len(block) <= Len(t)
  PROVE  AnchoredMatch(block, SubSeq(t, a + 1, a + Len(block))) <=> Occurs(block, t, a)
<1> DEFINE L == Len(block)  u == SubSeq(t, a + 1, a + L)
<1>1. /\ L \in Nat /\ DOMAIN block = 1 .. L /\ a + 1 \in Nat \ {0} /\ a + L \in Nat /\ a + 1 <= (a + L) + 1
      /\ ((a + L) - (a + 1)) + 1 = L /\ (a + 1) - 1 = a
  OBVIOUS
<1>2. Len(u) = L /\ \A i \in 1 .. L : u[i] = t[a + i]
  <2>1. /\ Len(u) = ((a + L) - (a + 1)) + 1
        /\ \A i \in 1 .. ((a + L) - (a + 1)) + 1 : u[i] = t[((a + 1) - 1) + i]
    BY <1>1, Part
  <2>2. ((a + L) - (a + 1)) + 1 = L /\ (a + 1) - 1 = a
    BY <1>1
  <2> HIDE DEF u, L
  <2> QED BY <2>1, <2>2
<1> HIDE DEF u
<1> QED BY <1>1, <1>2 DEF AnchoredMatch, Occurs, u

\* What one step of _segment_matches finds for the block that star i closes:
\* the leftmost place after the block before it that leaves room for the rest.
Greedy(pos, p, t, i) ==
  LET b    == Before(p, i)
      size == (i - 1) - b
      room == (Limit(p, t) - Needed(p, i)) - size
  IN \/ pos[b] = -1 /\ pos[i] = -1
     \/ pos[b] # -1 /\ pos[i] = -1 /\ \A at \in pos[b] .. room : ~BlockAt(p, t, b, i, at)
     \/ /\ pos[b] # -1 /\ pos[i] - size \in pos[b] .. room /\ BlockAt(p, t, b, i, pos[i] - size)
        /\ \A at \in pos[b] .. room : BlockAt(p, t, b, i, at) => pos[i] - size <= at

\* The parts of a pattern with stars, in numbers.
LEMMA PartsAre ==
  ASSUME NEW p \in Seq(STRING), NEW t \in Seq(STRING), Stars(p) # {}
  PROVE  /\ HeadBlock(p) \in Seq(STRING) /\ Len(HeadBlock(p)) = First(p) - 1
         /\ TailBlock(p) \in Seq(STRING) /\ Len(TailBlock(p)) = Len(p) - Final(p)
         /\ Limit(p, t) = Len(t) - (Len(p) - Final(p)) /\ Limit(p, t) \in Int /\ Limit(p, t) <= Len(t)
         /\ Needed(p, Final(p)) = 0
         /\ \A i \in Stars(p) : Needed(p, i) \in Nat
<1> DEFINE m == Len(p)  f == First(p)  l == Final(p)
<1>1. m \in Nat /\ Len(t) \in Nat /\ f \in 1 .. m /\ l \in 1 .. m
  BY StarsAre
<1>2. HeadBlock(p) \in Seq(STRING) /\ Len(HeadBlock(p)) = f - 1
  <2>1. 0 \in Nat /\ f \in Nat /\ 0 < f /\ f <= Len(p) + 1 /\ 0 + 1 = 1 /\ (f - 1) - 0 = f - 1
    BY <1>1
  <2>2. SubSeq(p, 0 + 1, f - 1) \in Seq(STRING) /\ Len(SubSeq(p, 0 + 1, f - 1)) = (f - 1) - 0
    BY <2>1, BlockIs
  <2> QED BY <2>1, <2>2 DEF HeadBlock
<1>3. TailBlock(p) \in Seq(STRING) /\ Len(TailBlock(p)) = m - l
  <2>1. l \in Nat /\ m + 1 \in Nat /\ l < m + 1 /\ m + 1 <= Len(p) + 1 /\ (m + 1) - 1 = m
    BY <1>1
  <2>2. SubSeq(p, l + 1, (m + 1) - 1) \in Seq(STRING) /\ Len(SubSeq(p, l + 1, (m + 1) - 1)) = ((m + 1) - 1) - l
    BY <2>1, BlockIs
  <2> QED BY <2>1, <2>2 DEF TailBlock
<1>4. \A i \in Stars(p) : Needed(p, i) \in Nat
  <2> TAKE i \in Stars(p)
  <2>1. i \in Int /\ l \in Int
    BY <1>1, StarsAre
  <2>2. IsFiniteSet(i .. l)
    BY <2>1, FS_Interval
  <2>3. IsFiniteSet({j \in i .. l : p[j] # Wild})
    BY <2>2, FS_Subset
  <2> QED BY <2>3, FS_CardinalityType DEF Needed
<1>5. Needed(p, l) = 0
  <2>1. p[l] = Wild
    BY StarsAre DEF Stars
  <2>2. {j \in l .. l : p[j] # Wild} = {}
    BY <2>1, <1>1
  <2> QED BY <2>2, FS_EmptySet DEF Needed
<1> QED BY <1>1, <1>2, <1>3, <1>4, <1>5 DEF Limit

\* Every step is greedy.
LEMMA PositionIs ==
  ASSUME NEW p \in Seq(STRING), NEW t \in Seq(STRING), Stars(p) # {}, NEW pos, IsPosition(pos, p, t)
  PROVE  /\ pos[First(p)] = First(p) - 1
         /\ \A i \in Stars(p) : pos[i] \in Nat \cup {-1} /\ (i # First(p) => Greedy(pos, p, t, i))
<1> DEFINE m == Len(p)
           P == {l \in 0 .. m : \A i \in Stars(p) : i <= l =>
                   pos[i] \in Nat \cup {-1} /\ (i # First(p) => Greedy(pos, p, t, i))}
<1>1. m \in Nat /\ Stars(p) \subseteq 1 .. m /\ First(p) \in Stars(p) /\ Len(t) \in Nat
  BY StarsAre
<1>2. \A i \in Stars(p) : pos[i] = Position(pos, p, t, i)
  BY DEF IsPosition
<1>3. pos[First(p)] = First(p) - 1
  BY <1>1, <1>2, PartsAre DEF Position
<1>4. 0 \in P
  BY <1>1
<1>5. ASSUME NEW l \in 0 .. m - 1, l \in P PROVE l + 1 \in P
  <2>1. \A i \in Stars(p) : i <= l => pos[i] \in Nat \cup {-1} /\ (i # First(p) => Greedy(pos, p, t, i))
    BY <1>5
  <2>2. ASSUME l + 1 \in Stars(p), l + 1 # First(p)
        PROVE  pos[l + 1] \in Nat \cup {-1} /\ Greedy(pos, p, t, l + 1)
    <3> DEFINE i == l + 1
               b == Before(p, i)
               block == SubSeq(p, b + 1, i - 1)
               room == Limit(p, t) - Needed(p, i)
               found == FindBlock(block, t, pos[b], room)
    <3>1. b \in Stars(p) /\ b < i /\ i \in Nat /\ b \in Nat /\ i <= m
      BY <1>1, <2>2, StarsAre
    <3>2. b <= l
      BY <3>1
    <3>3. pos[b] \in Nat \cup {-1}
      BY <2>1, <3>1, <3>2
    <3>4. pos[i] = IF pos[b] < 0 \/ found < 0 THEN -1 ELSE found + Len(block)
      BY <1>2, <2>2 DEF Position
    <3>5. /\ block \in Seq(STRING) /\ Len(block) = (i - 1) - b
          /\ \A at \in Int : Occurs(block, t, at) <=> BlockAt(p, t, b, i, at)
      BY <3>1, BlockIs
    <3>6. room \in Int /\ room <= Len(t)
      <4>1. Limit(p, t) \in Int /\ Limit(p, t) <= Len(t) /\ Needed(p, i) \in Nat
        <5>1. i \in Stars(p)
          BY <2>2
        <5> QED BY <5>1, PartsAre
      <4> QED BY <4>1, <1>1
    <3> HIDE DEF block, b, room, i
    <3>7. CASE pos[b] = -1
      <4>1. pos[i] = -1
        BY <3>4, <3>7
      <4> QED BY <4>1, <3>7 DEF Greedy, b, i
    <3>8. CASE pos[b] \in Nat
      <4>1. Finds(found, block, t, pos[b], room)
        BY <3>5, <3>6, <3>8, FindBlockFinds
      <4> HIDE DEF found
      <4>2. Len(block) \in Nat
        BY <3>5
      <4>3. CASE found = -1 /\ \A at \in pos[b] .. room - Len(block) : ~Occurs(block, t, at)
        <5>1. pos[i] = -1
          BY <3>4, <4>3
        <5>2. \A at \in pos[b] .. room - ((i - 1) - b) : ~BlockAt(p, t, b, i, at)
          BY <4>3, <3>5, <3>8, <3>6
        <5> QED BY <3>8, <5>1, <5>2 DEF Greedy, b, i, room
      <4>4. CASE /\ found \in pos[b] .. room - Len(block) /\ Occurs(block, t, found)
                 /\ \A at \in pos[b] .. room - Len(block) : Occurs(block, t, at) => found <= at
        <5>1. pos[i] = found + Len(block) /\ found \in Nat /\ pos[i] - ((i - 1) - b) = found /\ pos[i] \in Nat
          BY <3>4, <3>5, <3>6, <3>8, <4>2, <4>4
        <5>2. /\ BlockAt(p, t, b, i, found)
              /\ \A at \in pos[b] .. room - ((i - 1) - b) : BlockAt(p, t, b, i, at) => found <= at
          BY <4>4, <3>5, <3>8, <5>1
        <5>3. found \in pos[b] .. room - ((i - 1) - b)
          BY <4>4, <3>5
        <5>4. pos[b] # -1
          BY <3>8
        <5> QED BY <5>1, <5>2, <5>3, <5>4 DEF Greedy, b, i, room
      <4> QED BY <4>1, <4>3, <4>4 DEF Finds
    <3> QED BY <3>3, <3>7, <3>8 DEF i
  <2>3. First(p) - 1 \in Nat
    BY <1>1
  <2>4. \A i \in Stars(p) : i <= l + 1 => i <= l \/ i = l + 1
    BY <1>1
  <2> QED BY <1>1, <1>3, <2>1, <2>2, <2>3, <2>4
<1> HIDE DEF P
<1>6. m \in P
  <2>1. \A l \in 0 .. m : l \in P
    BY <1>1, <1>4, <1>5, Upward
  <2> QED BY <2>1, <1>1
<1>7. \A i \in Stars(p) : i <= m
  BY <1>1
<1> QED BY <1>3, <1>6, <1>7 DEF P

\* A placement that is continued by a block,
LEMMA PlaceRun ==
  ASSUME NEW a \in Nat, NEW b \in Nat, a <= b, NEW k \in Int, NEW M, NEW O, NEW w, Place(w, a, k, M, O),
         \A i \in a + 1 .. b : i \notin M /\ <<i, k + (i - a)>> \in O
  PROVE  \E v : Place(v, b, k + (b - a), M, O)
<1> DEFINE P == {d \in 0 .. b - a : \E v : Place(v, a + d, k + d, M, O)}
<1>1. 0 \in P
  <2>1. a + 0 = a /\ k + 0 = k /\ 0 \in 0 .. b - a
    OBVIOUS
  <2> QED BY <2>1
<1>2. ASSUME NEW d \in 0 .. (b - a) - 1, d \in P PROVE d + 1 \in P
  <2>1. PICK v : Place(v, a + d, k + d, M, O)
    BY <1>2
  <2>2. /\ a + d \in Nat /\ k + d \in Int /\ k + (d + 1) \in Int /\ (a + d) + 1 = a + (d + 1)
        /\ (a + d) + 1 \in a + 1 .. b /\ k + (((a + d) + 1) - a) = k + (d + 1)
        /\ k + (d + 1) = (k + d) + 1 /\ d + 1 \in 0 .. b - a
    OBVIOUS
  <2>3. (a + d) + 1 \notin M /\ <<(a + d) + 1, k + (d + 1)>> \in O
    BY <2>2
  <2>4. \E u : Place(u, (a + d) + 1, k + (d + 1), M, O)
    BY <2>1, <2>2, <2>3, PlaceMore
  <2> QED BY <2>2, <2>4
<1> HIDE DEF P
<1>3. b - a \in P
  <2>1. b - a \in Nat /\ b - a \in 0 .. b - a
    OBVIOUS
  <2>2. \A d \in 0 .. b - a : d \in P
    BY <2>1, <1>1, <1>2, Upward
  <2> QED BY <2>1, <2>2
<1>4. a + (b - a) = b
  OBVIOUS
<1> QED BY <1>3, <1>4 DEF P

\* _segment_matches without stars: the pattern is one anchored block.
LEMMA StarlessExact ==
  ASSUME NEW p \in Seq(STRING), NEW t \in Seq(STRING), Stars(p) = {}
  PROVE  SegmentMatches(p, t) <=> SegmentMeans(p, t)
<1> DEFINE m == Len(p)  n == Len(t)
<1>1. m \in Nat /\ n \in Nat /\ DOMAIN p = 1 .. m /\ m \in 0 .. m
  OBVIOUS
<1>2. SegmentMatches(p, t) <=> AnchoredMatch(p, t)
  BY DEF SegmentMatches, Stars
<1>3. SegmentMeans(p, t) <=> \E w : Place(w, m, n, Stars(p), Chars(p, t))
  BY SegmentPlaced
<1>4. \A i \in 1 .. m : \A j \in 1 .. n : <<i, j>> \in Chars(p, t) <=> p[i] \in {One, t[j]}
  BY DEF Chars
<1> HIDE DEF m, n
<1>5. AnchoredMatch(p, t) <=> m = n /\ \A i \in 1 .. m : p[i] \in {One, t[i]}
  BY <1>1 DEF AnchoredMatch, m, n
<1>6. ASSUME NEW w, Place(w, m, n, Stars(p), Chars(p, t)) PROVE m = n /\ \A i \in 1 .. m : p[i] \in {One, t[i]}
  <2>1. \A i \in 0 .. m : w[i] = i /\ (i # 0 => <<i, i>> \in Chars(p, t))
    <3>1. \A i \in 1 .. m : i \notin Stars(p)
      OBVIOUS
    <3> QED BY <3>1, <1>1, <1>6, PlaceStart
  <2>2. w[m] = n
    BY <1>6 DEF Place
  <2>3. m = n
    BY <1>1, <2>1, <2>2
  <2>4. \A i \in 1 .. m : i \in 0 .. m /\ i # 0
    BY <1>1
  <2> QED BY <2>1, <2>3, <2>4, <1>4
<1>7. ASSUME m = n, \A i \in 1 .. m : p[i] \in {One, t[i]} PROVE \E w : Place(w, m, n, Stars(p), Chars(p, t))
  <2>1. Place([i \in 0 .. 0 |-> 0], 0, 0, Stars(p), Chars(p, t))
    BY DEF Place
  <2>2. \A i \in 0 + 1 .. m : i \notin Stars(p) /\ <<i, 0 + (i - 0)>> \in Chars(p, t)
    <3> TAKE i \in 0 + 1 .. m
    <3>1. i \in 1 .. m /\ 0 + (i - 0) = i
      BY <1>1
    <3> QED BY <3>1, <1>4, <1>7
  <2>3. \E w : Place(w, m, 0 + (m - 0), Stars(p), Chars(p, t))
    BY <2>1, <2>2, <1>1, PlaceRun
  <2>4. 0 + (m - 0) = n
    BY <1>1, <1>7
  <2> QED BY <2>3, <2>4
<1> QED BY <1>2, <1>3, <1>5, <1>6, <1>7

\* With stars: the two anchored blocks in numbers.
Anchored(p, t) ==
  /\ First(p) - 1 <= Limit(p, t)
  /\ BlockAt(p, t, 0, First(p), 0)
  /\ BlockAt(p, t, Final(p), Len(p) + 1, Limit(p, t))

\* What _segment_matches compares at the two ends.
LEMMA AnchorsAre ==
  ASSUME NEW p \in Seq(STRING), NEW t \in Seq(STRING), Stars(p) # {}
  PROVE  /\ Len(t) >= Len(HeadBlock(p)) + Len(TailBlock(p))
         /\ AnchoredMatch(HeadBlock(p), SubSeq(t, 1, Len(HeadBlock(p))))
         /\ AnchoredMatch(TailBlock(p), SubSeq(t, Limit(p, t) + 1, Len(t)))
         <=> Anchored(p, t)
<1> DEFINE m == Len(p)  n == Len(t)  f == First(p)  l == Final(p)
<1>1. m \in Nat /\ n \in Nat /\ f \in 1 .. m /\ l \in 1 .. m
  BY StarsAre
<1>2. /\ HeadBlock(p) \in Seq(STRING) /\ Len(HeadBlock(p)) = f - 1
      /\ TailBlock(p) \in Seq(STRING) /\ Len(TailBlock(p)) = m - l
      /\ Limit(p, t) = n - (m - l)
  BY PartsAre
<1>3. Len(t) >= Len(HeadBlock(p)) + Len(TailBlock(p)) <=> f - 1 <= Limit(p, t)
  <2>1. Len(t) = n
    OBVIOUS
  <2> HIDE DEF m, n, f, l
  <2> QED BY <1>1, <1>2, <2>1
<1>4. Occurs(HeadBlock(p), t, 0) <=> BlockAt(p, t, 0, f, 0)
  <2>1. 0 \in Nat /\ f \in Nat /\ 0 < f /\ f <= Len(p) + 1 /\ 0 + 1 = 1 /\ 0 \in Int
    BY <1>1
  <2>2. Occurs(SubSeq(p, 0 + 1, f - 1), t, 0) <=> BlockAt(p, t, 0, f, 0)
    BY <2>1, BlockIs
  <2> QED BY <2>1, <2>2 DEF HeadBlock
<1>5. ASSUME f - 1 <= Limit(p, t)
      PROVE  Occurs(TailBlock(p), t, Limit(p, t)) <=> BlockAt(p, t, l, m + 1, Limit(p, t))
  <2>1. l \in Nat /\ m + 1 \in Nat /\ l < m + 1 /\ m + 1 <= Len(p) + 1 /\ (m + 1) - 1 = m /\ Limit(p, t) \in Int
    BY <1>1, <1>2
  <2>2. Occurs(SubSeq(p, l + 1, (m + 1) - 1), t, Limit(p, t)) <=> BlockAt(p, t, l, m + 1, Limit(p, t))
    BY <2>1, BlockIs
  <2> QED BY <2>1, <2>2 DEF TailBlock
<1>6. ASSUME f - 1 <= Limit(p, t)
      PROVE  AnchoredMatch(HeadBlock(p), SubSeq(t, 1, Len(HeadBlock(p)))) <=> Occurs(HeadBlock(p), t, 0)
  <2>1. 0 \in Nat /\ 0 + Len(HeadBlock(p)) = Len(HeadBlock(p)) /\ 0 + 1 = 1 /\ 0 + Len(HeadBlock(p)) <= Len(t)
    BY <1>1, <1>2, <1>6
  <2>2. AnchoredMatch(HeadBlock(p), SubSeq(t, 0 + 1, 0 + Len(HeadBlock(p)))) <=> Occurs(HeadBlock(p), t, 0)
    BY <1>2, <2>1, AnchoredIs
  <2> QED BY <2>1, <2>2
<1>7. ASSUME f - 1 <= Limit(p, t)
      PROVE  AnchoredMatch(TailBlock(p), SubSeq(t, Limit(p, t) + 1, Len(t)))
             <=> Occurs(TailBlock(p), t, Limit(p, t))
  <2>1. Limit(p, t) \in Nat /\ Limit(p, t) + Len(TailBlock(p)) = Len(t)
    <3>1. Len(t) = n
      OBVIOUS
    <3> HIDE DEF m, n, f, l
    <3> QED BY <3>1, <1>1, <1>2, <1>7
  <2>2. AnchoredMatch(TailBlock(p), SubSeq(t, Limit(p, t) + 1, Limit(p, t) + Len(TailBlock(p))))
        <=> Occurs(TailBlock(p), t, Limit(p, t))
    BY <1>2, <2>1, AnchoredIs
  <2> QED BY <2>1, <2>2
<1> QED BY <1>3, <1>4, <1>5, <1>6, <1>7 DEF Anchored

\* Soundness: where the blocks are put there is a placement,
LEMMA GreedyPlaces ==
  ASSUME NEW p \in Seq(STRING), NEW t \in Seq(STRING), Stars(p) # {},
         NEW pos, IsPosition(pos, p, t), Anchored(p, t), pos[Final(p)] >= 0
  PROVE  \E w : Place(w, Len(p), Len(t), Stars(p), Chars(p, t))
<1> DEFINE m == Len(p)  n == Len(t)  f == First(p)  l == Final(p)  M == Stars(p)  O == Chars(p, t)
<1>1. /\ m \in Nat /\ n \in Nat /\ M \subseteq 1 .. m /\ f \in M /\ l \in M
      /\ \A i \in M : f <= i /\ i <= l
  BY StarsAre
<1>2. \A i \in M : i # f => Before(p, i) \in M /\ Before(p, i) < i /\ \A s \in M : s < i => s <= Before(p, i)
  BY StarsAre
<1>3. Limit(p, t) = n - (m - l) /\ Limit(p, t) \in Int /\ Needed(p, l) = 0 /\ \A i \in M : Needed(p, i) \in Nat
  BY PartsAre
<1>4. pos[f] = f - 1 /\ \A i \in M : pos[i] \in Nat \cup {-1} /\ (i # f => Greedy(pos, p, t, i))
  BY PositionIs
<1>5. \A i \in 1 .. m : \A j \in 1 .. n : <<i, j>> \in O <=> p[i] \in {One, t[j]}
  BY DEF Chars
<1>6. f - 1 <= Limit(p, t) /\ BlockAt(p, t, 0, f, 0) /\ BlockAt(p, t, l, m + 1, Limit(p, t))
  BY DEF Anchored
<1>7. pos[l] >= 0
  OBVIOUS
<1> HIDE DEF m, n, f, l, M, O
\* No block fails before the last one.
<1>8. \A i \in M : pos[i] \in Nat
  <2> DEFINE P == {d \in 0 .. m : \A i \in M : l - d <= i => pos[i] \in Nat}
  <2>1. 0 \in P
    <3>1. \A i \in M : l - 0 <= i => i = l
      BY <1>1
    <3> QED BY <3>1, <1>1, <1>4, <1>7
  <2>2. ASSUME NEW d \in 0 .. m - 1, d \in P PROVE d + 1 \in P
    <3>1. ASSUME NEW i \in M, l - (d + 1) <= i PROVE pos[i] \in Nat
      <4> SUFFICES ASSUME pos[i] = -1 PROVE FALSE
        BY <1>4
      <4>1. i # l
        BY <1>7
      <4> DEFINE S == {s \in M : s > i}
      <4>2. S \in SUBSET Nat /\ l \in S
        <5>1. i \in 1 .. m /\ l \in 1 .. m /\ i <= l
          BY <1>1
        <5>2. M \subseteq Nat
          BY <1>1
        <5>3. l > i
          BY <5>1, <4>1
        <5>4. l \in M
          BY <1>1
        <5> QED BY <5>2, <5>3, <5>4
      <4>3. PICK j \in S : \A s \in S : j <= s
        BY <4>2, Least
      <4>4. j \in M /\ j > i /\ j # f /\ \A s \in M : s > i => j <= s
        BY <1>1, <4>3
      <4>5. Before(p, j) = i
        <5>1. PICK b \in M : b = Before(p, j) /\ b < j /\ i <= b
          BY <1>2, <4>4
        <5>2. b \in Int /\ i \in Int /\ j \in Int
          BY <1>1, <4>4
        <5>3. b > i => j <= b
          BY <4>4
        <5> QED BY <5>1, <5>2, <5>3
      <4>6. pos[j] = -1
        BY <1>4, <4>4, <4>5 DEF Greedy
      <4>7. l - d <= j
        BY <1>1, <3>1, <4>4
      <4> QED BY <4>4, <4>6, <4>7, <2>2
    <3>2. d + 1 \in 0 .. m
      BY <1>1
    <3> QED BY <3>1, <3>2
  <2> HIDE DEF P
  <2>3. m \in P
    <3>1. \A d \in 0 .. m : d \in P
      BY <1>1, <2>1, <2>2, Upward
    <3> QED BY <3>1, <1>1
  <2>4. \A i \in M : l - m <= i
    BY <1>1
  <2> QED BY <2>3, <2>4 DEF P
\* The pattern before each star is placed,
<1> DEFINE P == {k \in 0 .. m : \A i \in M : i <= k => \E w : Place(w, i - 1, pos[i], M, O)}
<1>9. 0 \in P
  BY <1>1
<1>10. ASSUME NEW k \in 0 .. m - 1, k \in P PROVE k + 1 \in P
  <2>1. \A i \in M : i <= k => \E w : Place(w, i - 1, pos[i], M, O)
    BY <1>10
  <2>2. ASSUME k + 1 = f PROVE \E w : Place(w, f - 1, pos[f], M, O)
    <3>1. Place([i \in 0 .. 0 |-> 0], 0, 0, M, O)
      BY DEF Place
    <3>2. \A i \in 0 + 1 .. f - 1 : i \notin M /\ <<i, 0 + (i - 0)>> \in O
      <4> TAKE i \in 0 + 1 .. f - 1
      <4>1. i \in 1 .. m /\ i \in 1 .. n /\ i \notin M /\ 0 + (i - 0) = i
        <5>1. l \in 1 .. m /\ f \in 1 .. m
          BY <1>1
        <5>2. f - 1 <= n
          BY <5>1, <1>1, <1>3, <1>6
        <5> QED BY <5>1, <5>2, <1>1
      <4>2. p[i] \in {One, t[0 + (i - 0)]}
        BY <1>6 DEF BlockAt
      <4> QED BY <4>1, <4>2, <1>5
    <3>3. 0 \in Nat /\ f - 1 \in Nat /\ 0 <= f - 1 /\ 0 \in Int /\ 0 + ((f - 1) - 0) = f - 1
      BY <1>1
    <3>4. \E w : Place(w, f - 1, 0 + ((f - 1) - 0), M, O)
      BY <3>1, <3>2, <3>3, PlaceRun
    <3> QED BY <3>3, <3>4, <1>4
  <2>3. ASSUME NEW i \in M, i = k + 1, i # f PROVE \E w : Place(w, i - 1, pos[i], M, O)
    <3>1. PICK b \in M : b = Before(p, i) /\ b < i /\ \A s \in M : s < i => s <= b
      BY <1>2, <2>3
    <3>2. b <= k /\ b - 1 \in Nat /\ (b - 1) + 1 = b /\ b \in Nat /\ b <= i - 1 /\ i - 1 \in Nat
      BY <1>1, <2>3, <3>1
    <3>3. PICK w : Place(w, b - 1, pos[b], M, O)
      BY <2>1, <3>2
    <3>4. PICK at \in Int : at = pos[i] - ((i - 1) - b)
      BY <1>4, <3>2
    <3>5. pos[b] <= at /\ BlockAt(p, t, b, i, at) /\ at <= Limit(p, t) - ((i - 1) - b)
      <4>1. pos[i] \in Nat /\ pos[b] \in Nat
        BY <1>8
      <4>2. /\ pos[i] - ((i - 1) - b) \in pos[b] .. (Limit(p, t) - Needed(p, i)) - ((i - 1) - b)
            /\ BlockAt(p, t, b, i, pos[i] - ((i - 1) - b))
        BY <1>4, <2>3, <3>1, <4>1 DEF Greedy
      <4>3. Needed(p, i) \in Nat
        BY <1>3
      <4> QED BY <4>2, <4>3, <3>2, <3>4, <1>3
    <3>6. \E v : Place(v, (b - 1) + 1, at, M, O)
      <4>1. (b - 1) + 1 \in M /\ pos[b] \in Int
        BY <3>1, <3>2, <1>8
      <4> QED BY <3>2, <3>3, <3>5, <4>1, PlaceMore
    <3>7. PICK v : Place(v, b, at, M, O)
      BY <3>2, <3>6
    <3>8. \A c \in b + 1 .. i - 1 : c \notin M /\ <<c, at + (c - b)>> \in O
      <4> TAKE c \in b + 1 .. i - 1
      <4>1. c \in 1 .. m /\ c \notin M
        <5>1. m \in Nat /\ i \in 1 .. m /\ b \in 1 .. m
          BY <1>1
        <5>2. c \in 1 .. m /\ c < i /\ c > b
          BY <5>1
        <5> QED BY <5>1, <5>2, <3>1
      <4>2. at + (c - b) \in 1 .. n
        <5>1. pos[b] \in Nat /\ l \in 1 .. m
          BY <1>1, <1>8
        <5>2. at + (c - b) <= Limit(p, t) /\ Limit(p, t) <= n
          BY <1>1, <1>3, <3>2, <3>5, <5>1
        <5> QED BY <1>1, <1>3, <3>2, <3>5, <5>1, <5>2
      <4>3. p[c] \in {One, t[at + (c - b)]}
        BY <3>5 DEF BlockAt
      <4> QED BY <4>1, <4>2, <4>3, <1>5
    <3>9. \E u : Place(u, i - 1, at + ((i - 1) - b), M, O)
      BY <3>2, <3>7, <3>8, PlaceRun
    <3>10. at + ((i - 1) - b) = pos[i]
      BY <3>2, <3>4, <1>8
    <3> QED BY <3>9, <3>10
  <2>4. \A i \in M : i <= k + 1 => i <= k \/ i = k + 1
    BY <1>1
  <2>5. k + 1 \in 0 .. m
    BY <1>1
  <2> QED BY <2>1, <2>2, <2>3, <2>4, <2>5
<1> HIDE DEF P
<1>11. m \in P
  <2>1. \A k \in 0 .. m : k \in P
    BY <1>1, <1>9, <1>10, Upward
  <2> QED BY <2>1, <1>1
<1>12. PICK w : Place(w, l - 1, pos[l], M, O)
  <2>1. l <= m
    BY <1>1
  <2> QED BY <2>1, <1>1, <1>11 DEF P
\* and the last star and the tail as well.
<1>13. pos[l] <= Limit(p, t)
  <2>1. CASE l = f
    BY <2>1, <1>4, <1>6
  <2>2. CASE l # f
    <3>1. Before(p, l) \in M /\ Before(p, l) < l
      BY <1>1, <1>2, <2>2
    <3>2. pos[l] \in Nat /\ pos[Before(p, l)] \in Nat /\ l \in Nat /\ Before(p, l) \in Nat
      <4>1. \A i \in M : i \in Nat
        BY <1>1
      <4> QED BY <4>1, <1>1, <1>8, <3>1
    <3>3. pos[l] - ((l - 1) - Before(p, l)) \in
            pos[Before(p, l)] .. (Limit(p, t) - Needed(p, l)) - ((l - 1) - Before(p, l))
      BY <1>1, <1>4, <2>2, <3>2 DEF Greedy
    <3> QED BY <3>2, <3>3, <1>3
  <2> QED BY <2>1, <2>2
<1>14. PICK v : Place(v, l, Limit(p, t), M, O)
  <2>1. l - 1 \in Nat /\ (l - 1) + 1 = l /\ pos[l] \in Int /\ Limit(p, t) \in Int
    BY <1>1, <1>3, <1>8
  <2> QED BY <1>1, <1>12, <1>13, <2>1, PlaceMore
<1>15. \A i \in l + 1 .. m : i \notin M /\ <<i, Limit(p, t) + (i - l)>> \in O
  <2> TAKE i \in l + 1 .. m
  <2>1. l \in 1 .. m /\ i \in 1 .. m /\ i \notin M /\ i \in l + 1 .. (m + 1) - 1
    BY <1>1
  <2>2. Limit(p, t) + (i - l) \in 1 .. n
    <3>1. pos[l] \in Nat
      BY <1>1, <1>8
    <3> QED BY <1>1, <1>3, <1>13, <2>1, <3>1
  <2>3. p[i] \in {One, t[Limit(p, t) + (i - l)]}
    BY <1>6, <2>1 DEF BlockAt
  <2> QED BY <2>1, <2>2, <2>3, <1>5
<1>16. \E u : Place(u, m, Limit(p, t) + (m - l), M, O)
  <2>1. l \in Nat /\ l <= m /\ Limit(p, t) \in Int
    BY <1>1, <1>3
  <2> QED BY <1>1, <1>14, <1>15, <2>1, PlaceRun
<1>17. Limit(p, t) + (m - l) = n
  <2>1. l \in Int
    BY <1>1
  <2> QED BY <2>1, <1>1, <1>3
<1> QED BY <1>16, <1>17 DEF m, n, M, O

\* Completeness: where there is a placement, every block is found, and no
\* later than there.
LEMMA PlacesGreedy ==
  ASSUME NEW p \in Seq(STRING), NEW t \in Seq(STRING), Stars(p) # {},
         NEW pos, IsPosition(pos, p, t),
         NEW w, Place(w, Len(p), Len(t), Stars(p), Chars(p, t))
  PROVE  Anchored(p, t) /\ pos[Final(p)] >= 0
<1> DEFINE m == Len(p)  n == Len(t)  f == First(p)  l == Final(p)  M == Stars(p)  O == Chars(p, t)
<1>1. /\ m \in Nat /\ n \in Nat /\ M \subseteq 1 .. m /\ f \in M /\ l \in M
      /\ \A i \in M : f <= i /\ i <= l
  BY StarsAre
<1>2. \A i \in M : i # f => Before(p, i) \in M /\ Before(p, i) < i /\ \A s \in M : s < i => s <= Before(p, i)
  BY StarsAre
<1>3. Limit(p, t) = n - (m - l) /\ Limit(p, t) \in Int /\ \A i \in M : Needed(p, i) \in Nat
  BY PartsAre
<1>4. pos[f] = f - 1 /\ \A i \in M : pos[i] \in Nat \cup {-1} /\ (i # f => Greedy(pos, p, t, i))
  BY PositionIs
<1>5. \A i, j : <<i, j>> \in O => p[i] \in {One, t[j]}
  BY DEF Chars
<1>6. Place(w, m, n, M, O) /\ w[m] = n /\ \A i \in 0 .. m : w[i] \in Int
  BY DEF Place
<1>7. \A i \in M : Needed(p, i) = Cardinality({j \in i .. l : j \notin M})
  <2> TAKE i \in M
  <2>1. \A j \in i .. l : p[j] # Wild <=> j \notin M
    <3> TAKE j \in i .. l
    <3>1. j \in DOMAIN p
      BY <1>1
    <3> QED BY <3>1 DEF Stars
  <2>2. {j \in i .. l : p[j] # Wild} = {j \in i .. l : j \notin M}
    BY <2>1
  <2> QED BY <2>2 DEF Needed
<1> HIDE DEF m, n, f, l, M, O
<1>8. /\ f \in 1 .. m /\ l \in 1 .. m /\ f - 1 \in 0 .. m /\ f - 1 \in Nat
      /\ f <= l /\ l \in 0 .. m /\ m \in l .. m /\ l \in f - 1 .. m
  BY <1>1
<1>9. \A i \in 0 .. m : \A j \in i .. m : w[i] <= w[j]
  BY <1>1, <1>6, PlaceRises
\* The anchored blocks.
<1>10. \A i \in 0 .. f - 1 : w[i] = i /\ (i # 0 => <<i, i>> \in O)
  <2>1. \A i \in 1 .. f - 1 : i \notin M
    BY <1>1, <1>8
  <2> QED BY <2>1, <1>1, <1>6, <1>8, PlaceStart
<1>11. /\ \A i \in l .. m : w[i] = w[l] + (i - l)
       /\ \A i \in l + 1 .. m : <<i, w[l] + (i - l)>> \in O
  <2>1. \A i \in l + 1 .. m : i \notin M
    BY <1>1, <1>8
  <2> QED BY <2>1, <1>1, <1>6, <1>8, PlaceSteps
<1>12. w[l] = Limit(p, t)
  <2>1. m \in l .. m /\ w[l] \in Int /\ m \in Int /\ l \in Int /\ n \in Int
    BY <1>1, <1>6, <1>8
  <2>2. w[m] = w[l] + (m - l)
    BY <2>1, <1>11
  <2>3. n = w[l] + (m - l) /\ Limit(p, t) = n - (m - l)
    BY <2>2, <1>3, <1>6
  <2> QED BY <2>1, <2>3
<1>13. Anchored(p, t)
  <2>1. w[f - 1] = f - 1 /\ w[f - 1] <= w[l]
    <3>1. f - 1 \in 0 .. f - 1
      BY <1>8
    <3> QED BY <3>1, <1>8, <1>9, <1>10
  <2>2. ASSUME NEW i \in 0 + 1 .. f - 1 PROVE p[i] \in {One, t[0 + (i - 0)]}
    <3>1. i \in 0 .. f - 1 /\ i # 0 /\ 0 + (i - 0) = i
      BY <1>8
    <3> QED BY <3>1, <1>5, <1>10
  <2>3. ASSUME NEW i \in l + 1 .. (m + 1) - 1 PROVE p[i] \in {One, t[Limit(p, t) + (i - l)]}
    <3>1. i \in l + 1 .. m
      BY <1>1
    <3> QED BY <3>1, <1>5, <1>11, <1>12
  <2>4. f - 1 <= Limit(p, t)
    BY <2>1, <1>12
  <2>5. BlockAt(p, t, 0, f, 0) /\ BlockAt(p, t, l, m + 1, Limit(p, t))
    BY <2>2, <2>3 DEF BlockAt
  <2> QED BY <2>4, <2>5 DEF Anchored, f, l, m
\* The others.
<1> DEFINE P == {k \in 0 .. m : \A i \in M : i <= k => pos[i] \in Nat /\ pos[i] <= w[i - 1]}
<1>14. 0 \in P
  BY <1>1
<1>15. ASSUME NEW k \in 0 .. m - 1, k \in P PROVE k + 1 \in P
  <2>1. \A i \in M : i <= k => pos[i] \in Nat /\ pos[i] <= w[i - 1]
    BY <1>15
  <2>2. pos[f] \in Nat /\ pos[f] <= w[f - 1]
    <3>1. f - 1 \in 0 .. f - 1 /\ f - 1 \in Nat
      BY <1>8
    <3>2. w[f - 1] = f - 1
      BY <3>1, <1>10
    <3>3. pos[f] = f - 1
      BY <1>4
    <3> QED BY <3>1, <3>2, <3>3
  <2>3. ASSUME NEW i \in M, i = k + 1, i # f PROVE pos[i] \in Nat /\ pos[i] <= w[i - 1]
    <3>1. PICK b \in M : b = Before(p, i) /\ b < i /\ \A s \in M : s < i => s <= b
      BY <1>2, <2>3
    <3>2. /\ b <= k /\ b \in Nat /\ i \in Nat /\ i - 1 \in b .. m /\ b - 1 \in 0 .. m /\ b \in 0 .. m
          /\ i - 1 \in 0 .. m /\ l \in i - 1 .. m /\ b \in b - 1 .. m /\ (i - 1) + 1 = i /\ b <= i - 1
      BY <1>1, <2>3, <3>1
    <3>3. pos[b] \in Nat /\ pos[b] <= w[b - 1] /\ w[b - 1] <= w[b] /\ w[b - 1] \in Int /\ w[b] \in Int
      BY <2>1, <3>2, <1>6, <1>9
    <3>4. /\ \A c \in b .. i - 1 : w[c] = w[b] + (c - b)
          /\ \A c \in b + 1 .. i - 1 : <<c, w[b] + (c - b)>> \in O
      <4>1. \A c \in b + 1 .. i - 1 : c \notin M
        BY <1>1, <3>1, <3>2
      <4> QED BY <4>1, <1>1, <1>6, <3>2, PlaceSteps
    <3>5. BlockAt(p, t, b, i, w[b])
      BY <3>4, <1>5 DEF BlockAt
    <3>6. w[i - 1] = w[b] + ((i - 1) - b)
      <4>1. i - 1 \in b .. i - 1
        BY <3>2
      <4> QED BY <4>1, <3>4
    <3>7. w[i - 1] + Needed(p, i) <= Limit(p, t)
      <4>1. w[i - 1] + Cardinality({j \in (i - 1) + 1 .. l : j \notin M}) <= w[l]
        BY <1>1, <1>6, <3>2, PlaceNeeds
      <4> QED BY <4>1, <3>2, <1>7, <1>12
    <3>8. w[b] \in pos[b] .. (Limit(p, t) - Needed(p, i)) - ((i - 1) - b)
      <4>1. Needed(p, i) \in Nat /\ Limit(p, t) \in Int
        BY <1>3
      <4>2. PICK x \in Int : x = w[b]
        BY <3>3
      <4>3. PICK y \in Nat : y = pos[b]
        BY <3>3
      <4>4. PICK c \in Nat : c = Needed(p, i)
        BY <4>1
      <4>5. PICK e \in Int : e = Limit(p, t)
        BY <4>1
      <4>6. y <= x
        BY <4>2, <4>3, <3>3
      <4>7. (x + ((i - 1) - b)) + c <= e
        BY <4>2, <4>4, <4>5, <3>6, <3>7
      <4>8. i \in Int /\ b \in Int
        BY <3>2
      <4>9. x \in y .. (e - c) - ((i - 1) - b)
        BY <4>6, <4>7, <4>8
      <4> QED BY <4>2, <4>3, <4>4, <4>5, <4>9
    <3>9. pos[i] \in Nat \cup {-1} /\ Greedy(pos, p, t, i)
      BY <1>4, <2>3
    <3>10. /\ pos[b] # -1 /\ pos[i] - ((i - 1) - b) <= w[b]
           /\ pos[i] - ((i - 1) - b) \in pos[b] .. (Limit(p, t) - Needed(p, i)) - ((i - 1) - b)
      BY <3>1, <3>3, <3>5, <3>8, <3>9 DEF Greedy
    <3>11. pos[i] >= 0
      <4>1. pos[i] - ((i - 1) - b) >= pos[b]
        BY <3>10
      <4>2. pos[b] \in Nat /\ pos[i] \in Int /\ b \in Int /\ i \in Int /\ b <= i - 1
        BY <3>2, <3>3, <3>9
      <4> QED BY <4>1, <4>2
    <3>12. PICK x \in Int, y \in Int : x = w[b] /\ y = pos[i]
      BY <3>3, <3>9
    <3>13. y >= 0 /\ y - ((i - 1) - b) <= x /\ w[i - 1] = x + ((i - 1) - b)
      BY <3>6, <3>10, <3>11, <3>12
    <3>14. y \in Nat /\ y <= x + ((i - 1) - b)
      BY <3>2, <3>12, <3>13
    <3> QED BY <3>12, <3>13, <3>14
  <2>4. \A i \in M : i <= k + 1 => i <= k \/ i = k + 1
    BY <1>1
  <2>5. k + 1 \in 0 .. m
    BY <1>1
  <2> QED BY <2>1, <2>2, <2>3, <2>4, <2>5
<1> HIDE DEF P
<1>16. m \in P
  <2>1. \A k \in 0 .. m : k \in P
    BY <1>1, <1>14, <1>15, Upward
  <2> QED BY <2>1, <1>1
<1>17. pos[l] \in Nat
  <2>1. l <= m
    BY <1>8
  <2> QED BY <2>1, <1>1, <1>16 DEF P
<1> QED BY <1>13, <1>17 DEF l

\* _segment_matches is exact: greedy-earliest misses no match, and finds none
\* that is not there.
THEOREM SegmentExact ==
  ASSUME NEW p \in Seq(STRING), NEW t \in Seq(STRING)
  PROVE  SegmentMatches(p, t) <=> SegmentMeans(p, t)
<1>1. CASE Stars(p) = {}
  BY <1>1, StarlessExact
<1>2. CASE Stars(p) # {}
  <2>1. PICK pos : /\ IsPosition(pos, p, t)
                   /\ SegmentMatches(p, t) <=>
                        /\ Len(t) >= Len(HeadBlock(p)) + Len(TailBlock(p))
                        /\ AnchoredMatch(HeadBlock(p), SubSeq(t, 1, Len(HeadBlock(p))))
                        /\ AnchoredMatch(TailBlock(p), SubSeq(t, Limit(p, t) + 1, Len(t)))
                        /\ pos[Final(p)] >= 0
    BY <1>2, SegmentMatchesIs
  <2>2. SegmentMatches(p, t) <=> Anchored(p, t) /\ pos[Final(p)] >= 0
    BY <1>2, <2>1, AnchorsAre
  <2>3. SegmentMeans(p, t) <=> \E w : Place(w, Len(p), Len(t), Stars(p), Chars(p, t))
    BY SegmentPlaced
  <2>4. ASSUME Anchored(p, t), pos[Final(p)] >= 0
        PROVE  \E w : Place(w, Len(p), Len(t), Stars(p), Chars(p, t))
    BY <1>2, <2>1, <2>4, GreedyPlaces
  <2>5. ASSUME NEW w, Place(w, Len(p), Len(t), Stars(p), Chars(p, t))
        PROVE  Anchored(p, t) /\ pos[Final(p)] >= 0
    BY <1>2, <2>1, <2>5, PlacesGreedy
  <2> QED BY <2>2, <2>3, <2>4, <2>5
<1> QED BY <1>1, <1>2

---------------------------------------------------------------------------
(***************************************************************************)
(* The loop of _segments_match is bounded.                                 *)
(***************************************************************************)
\* What the loop keeps: the locals stay within the pattern and the path, the
\* backtrack point lies behind pi, and the iterations so far are paid for by
\* the potential.  The last iteration, which answers "no", is not paid for.
Budget == Len(text) * (Len(pattern) + 1) + Len(pattern)
Paid == steps + Phi <= IF result = "no" THEN Budget + 1 ELSE Budget
MatchInv ==
  /\ pattern \in Seq(Seq(STRING)) /\ text \in Seq(Seq(STRING))
  /\ MatchTypeOK
  /\ star < pi
  /\ Paid

\* Products are kept out of the reach of the step proofs.
LEMMA ProductMonotone ==
  ASSUME NEW a \in Nat, NEW b \in Nat, NEW c \in Nat, a <= b
  PROVE  a * c <= b * c /\ a * c \in Nat
<1>1. PICK d \in Nat : b = a + d
  <2>1. b - a \in Nat /\ b = a + (b - a)
    OBVIOUS
  <2> QED BY <2>1
<1>2. b * c = a * c + d * c
  BY <1>1
<1>3. d * c \in Nat /\ a * c \in Nat
  OBVIOUS
<1> QED
  BY <1>2, <1>3

\* One less of a factor.
LEMMA ProductSuccessor ==
  ASSUME NEW a \in Nat, NEW c \in Nat, a > 0
  PROVE  (a - 1) * c = a * c - c /\ (a - 1) * c \in Nat /\ a * c \in Nat
OBVIOUS

\* A step that costs one and lowers the potential stays paid for.
LEMMA OneLess ==
  ASSUME NEW s \in Nat, NEW f \in Nat, NEW b \in Nat, NEW g \in Int, s + f <= b, g <= f - 1
  PROVE  (s + 1) + g <= b /\ g < f
OBVIOUS

\* The potential is a natural number, and the bound is one more than its start.
LEMMA PhiIsNatural ==
  ASSUME pattern \in Seq(Seq(STRING)), text \in Seq(Seq(STRING)), MatchTypeOK
  PROVE  /\ Phi \in Nat
         /\ Budget \in Nat
         /\ Bound = Budget + 1
<1> DEFINE P == Len(pattern)  T == Len(text)
<1>1. P \in Nat /\ T \in Nat /\ T - mark \in Nat /\ P - pi \in Nat
  BY DEF MatchTypeOK
<1> HIDE DEF P, T
<1>2. (T - mark) * (P + 1) \in Nat
  BY <1>1, ProductMonotone
<1>3. T * (P + 1) \in Nat
  BY <1>1, ProductMonotone
<1>4. (P + 1) * (T + 1) = T * (P + 1) + P + 1
  BY <1>1
<1>5. Bound = (P + 1) * (T + 1)
  BY DEF Bound, P, T
<1>6. Phi \in Nat
  <2>1. Phi = (T - mark) * (P + 1) + (P - pi)
    BY DEF Phi, P, T
  <2> QED BY <2>1, <1>1, <1>2
<1>7. Budget \in Nat /\ Budget = T * (P + 1) + P
  <2>1. Budget = T * (P + 1) + P
    BY DEF Budget, P, T
  <2> DEFINE X == T * (P + 1)
  <2>2. X \in Nat /\ Budget = X + P
    BY <2>1, <1>3
  <2> HIDE DEF X
  <2>3. Budget \in Nat
    BY <2>2, <1>1
  <2> QED BY <2>1, <2>3
<1>8. Bound = Budget + 1
  <2>1. T * (P + 1) + P + 1 = (T * (P + 1) + P) + 1
    BY <1>1, <1>3
  <2> QED BY <2>1, <1>4, <1>5, <1>7
<1> QED
  BY <1>6, <1>7, <1>8

\* A matcher that was just called.
LEMMA MatchInvStart ==
  ASSUME NEW Globs \in SUBSET Seq(Seq(STRING)), NEW Subjects \in SUBSET Seq(Seq(STRING)),
         \E p \in Globs, t \in Subjects : MatchInit(p, t)
  PROVE  MatchInv
<1>1. PICK p \in Globs, t \in Subjects : MatchInit(p, t)
  OBVIOUS
<1>2. pattern \in Seq(Seq(STRING)) /\ text \in Seq(Seq(STRING))
  BY <1>1 DEF MatchInit
<1>3. Len(pattern) \in Nat /\ Len(text) \in Nat
  BY <1>2
<1>4. MatchTypeOK /\ star < pi
  BY <1>1, <1>3 DEF MatchInit, MatchTypeOK
<1>5. steps + Phi = Budget /\ Budget \in Nat /\ result # "no"
  BY <1>1, <1>2, <1>3, <1>4, PhiIsNatural DEF MatchInit, Phi, Budget
<1> QED
  BY <1>2, <1>4, <1>5 DEF MatchInv, Paid

\* One iteration, or what surrounds the loop: the invariant is kept, and the
\* potential falls whenever the loop goes on.
LEMMA MatchStep ==
  ASSUME MatchInv, [MatchNext]_matchVars
  PROVE  MatchInv' /\ (InLoop /\ result' = "running" /\ matchVars' # matchVars => Phi' < Phi)
<1> DEFINE P == Len(pattern)  T == Len(text)
<1>1. /\ P \in Nat /\ T \in Nat
      /\ pi \in 0 .. P /\ star \in -1 .. P - 1 /\ star < pi
      /\ mark \in 0 .. T /\ ti \in mark .. T /\ steps \in Nat
      /\ result \in {"new", "running", "yes", "no"}
  BY DEF MatchInv, MatchTypeOK
<1>2. Phi \in Nat /\ Budget \in Nat /\ Bound = Budget + 1
  BY PhiIsNatural DEF MatchInv
<1>3. pattern' = pattern /\ text' = text
  BY DEF MatchNext, matchVars, Begin, OpenSpan, Consume, Backtrack, Mismatch, TrailingSpan, Finish
<1>4. Budget' = Budget
  BY <1>3 DEF Budget
<1>5. SUFFICES ASSUME MatchNext, matchVars' # matchVars
               PROVE  MatchInv' /\ (InLoop /\ result' = "running" => Phi' < Phi)
  <2>1. CASE UNCHANGED matchVars
    BY <2>1, <1>2 DEF MatchInv, MatchTypeOK, Paid, matchVars, Phi, Budget
  <2> QED BY <2>1, <1>5
<1>6. (InLoop /\ result' = "running") \/ result # "no" \/ UNCHANGED <<steps, locals, result>>
  BY <1>5 DEF MatchNext, InLoop, PastLoop, Begin, OpenSpan, Consume, Backtrack, Mismatch, TrailingSpan, Finish
<1>7. result # "no" /\ steps + Phi <= Budget
  BY <1>1, <1>5 DEF MatchNext, InLoop, PastLoop, Begin, OpenSpan, Consume, Backtrack, Mismatch,
                    TrailingSpan, Finish, MatchInv, Paid
<1>8. steps <= Bound
  BY <1>1, <1>2, <1>7
<1> DEFINE Paying == /\ steps' = steps + 1 /\ result' = "running" /\ Phi' <= Phi - 1
                     /\ pi' \in 0 .. P /\ star' \in -1 .. P - 1 /\ star' < pi'
                     /\ mark' \in 0 .. T /\ ti' \in mark' .. T
<1>9. ASSUME Paying PROVE MatchInv' /\ Phi' < Phi
  <2>1. MatchTypeOK' /\ (pattern \in Seq(Seq(STRING)))' /\ (text \in Seq(Seq(STRING)))'
    <3>1. (pattern \in Seq(Seq(STRING)))' /\ (text \in Seq(Seq(STRING)))'
      BY <1>3 DEF MatchInv
    <3>2. MatchTypeOK'
      BY <1>9, <1>1, <1>3 DEF MatchTypeOK
    <3> QED BY <3>1, <3>2
  <2>2. Phi' \in Nat
    <3>1. Len(pattern') = P /\ Len(text') = T
      BY <1>3
    <3>2. T - mark' \in Nat /\ P - pi' \in Nat
      <4>1. mark' \in 0 .. T /\ pi' \in 0 .. P
        BY <1>9
      <4>2. T \in Nat /\ P \in Nat
        BY <1>1
      <4> QED BY <4>1, <4>2
    <3> HIDE DEF P, T
    <3>3. (T - mark') * (P + 1) \in Nat
      BY <3>2, <1>1, ProductMonotone
    <3> QED BY <3>1, <3>2, <3>3 DEF Phi
  <2>3. Paid' /\ Phi' < Phi
    <3>1. steps \in Nat /\ Phi' \in Int /\ Phi' <= Phi - 1 /\ steps' = steps + 1 /\ result' = "running"
      BY <2>2, <1>9, <1>1
    <3>2. steps' + Phi' <= Budget
      BY <3>1, <1>2, <1>7, OneLess
    <3>3. Paid'
      BY <3>1, <3>2, <1>4 DEF Paid
    <3> QED BY <3>1, <3>3, <1>2
  <2>4. (star < pi)'
    BY <1>9
  <2> QED
    BY <2>1, <2>3, <2>4, Zenon DEF MatchInv
<1>10. CASE OpenSpan
  <2>1. /\ pi < P /\ star' = pi /\ mark' = ti /\ pi' = pi + 1 /\ ti' = ti
        /\ steps' = steps + 1 /\ result' = "running" /\ ti < T
    BY <1>10, <1>1, <1>2, <1>8 DEF OpenSpan, InLoop, AtSpan, Count
  <2>2. Phi' = (T - ti) * (P + 1) + (P - (pi + 1))
    BY <2>1, <1>3 DEF Phi
  <2>3. Phi = (T - mark) * (P + 1) + (P - pi)
    BY DEF Phi
  <2> HIDE DEF P, T
  <2>4. (T - ti) * (P + 1) <= (T - mark) * (P + 1)
    BY <1>1, ProductMonotone
  <2>5. Phi' <= Phi - 1
    <3>1. (T - ti) * (P + 1) \in Int /\ (T - mark) * (P + 1) \in Int
      BY <1>1
    <3> QED BY <3>1, <2>2, <2>3, <2>4, <1>1
  <2> QED
    BY <2>1, <2>5, <1>9, <1>1
<1>11. CASE Consume
  <2>1. /\ pi < P /\ ti < T /\ pi' = pi + 1 /\ ti' = ti + 1 /\ star' = star /\ mark' = mark
        /\ steps' = steps + 1 /\ result' = "running"
    BY <1>11, <1>1, <1>2, <1>8 DEF Consume, InLoop, AtMatch, Count
  <2>2. Phi' = (T - mark) * (P + 1) + (P - (pi + 1))
    BY <2>1, <1>3 DEF Phi
  <2>3. Phi = (T - mark) * (P + 1) + (P - pi)
    BY DEF Phi
  <2> HIDE DEF P, T
  <2>4. Phi' <= Phi - 1
    <3>1. (T - mark) * (P + 1) \in Int
      BY <1>1
    <3> QED BY <3>1, <2>2, <2>3, <1>1
  <2> QED
    BY <2>1, <2>4, <1>9, <1>1
<1>12. CASE Backtrack
  <2>1. /\ ti < T /\ star # -1 /\ pi' = star + 1 /\ mark' = mark + 1 /\ ti' = mark + 1
        /\ star' = star /\ steps' = steps + 1 /\ result' = "running"
    BY <1>12, <1>1, <1>2, <1>8 DEF Backtrack, InLoop, Count
  <2>2. Phi' = (T - (mark + 1)) * (P + 1) + (P - (star + 1))
    BY <2>1, <1>3 DEF Phi
  <2>3. Phi = (T - mark) * (P + 1) + (P - pi)
    BY DEF Phi
  <2> HIDE DEF P, T
  <2>4. (T - (mark + 1)) * (P + 1) = (T - mark) * (P + 1) - (P + 1)
    <3>1. T - mark \in Nat /\ T - mark > 0 /\ P + 1 \in Nat /\ T - (mark + 1) = (T - mark) - 1
      BY <1>1, <2>1
    <3> QED BY <3>1, ProductSuccessor
  <2>5. Phi' <= Phi - 1
    <3>1. (T - mark) * (P + 1) \in Int
      BY <1>1
    <3> QED BY <3>1, <2>1, <2>2, <2>3, <2>4, <1>1
  <2> QED
    BY <2>1, <2>5, <1>9, <1>1
<1>13. CASE Mismatch
  <2>1. /\ result' = "no" /\ steps' = steps + 1 /\ UNCHANGED locals
    BY <1>13, <1>1, <1>2, <1>8 DEF Mismatch, Count
  <2>2. Phi' = Phi
    BY <2>1, <1>3 DEF Phi, locals
  <2> QED
    BY <2>1, <2>2, <1>1, <1>2, <1>3, <1>4, <1>7 DEF MatchInv, MatchTypeOK, Paid, locals
<1>14. CASE TrailingSpan
  <2>1. /\ pi < P /\ pi' = pi + 1 /\ UNCHANGED <<ti, star, mark, steps, result>> /\ ~InLoop
    BY <1>14, <1>1 DEF TrailingSpan, PastLoop, InLoop, AtSpan
  <2>2. Phi' = (T - mark) * (P + 1) + (P - (pi + 1))
    BY <2>1, <1>3 DEF Phi
  <2>3. Phi = (T - mark) * (P + 1) + (P - pi)
    BY DEF Phi
  <2>4. Phi' = Phi - 1
    <3> HIDE DEF P, T
    <3>1. (T - mark) * (P + 1) \in Int
      BY <1>1
    <3> QED BY <3>1, <2>2, <2>3, <1>1
  <2> QED
    BY <2>1, <2>4, <1>1, <1>2, <1>3, <1>4, <1>7 DEF MatchInv, MatchTypeOK, Paid
<1>15. CASE Begin \/ Finish
  <2>1. UNCHANGED <<locals, steps>> /\ result' \in {"running", "yes", "no"} /\ ~InLoop
    BY <1>15, <1>1 DEF Begin, Finish, InLoop, PastLoop
  <2>2. Phi' = Phi
    BY <2>1, <1>3 DEF Phi, locals
  <2> QED
    BY <2>1, <2>2, <1>1, <1>2, <1>3, <1>4, <1>7 DEF MatchInv, MatchTypeOK, Paid, locals
<1> QED
  BY <1>5, <1>10, <1>11, <1>12, <1>13, <1>14, <1>15 DEF MatchNext

\* What is paid for stays within the bound of the docstring.
LEMMA MatchInvBounds ==
  ASSUME MatchInv
  PROVE  StepsBounded
<1>1. Phi \in Nat /\ Budget \in Nat /\ Bound = Budget + 1
  BY PhiIsNatural DEF MatchInv
<1> QED
  BY <1>1 DEF MatchInv, Paid, MatchTypeOK, StepsBounded

\* The bound of the docstring: for every pattern and every path, the loop of
\* _segments_match runs at most (P + 1) * (T + 1) times.
THEOREM MatchBounded ==
  ASSUME NEW Globs \in SUBSET Seq(Seq(STRING)), NEW Subjects \in SUBSET Seq(Seq(STRING))
  PROVE  MatchSpec(Globs, Subjects) => []StepsBounded
<1>1. (\E p \in Globs, t \in Subjects : MatchInit(p, t)) => MatchInv
  BY MatchInvStart
<1>2. MatchInv /\ [MatchNext]_matchVars => MatchInv'
  BY MatchStep
<1>3. MatchInv => StepsBounded
  BY MatchInvBounds
<1> QED
  BY <1>1, <1>2, <1>3, PTL DEF MatchSpec

\* The argument of the docstring: every iteration after which the loop goes
\* on lowers the potential, so the loop ends.
THEOREM MatchPotentialFalls ==
  ASSUME NEW Globs \in SUBSET Seq(Seq(STRING)), NEW Subjects \in SUBSET Seq(Seq(STRING))
  PROVE  MatchSpec(Globs, Subjects) => PotentialFalls
<1>1. (\E p \in Globs, t \in Subjects : MatchInit(p, t)) => MatchInv
  BY MatchInvStart
<1>2. MatchInv /\ [MatchNext]_matchVars => MatchInv'
  BY MatchStep
<1>3. MatchInv /\ [MatchNext]_matchVars => [InLoop /\ result' = "running" => Phi' < Phi]_matchVars
  BY MatchStep
<1> QED
  BY <1>1, <1>2, <1>3, PTL DEF MatchSpec, PotentialFalls

---------------------------------------------------------------------------
(***************************************************************************)
(* The loop of _segments_match answers what a pattern means.               *)
(***************************************************************************)
Fits(p, t, i, j) == \E w : Place(w, i, j, Spans(p), Segments(p, t))
Whole(w, p, t) == Place(w, Len(p), Len(t), Spans(p), Segments(p, t))

\* What the loop knows in each iteration.  The first i segments of the pattern
\* fit the first j of the path; the last "**" met, after s segments, can have
\* started at mark or before; since then only single segments were taken; and
\* no placement of the whole is behind where the loop stands.
Going(p, t, i, j, s, mk) ==
  /\ Fits(p, t, i, j)
  /\ IF s = -1 THEN mk = 0 ELSE p[s + 1] = Span /\ \E h \in 0 .. mk : Fits(p, t, s, h)
  /\ j < Len(t) => (\A x \in s + 2 .. i : p[x] # Span) /\ j - mk = (i - s) - 1
  /\ \A w : Whole(w, p, t) => w[s + 1] >= mk /\ w[i] >= j

Within(p, t, i, j, s, mk) ==
  /\ p \in Seq(Seq(STRING)) /\ t \in Seq(Seq(STRING))
  /\ i \in 0 .. Len(p) /\ mk \in 0 .. Len(t) /\ j \in mk .. Len(t)
  /\ s \in -1 .. Len(p) - 1 /\ s < i

\* The next segment of the pattern is no "**" and does not match.
Stuck(p, t, i, j) ==
  i < Len(p) => p[i + 1] # Span /\ ~SegmentMatches(p[i + 1], t[j + 1])

\* It knows that when it is called.
LEMMA GoingStart ==
  ASSUME NEW p \in Seq(Seq(STRING)), NEW t \in Seq(Seq(STRING))
  PROVE  Going(p, t, 0, 0, -1, 0)
<1>1. Place([l \in 0 .. 0 |-> 0], 0, 0, Spans(p), Segments(p, t))
  BY DEF Place
<1>2. \A w : Whole(w, p, t) => w[0] = 0
  BY DEF Whole, Place
<1> QED BY <1>1, <1>2 DEF Going, Fits

\* Facts about single elements of a placement.
LEMMA WholeStep ==
  ASSUME NEW p \in Seq(Seq(STRING)), NEW t \in Seq(Seq(STRING)), NEW w, Whole(w, p, t),
         NEW i \in 0 .. Len(p) - 1
  PROVE  /\ w[i] \in Int /\ w[i + 1] \in Int /\ w[i] <= w[i + 1] /\ w[i + 1] <= Len(t)
         /\ p[i + 1] # Span => /\ w[i + 1] = w[i] + 1
                               /\ <<i + 1, w[i + 1]>> \in Segments(p, t)
<1> DEFINE m == Len(p)  n == Len(t)
<1>1. m \in Nat /\ n \in Nat
  OBVIOUS
<1>2. i \in 0 .. m /\ i + 1 \in 0 .. m /\ i + 1 \in 1 .. m /\ (i + 1) - 1 = i /\ m \in i + 1 .. m /\ i + 1 \in i .. m
  BY <1>1
<1>3. Place(w, m, n, Spans(p), Segments(p, t))
  BY DEF Whole
<1>4. i + 1 \in Spans(p) <=> p[i + 1] = Span
  BY <1>2 DEF Spans
<1> HIDE DEF m, n
<1>5. \A x \in 0 .. m : \A y \in x .. m : w[x] <= w[y]
  BY <1>1, <1>3, PlaceRises
<1>6. w[m] = n /\ \A x \in 0 .. m : w[x] \in Int
  BY <1>3 DEF Place
<1>7. p[i + 1] # Span => w[i + 1] = w[i] + 1 /\ <<i + 1, w[i + 1]>> \in Segments(p, t)
  <2>1. PICK y \in 1 .. m : y = i + 1
    BY <1>2
  <2>2. IF y \in Spans(p) THEN w[y - 1] <= w[y]
        ELSE w[y] = w[y - 1] + 1 /\ <<y, w[y]>> \in Segments(p, t)
    BY <1>3 DEF Place
  <2> QED BY <2>1, <2>2, <1>2, <1>4
<1> QED BY <1>2, <1>5, <1>6, <1>7 DEF n

\* A "**" takes no segment yet, or any number of them.
LEMMA FitsSpan ==
  ASSUME NEW p \in Seq(Seq(STRING)), NEW t \in Seq(Seq(STRING)),
         NEW i \in 0 .. Len(p) - 1, p[i + 1] = Span,
         NEW h \in Nat, NEW j \in Nat, h <= j, Fits(p, t, i, h)
  PROVE  Fits(p, t, i + 1, j)
<1>1. PICK w : Place(w, i, h, Spans(p), Segments(p, t))
  BY DEF Fits
<1>2. i + 1 \in Spans(p) /\ i \in Nat /\ h \in Int /\ j \in Int
  BY DEF Spans
<1>3. \E v : Place(v, i + 1, j, Spans(p), Segments(p, t))
  BY <1>1, <1>2, PlaceMore
<1> QED BY <1>3 DEF Fits

\* Any other segment takes one that it matches.
LEMMA FitsSegment ==
  ASSUME NEW p \in Seq(Seq(STRING)), NEW t \in Seq(Seq(STRING)),
         NEW i \in 0 .. Len(p) - 1, p[i + 1] # Span,
         NEW j \in 0 .. Len(t) - 1, SegmentMatches(p[i + 1], t[j + 1]), Fits(p, t, i, j)
  PROVE  Fits(p, t, i + 1, j + 1)
<1>1. PICK w : Place(w, i, j, Spans(p), Segments(p, t))
  BY DEF Fits
<1>2. /\ i + 1 \in 1 .. Len(p) /\ j + 1 \in 1 .. Len(t) /\ i \in Nat /\ j \in Int /\ j + 1 \in Int
  OBVIOUS
<1>3. p[i + 1] \in Seq(STRING) /\ t[j + 1] \in Seq(STRING)
  BY <1>2
<1>4. SegmentMeans(p[i + 1], t[j + 1])
  BY <1>3, SegmentExact
<1>5. i + 1 \notin Spans(p) /\ <<i + 1, j + 1>> \in Segments(p, t)
  BY <1>2, <1>4 DEF Spans, Segments
<1>6. \E v : Place(v, i + 1, j + 1, Spans(p), Segments(p, t))
  BY <1>1, <1>2, <1>5, PlaceMore
<1> QED BY <1>6 DEF Fits

\* The branches of the loop: a "**",
LEMMA GoingSpan ==
  ASSUME NEW p, NEW t, NEW i, NEW j, NEW s, NEW mk, Within(p, t, i, j, s, mk), Going(p, t, i, j, s, mk),
         i < Len(p), p[i + 1] = Span
  PROVE  Going(p, t, i + 1, j, i, j) /\ (j >= Len(t) => Going(p, t, i + 1, j, s, mk))
<1>1. /\ p \in Seq(Seq(STRING)) /\ t \in Seq(Seq(STRING)) /\ Len(p) \in Nat /\ Len(t) \in Nat
      /\ i \in 0 .. Len(p) - 1 /\ j \in Nat /\ j <= j /\ i # -1 /\ j \in 0 .. j
  BY DEF Within
<1>2. Fits(p, t, i, j)
  BY DEF Going
<1>3. Fits(p, t, i + 1, j)
  BY <1>1, <1>2, FitsSpan
<1>4. \A w : Whole(w, p, t) => w[i + 1] >= j
  <2> SUFFICES ASSUME NEW w, Whole(w, p, t) PROVE w[i + 1] >= j
    OBVIOUS
  <2>1. w[i] >= j
    BY DEF Going
  <2>2. w[i] \in Int /\ w[i + 1] \in Int /\ w[i] <= w[i + 1]
    BY <1>1, WholeStep
  <2> QED BY <2>1, <2>2, <1>1
<1>5. (\A x \in i + 2 .. i + 1 : p[x] # Span) /\ j - j = ((i + 1) - i) - 1
  BY <1>1
<1>6. Going(p, t, i + 1, j, i, j)
  BY <1>1, <1>2, <1>3, <1>4, <1>5 DEF Going
<1>7. j >= Len(t) => ~(j < Len(t))
  BY <1>1
<1> QED BY <1>3, <1>4, <1>6, <1>7 DEF Going

\* a segment that matches,
LEMMA GoingOn ==
  ASSUME NEW p, NEW t, NEW i, NEW j, NEW s, NEW mk, Within(p, t, i, j, s, mk), Going(p, t, i, j, s, mk),
         i < Len(p), j < Len(t), p[i + 1] # Span, SegmentMatches(p[i + 1], t[j + 1])
  PROVE  Going(p, t, i + 1, j + 1, s, mk)
<1>1. /\ p \in Seq(Seq(STRING)) /\ t \in Seq(Seq(STRING)) /\ Len(p) \in Nat /\ Len(t) \in Nat
      /\ i \in 0 .. Len(p) - 1 /\ j \in 0 .. Len(t) - 1 /\ s \in Int /\ mk \in Int /\ i \in Int /\ j \in Int
  BY DEF Within
<1>2. Fits(p, t, i + 1, j + 1)
  <2>1. Fits(p, t, i, j)
    BY DEF Going
  <2> QED BY <1>1, <2>1, FitsSegment
<1>3. (\A x \in s + 2 .. i + 1 : p[x] # Span) /\ (j + 1) - mk = ((i + 1) - s) - 1
  <2>1. (\A x \in s + 2 .. i : p[x] # Span) /\ j - mk = (i - s) - 1
    BY DEF Going
  <2>2. \A x \in s + 2 .. i + 1 : x \in s + 2 .. i \/ x = i + 1
    BY <1>1
  <2> QED BY <1>1, <2>1, <2>2
<1>4. \A w : Whole(w, p, t) => w[s + 1] >= mk /\ w[i + 1] >= j + 1
  <2> SUFFICES ASSUME NEW w, Whole(w, p, t) PROVE w[s + 1] >= mk /\ w[i + 1] >= j + 1
    OBVIOUS
  <2>1. w[s + 1] >= mk /\ w[i] >= j
    BY DEF Going
  <2>2. w[i] \in Int /\ w[i + 1] = w[i] + 1
    <3>1. p[i + 1] # Span
      OBVIOUS
    <3>2. p \in Seq(Seq(STRING)) /\ t \in Seq(Seq(STRING)) /\ i \in 0 .. Len(p) - 1
      BY <1>1
    <3>3. /\ w[i] \in Int /\ w[i + 1] \in Int /\ w[i] <= w[i + 1] /\ w[i + 1] <= Len(t)
          /\ p[i + 1] # Span => /\ w[i + 1] = w[i] + 1
                                /\ <<i + 1, w[i + 1]>> \in Segments(p, t)
      BY <3>2, WholeStep
    <3> QED BY <3>1, <3>3
  <2>3. j \in Int /\ w[i] \in Int /\ j <= w[i]
    BY <1>1, <2>1, <2>2
  <2>4. w[i] + 1 >= j + 1
    BY <2>3
  <2> QED BY <2>1, <2>2, <2>4
<1> QED BY <1>2, <1>3, <1>4 DEF Going

\* and one that does not: then no placement has the last "**" end at mark.
LEMMA StuckHere ==
  ASSUME NEW p, NEW t, NEW i, NEW j, NEW s, NEW mk, Within(p, t, i, j, s, mk), Going(p, t, i, j, s, mk),
         j < Len(t), Stuck(p, t, i, j), NEW w, Whole(w, p, t)
  PROVE  w[s + 1] # mk
<1> DEFINE m == Len(p)  n == Len(t)  M == Spans(p)  O == Segments(p, t)
<1>1. /\ p \in Seq(Seq(STRING)) /\ t \in Seq(Seq(STRING)) /\ m \in Nat /\ n \in Nat
      /\ i \in 0 .. m /\ j \in 0 .. n - 1 /\ s \in Int /\ mk \in Int /\ s < i /\ -1 <= s
  BY DEF Within
<1>2. (\A x \in s + 2 .. i : p[x] # Span) /\ j - mk = (i - s) - 1
  BY DEF Going
<1>3. Place(w, m, n, M, O) /\ w[m] = n
  BY DEF Whole, Place
<1> SUFFICES ASSUME w[s + 1] = mk PROVE FALSE
  OBVIOUS
<1>4. w[i] = j
  <2>1. PICK a \in 0 .. m : a = s + 1
    BY <1>1
  <2>2. i \in a .. m /\ i \in a .. i
    BY <1>1, <2>1
  <2>3. \A x \in a + 1 .. i : x \notin M
    <3> TAKE x \in a + 1 .. i
    <3>1. x \in s + 2 .. i
      BY <1>1, <2>1
    <3> QED BY <3>1, <1>2 DEF Spans
  <2> HIDE DEF m, n, M, O
  <2>4. /\ \A x \in a .. i : w[x] = w[a] + (x - a)
        /\ \A x \in a + 1 .. i : <<x, w[a] + (x - a)>> \in O
    <3>1. m \in Nat
      BY <1>1
    <3> QED BY <3>1, <1>3, <2>2, <2>3, PlaceSteps
  <2>5. w[i] = mk + (i - a)
    BY <2>1, <2>2, <2>4
  <2> QED BY <2>1, <2>5, <1>1, <1>2
<1>5. CASE i = m
  BY <1>1, <1>3, <1>4, <1>5
<1>6. CASE i # m
  <2>1. i \in 0 .. m - 1
    BY <1>1, <1>6
  <2>2. p[i + 1] # Span /\ ~SegmentMatches(p[i + 1], t[j + 1])
    BY <1>1, <2>1 DEF Stuck
  <2>3. w[i + 1] = w[i] + 1 /\ <<i + 1, w[i + 1]>> \in Segments(p, t)
    BY <1>1, <2>1, <2>2, WholeStep
  <2>4. SegmentMeans(p[i + 1], t[j + 1])
    BY <1>4, <2>3 DEF Segments
  <2>5. p[i + 1] \in Seq(STRING) /\ t[j + 1] \in Seq(STRING)
    <3>1. i + 1 \in 1 .. Len(p) /\ j + 1 \in 1 .. Len(t)
      BY <1>1, <2>1
    <3>2. p \in Seq(Seq(STRING)) /\ t \in Seq(Seq(STRING))
      BY <1>1
    <3> QED BY <3>1, <3>2
  <2> QED BY <2>2, <2>4, <2>5, SegmentExact
<1> QED BY <1>5, <1>6

\* So the last "**" takes one segment more,
LEMMA GoingBack ==
  ASSUME NEW p, NEW t, NEW i, NEW j, NEW s, NEW mk, Within(p, t, i, j, s, mk), Going(p, t, i, j, s, mk),
         j < Len(t), Stuck(p, t, i, j), s # -1
  PROVE  Going(p, t, s + 1, mk + 1, s, mk + 1)
<1>1. /\ p \in Seq(Seq(STRING)) /\ t \in Seq(Seq(STRING)) /\ Len(p) \in Nat /\ Len(t) \in Nat
      /\ s \in 0 .. Len(p) - 1 /\ mk \in Nat /\ mk + 1 \in Nat
  BY DEF Within
<1>2. PICK h \in 0 .. mk : Fits(p, t, s, h)
  BY DEF Going
<1>3. p[s + 1] = Span
  BY DEF Going
<1>4. Fits(p, t, s + 1, mk + 1)
  <2>1. h \in Nat /\ h <= mk + 1
    BY <1>1
  <2> QED BY <1>1, <1>2, <1>3, <2>1, FitsSpan
<1>5. h \in 0 .. mk + 1
  BY <1>1
<1>6. (\A x \in s + 2 .. s + 1 : p[x] # Span) /\ (mk + 1) - (mk + 1) = ((s + 1) - s) - 1
  BY <1>1
<1>7. \A w : Whole(w, p, t) => w[s + 1] >= mk + 1
  <2> SUFFICES ASSUME NEW w, Whole(w, p, t) PROVE w[s + 1] >= mk + 1
    OBVIOUS
  <2>1. w[s + 1] >= mk
    BY DEF Going
  <2>2. w[s + 1] # mk
    BY StuckHere
  <2>3. w[s + 1] \in Int
    BY <1>1, WholeStep
  <2> QED BY <2>1, <2>2, <2>3, <1>1
<1>8. \E x \in 0 .. mk + 1 : Fits(p, t, s, x)
  BY <1>2, <1>5
<1> QED BY <1>3, <1>4, <1>6, <1>7, <1>8 DEF Going

\* and without a "**" to go back to, nothing fits.
LEMMA GoingNowhere ==
  ASSUME NEW p, NEW t, NEW i, NEW j, NEW s, NEW mk, Within(p, t, i, j, s, mk), Going(p, t, i, j, s, mk),
         j < Len(t), Stuck(p, t, i, j), s = -1, NEW w, Whole(w, p, t)
  PROVE  FALSE
<1>1. s + 1 = 0 /\ mk = 0 /\ w[0] = 0
  BY DEF Going, Whole, Place
<1> QED BY <1>1, StuckHere

\* At the end of the path, what is left of the pattern has to be nothing.
LEMMA GoingEnds ==
  ASSUME NEW p, NEW t, NEW i, NEW j, NEW s, NEW mk, Within(p, t, i, j, s, mk), Going(p, t, i, j, s, mk),
         j >= Len(t), i < Len(p) => p[i + 1] # Span
  PROVE  i = Len(p) <=> \E w : Whole(w, p, t)
<1>1. /\ p \in Seq(Seq(STRING)) /\ t \in Seq(Seq(STRING)) /\ Len(p) \in Nat /\ Len(t) \in Nat
      /\ i \in 0 .. Len(p) /\ j = Len(t)
  BY DEF Within
<1>2. i = Len(p) => \E w : Whole(w, p, t)
  BY <1>1 DEF Going, Fits, Whole
<1>3. ASSUME i # Len(p), NEW w, Whole(w, p, t) PROVE FALSE
  <2>1. i \in 0 .. Len(p) - 1 /\ i < Len(p)
    BY <1>1, <1>3
  <2>2. /\ w[i] \in Int /\ w[i + 1] \in Int /\ w[i] <= w[i + 1] /\ w[i + 1] <= Len(t)
        /\ p[i + 1] # Span => /\ w[i + 1] = w[i] + 1
                              /\ <<i + 1, w[i + 1]>> \in Segments(p, t)
    BY <1>1, <1>3, <2>1, WholeStep
  <2>3. w[i] >= j
    BY <1>3 DEF Going
  <2> QED BY <2>1, <2>2, <2>3, <1>1
<1> QED BY <1>2, <1>3

\* What the loop knows, from the call to the answer.
ExactInv ==
  /\ result = "new" => pi = 0 /\ ti = 0 /\ star = -1 /\ mark = 0
  /\ result = "running" => HasWildcard(pattern) /\ Going(pattern, text, pi, ti, star, mark)
  /\ MatchIsExact

\* A matcher that was just called.
LEMMA ExactStart ==
  ASSUME NEW p, NEW t, MatchInit(p, t)
  PROVE  ExactInv
BY DEF MatchInit, ExactInv, MatchIsExact

\* One step keeps it.
LEMMA ExactStep ==
  ASSUME MatchInv, ExactInv, [MatchNext]_matchVars
  PROVE  ExactInv'
<1>1. /\ pattern \in Seq(Seq(STRING)) /\ text \in Seq(Seq(STRING))
      /\ pattern' = pattern /\ text' = text
      /\ Within(pattern, text, pi, ti, star, mark)
  BY DEF MatchNext, matchVars, Begin, OpenSpan, Consume, Backtrack, Mismatch, TrailingSpan, Finish,
         MatchInv, MatchTypeOK, Within
<1>2. HasWildcard(pattern) => (PathMeans(pattern, text) <=> \E w : Whole(w, pattern, text))
  BY <1>1, PathPlaced DEF Reads, Whole
<1>3. ~HasWildcard(pattern) => (PathMeans(pattern, text) <=> IsPrefix(pattern, text))
  BY <1>1, LiteralPath
<1>4. pi \in 0 .. Len(pattern) /\ ti \in 0 .. Len(text) /\ Len(pattern) \in Nat /\ Len(text) \in Nat
  BY <1>1 DEF Within
\* Wherever the loop goes on, it knows what it has to,
<1>5. ASSUME result' = "running", HasWildcard(pattern), Going(pattern, text, pi', ti', star', mark')
      PROVE  ExactInv'
  BY <1>1, <1>5 DEF ExactInv, MatchIsExact
\* and an answer is right.
<1>6. ASSUME result' \in {"yes", "no"}, (result' = "yes") <=> PathMeans(pattern, text)
      PROVE  ExactInv'
  <2>1. (result' = "yes") = PathMeans(pattern, text)
    <3>1. PathMeans(pattern, text) \in BOOLEAN
      BY DEF PathMeans, Denotes
    <3>2. PICK b \in BOOLEAN : b = PathMeans(pattern, text)
      BY <3>1
    <3> QED BY <1>6, <3>2
  <2>2. result' # "new" /\ result' # "running"
    BY <1>6
  <2> QED BY <1>1, <2>1, <2>2 DEF ExactInv, MatchIsExact
<1>7. ASSUME result = "running"
      PROVE  HasWildcard(pattern) /\ Going(pattern, text, pi, ti, star, mark)
  BY <1>7 DEF ExactInv
<1>8. CASE Begin
  <2>1. result = "new" /\ UNCHANGED <<pi, ti, star, mark>>
    BY <1>8 DEF Begin, locals
  <2>2. CASE HasWildcard(pattern)
    <3>1. result' = "running"
      BY <1>8, <2>2 DEF Begin
    <3>2. pi' = 0 /\ ti' = 0 /\ star' = -1 /\ mark' = 0
      BY <2>1 DEF ExactInv
    <3>3. Going(pattern, text, 0, 0, -1, 0)
      BY <1>1, GoingStart
    <3> QED BY <1>5, <2>2, <3>1, <3>2, <3>3
  <2>3. CASE ~HasWildcard(pattern)
    BY <1>3, <1>6, <1>8, <2>3 DEF Begin
  <2> QED BY <2>2, <2>3
<1>9. CASE OpenSpan
  <2>1. /\ result = "running" /\ result' = "running" /\ pi < Len(pattern) /\ pattern[pi + 1] = Span
        /\ star' = pi /\ mark' = ti /\ pi' = pi + 1 /\ ti' = ti
    BY <1>9 DEF OpenSpan, InLoop, AtSpan
  <2>2. Going(pattern, text, pi + 1, ti, pi, ti)
    BY <1>1, <1>7, <2>1, GoingSpan
  <2> QED BY <1>5, <1>7, <2>1, <2>2
<1>10. CASE Consume
  <2>1. /\ result = "running" /\ result' = "running" /\ pi < Len(pattern) /\ pattern[pi + 1] # Span
        /\ ti < Len(text) /\ SegmentMatches(pattern[pi + 1], text[ti + 1])
        /\ pi' = pi + 1 /\ ti' = ti + 1 /\ star' = star /\ mark' = mark
    BY <1>10 DEF Consume, InLoop, AtMatch, AtSpan
  <2>2. Going(pattern, text, pi + 1, ti + 1, star, mark)
    BY <1>1, <1>7, <2>1, GoingOn
  <2> QED BY <1>5, <1>7, <2>1, <2>2
<1>11. CASE Backtrack
  <2>1. /\ result = "running" /\ result' = "running" /\ ti < Len(text) /\ star # -1
        /\ pi' = star + 1 /\ mark' = mark + 1 /\ ti' = mark + 1 /\ star' = star
    BY <1>11 DEF Backtrack, InLoop
  <2>2. Stuck(pattern, text, pi, ti)
    BY <1>11 DEF Backtrack, AtMatch, AtSpan, Stuck
  <2>3. Going(pattern, text, star + 1, mark + 1, star, mark + 1)
    BY <1>1, <1>7, <2>1, <2>2, GoingBack
  <2> QED BY <1>5, <1>7, <2>1, <2>3
<1>12. CASE Mismatch
  <2>1. result = "running" /\ result' = "no" /\ ti < Len(text) /\ star = -1
    BY <1>12 DEF Mismatch, InLoop
  <2>2. Stuck(pattern, text, pi, ti)
    BY <1>12 DEF Mismatch, AtMatch, AtSpan, Stuck
  <2>3. \A w : ~Whole(w, pattern, text)
    BY <1>1, <1>7, <2>1, <2>2, GoingNowhere
  <2>4. ~PathMeans(pattern, text)
    BY <1>2, <1>7, <2>1, <2>3
  <2> QED BY <1>6, <2>1, <2>4
<1>13. CASE TrailingSpan
  <2>1. /\ result = "running" /\ result' = "running" /\ ti >= Len(text)
        /\ pi < Len(pattern) /\ pattern[pi + 1] = Span
        /\ pi' = pi + 1 /\ UNCHANGED <<ti, star, mark>>
    BY <1>13 DEF TrailingSpan, PastLoop, AtSpan
  <2>2. Going(pattern, text, pi + 1, ti, star, mark)
    BY <1>1, <1>7, <2>1, GoingSpan
  <2> QED BY <1>5, <1>7, <2>1, <2>2
<1>14. CASE Finish
  <2>1. /\ result = "running" /\ ti >= Len(text) /\ (pi < Len(pattern) => pattern[pi + 1] # Span)
        /\ result' = IF pi = Len(pattern) THEN "yes" ELSE "no"
    BY <1>14 DEF Finish, PastLoop, AtSpan
  <2>2. pi = Len(pattern) <=> \E w : Whole(w, pattern, text)
    BY <1>1, <1>7, <2>1, GoingEnds
  <2>3. pi = Len(pattern) <=> PathMeans(pattern, text)
    BY <1>2, <1>7, <2>1, <2>2
  <2> QED BY <1>6, <2>1, <2>3
<1>15. CASE UNCHANGED matchVars
  BY <1>15 DEF matchVars, ExactInv, MatchIsExact
<1> QED
  BY <1>8, <1>9, <1>10, <1>11, <1>12, <1>13, <1>14, <1>15 DEF MatchNext

\* For every pattern and every path, the answer is what the pattern means.
THEOREM MatchExact ==
  ASSUME NEW Globs \in SUBSET Seq(Seq(STRING)), NEW Subjects \in SUBSET Seq(Seq(STRING))
  PROVE  MatchSpec(Globs, Subjects) => []MatchIsExact
<1>1. (\E p \in Globs, t \in Subjects : MatchInit(p, t)) => MatchInv /\ ExactInv
  BY MatchInvStart, ExactStart
<1>2. MatchInv /\ ExactInv /\ [MatchNext]_matchVars => (MatchInv /\ ExactInv)'
  BY MatchStep, ExactStep
<1>3. ExactInv => MatchIsExact
  BY DEF ExactInv
<1> QED
  BY <1>1, <1>2, <1>3, PTL DEF MatchSpec

---------------------------------------------------------------------------
(***************************************************************************)
(* Paths as strings: what a walk over the parts leaves.                    *)
(***************************************************************************)
\* One part of a path, on a walk.
Step(kept, s, back) ==
  IF s \in Blanks THEN kept ELSE IF s \in back THEN Front(kept) ELSE Append(kept, s)

\* A walk takes one step for each part, from the first to the last.
LEMMA WalkSteps ==
  ASSUME NEW parts \in Seq(Seq(STRING)), NEW back
  PROVE  \E f : /\ f[0] = <<>> /\ Walk(parts, back) = f[Len(parts)]
                /\ \A i \in 1 .. Len(parts) : f[i] = Step(f[i - 1], parts[i], back)
<1> DEFINE n == Len(parts)
           Row(g, i) == IF i = 0 THEN <<>> ELSE Step(g[i - 1], parts[i], back)
           Solves(g, m) == g = [i \in 0 .. m |-> Row(g, i)]
           P == {m \in 0 .. n : \E g : Solves(g, m)}
           kept == CHOOSE g : Solves(g, n)
<1>1. 0 \in P
  <2> DEFINE g == [i \in 0 .. 0 |-> <<>>]
  <2>1. \A i \in 0 .. 0 : i = 0
    OBVIOUS
  <2>2. Solves(g, 0) /\ 0 \in 0 .. n
    BY <2>1
  <2> HIDE DEF g, Solves
  <2> QED BY <2>2
<1>2. ASSUME NEW m \in 0 .. n - 1, m \in P PROVE m + 1 \in P
  <2>1. PICK g : Solves(g, m)
    BY <1>2
  <2> DEFINE h == [i \in 0 .. m + 1 |-> IF i = m + 1 THEN Step(g[m], parts[m + 1], back) ELSE g[i]]
  <2>2. m \in Nat /\ m + 1 \in 0 .. n
    OBVIOUS
  <2>3. \A i \in 0 .. m : h[i] = g[i]
    BY <2>2
  <2>4. \A i \in 0 .. m + 1 : h[i] = Row(h, i)
    <3> TAKE i \in 0 .. m + 1
    <3>1. CASE i = m + 1
      <4>1. h[i] = Step(g[m], parts[i], back) /\ i # 0 /\ i - 1 = m /\ m \in 0 .. m
        BY <3>1, <2>2
      <4> QED BY <4>1, <2>3
    <3>2. CASE i \in 0 .. m /\ i # 0
      <4>1. i - 1 \in 0 .. m
        BY <3>2, <2>2
      <4>2. g[i] = Step(g[i - 1], parts[i], back)
        BY <3>2, <2>1
      <4> QED BY <3>2, <4>1, <4>2, <2>3
    <3>3. CASE i = 0
      <4>1. 0 \in 0 .. m
        BY <2>2
      <4>2. g[0] = <<>>
        BY <4>1, <2>1
      <4> QED BY <3>3, <4>1, <4>2, <2>3
    <3> QED BY <3>1, <3>2, <3>3, <2>2
  <2>5. h = [i \in 0 .. m + 1 |-> Row(h, i)]
    <3> HIDE DEF Row
    <3> QED BY <2>4
  <2> HIDE DEF h, Row
  <2> QED BY <2>2, <2>5
<1> HIDE DEF P
<1>3. n \in P
  <2>1. n \in Nat /\ n \in 0 .. n
    OBVIOUS
  <2> HIDE DEF n
  <2>2. \A i \in 0 .. n : i \in P
    BY <1>1, <1>2, <2>1, Upward
  <2> QED BY <2>1, <2>2
<1>4. \E g : Solves(g, n)
  BY <1>3 DEF P
<1>5. Solves(kept, n)
  <2> HIDE DEF Solves
  <2> QED BY <1>4
<1>6. Walk(parts, back) = kept[n]
  BY DEF Walk, Step
<1> HIDE DEF kept
<1>7. kept[0] = <<>> /\ \A i \in 1 .. n : kept[i] = Step(kept[i - 1], parts[i], back)
  <2>1. \A i \in 0 .. n : kept[i] = Row(kept, i)
    <3> HIDE DEF Row
    <3> QED BY <1>5
  <2> QED BY <2>1
<1> QED BY <1>6, <1>7

\* Segments that say where to go and nothing else.
Plain(segments, back) ==
  segments \in Seq(Seq(STRING)) /\ \A i \in DOMAIN segments : segments[i] \notin Blanks \cup back

\* A step keeps nothing that leads nowhere or back.
LEMMA StepIsPlain ==
  ASSUME NEW back, NEW kept, Plain(kept, back), NEW s \in Seq(STRING)
  PROVE  Plain(Step(kept, s, back), back)
<1>1. CASE s \in Blanks
  BY <1>1 DEF Step
<1>2. CASE s \notin Blanks /\ s \in back
  <2>1. Front(kept) \in Seq(Seq(STRING)) /\ \A i \in DOMAIN Front(kept) : i \in DOMAIN kept /\ Front(kept)[i] = kept[i]
    BY DEF Plain, Front
  <2> QED BY <1>2, <2>1 DEF Step, Plain
<1>3. CASE s \notin Blanks /\ s \notin back
  <2>1. Append(kept, s) \in Seq(Seq(STRING))
    BY DEF Plain
  <2>2. \A i \in DOMAIN Append(kept, s) : Append(kept, s)[i] = s \/ (i \in DOMAIN kept /\ Append(kept, s)[i] = kept[i])
    BY DEF Plain
  <2> QED BY <1>3, <2>1, <2>2 DEF Step, Plain
<1> QED BY <1>1, <1>2, <1>3

\* Nor does a walk.
LEMMA WalkIsPlain ==
  ASSUME NEW parts \in Seq(Seq(STRING)), NEW back
  PROVE  Plain(Walk(parts, back), back)
<1>1. PICK f : /\ f[0] = <<>> /\ Walk(parts, back) = f[Len(parts)]
               /\ \A i \in 1 .. Len(parts) : f[i] = Step(f[i - 1], parts[i], back)
  BY WalkSteps
<1>2. PICK n \in Nat : n = Len(parts)
  OBVIOUS
<1> DEFINE P == {i \in 0 .. n : Plain(f[i], back)}
<1>3. 0 \in P
  <2>1. <<>> \in Seq(Seq(STRING)) /\ DOMAIN <<>> = {}
    OBVIOUS
  <2>2. Plain(<<>>, back) /\ 0 \in 0 .. n
    BY <2>1 DEF Plain
  <2> QED BY <2>2, <1>1
<1>4. ASSUME NEW i \in 0 .. n - 1, i \in P PROVE i + 1 \in P
  <2>1. i + 1 \in 1 .. n /\ (i + 1) - 1 = i /\ i + 1 \in 0 .. n
    OBVIOUS
  <2>2. parts[i + 1] \in Seq(STRING)
    BY <2>1, <1>2
  <2>3. f[i + 1] = Step(f[i], parts[i + 1], back)
    BY <2>1, <1>1, <1>2
  <2>4. Plain(f[i + 1], back)
    BY <1>4, <2>2, <2>3, StepIsPlain
  <2> QED BY <2>1, <2>4
<1> HIDE DEF P
<1>5. n \in P
  <2>1. \A i \in 0 .. n : i \in P
    BY <1>3, <1>4, Upward
  <2> QED BY <2>1
<1> QED BY <1>1, <1>2, <1>5 DEF P

\* A walk that never goes back changes nothing.
LEMMA WalkKeeps ==
  ASSUME NEW parts, NEW back, Plain(parts, back)
  PROVE  Walk(parts, back) = parts
<1>0. parts \in Seq(Seq(STRING))
  BY DEF Plain
<1>1. PICK f : /\ f[0] = <<>> /\ Walk(parts, back) = f[Len(parts)]
               /\ \A i \in 1 .. Len(parts) : f[i] = Step(f[i - 1], parts[i], back)
  BY <1>0, WalkSteps
<1>2. PICK n \in Nat : n = Len(parts)
  BY <1>0
<1> DEFINE P == {i \in 0 .. n : /\ f[i] \in Seq(Seq(STRING)) /\ Len(f[i]) = i
                                /\ \A k \in 1 .. i : f[i][k] = parts[k]}
<1>3. 0 \in P
  <2>1. <<>> \in Seq(Seq(STRING)) /\ Len(<<>>) = 0 /\ 0 \in 0 .. n
    OBVIOUS
  <2>2. f[0] = <<>>
    BY <1>1
  <2>3. \A k \in 1 .. 0 : f[0][k] = parts[k]
    OBVIOUS
  <2> QED BY <2>1, <2>2, <2>3
<1>4. ASSUME NEW i \in 0 .. n - 1, i \in P PROVE i + 1 \in P
  <2>1. i + 1 \in 1 .. n /\ (i + 1) - 1 = i /\ i + 1 \in 0 .. n
    OBVIOUS
  <2>2. parts[i + 1] \in Seq(STRING) /\ parts[i + 1] \notin Blanks \cup back
    <3>1. i + 1 \in DOMAIN parts
      BY <2>1, <1>0, <1>2
    <3>2. parts[i + 1] \in Seq(STRING)
      BY <1>0, <3>1
    <3>3. parts[i + 1] \notin Blanks \cup back
      BY <3>1 DEF Plain
    <3> QED BY <3>2, <3>3
  <2>3. f[i + 1] = Append(f[i], parts[i + 1])
    BY <2>1, <2>2, <1>1, <1>2 DEF Step
  <2>4. f[i] \in Seq(Seq(STRING)) /\ Len(f[i]) = i /\ \A k \in 1 .. i : f[i][k] = parts[k]
    BY <1>4
  <2>5. f[i + 1] \in Seq(Seq(STRING)) /\ Len(f[i + 1]) = i + 1
    BY <2>2, <2>3, <2>4
  <2>6. \A k \in 1 .. i + 1 : f[i + 1][k] = parts[k]
    BY <2>2, <2>3, <2>4
  <2> QED BY <2>1, <2>5, <2>6
<1> HIDE DEF P
<1>5. n \in P
  <2>1. \A i \in 0 .. n : i \in P
    BY <1>3, <1>4, Upward
  <2> QED BY <2>1
<1>6. f[n] \in Seq(Seq(STRING)) /\ Len(f[n]) = n /\ \A k \in 1 .. n : f[n][k] = parts[k]
  BY <1>5 DEF P
<1>7. f[n] = parts
  <2>1. PICK u : u = f[n]
    OBVIOUS
  <2>2. u \in Seq(Seq(STRING)) /\ Len(u) = Len(parts) /\ \A k \in 1 .. Len(u) : u[k] = parts[k]
    BY <2>1, <1>2, <1>6
  <2> QED BY <2>1, <2>2, <1>0, SeqEqual
<1> QED BY <1>1, <1>2, <1>7

\* What _normalise_segments makes of a path.
LEMMA NormalisedIsPlain ==
  ASSUME NEW raw \in RawPath, NormaliseSegments(raw) # None
  PROVE  /\ Plain(NormaliseSegments(raw), {Up})
         /\ Plain(raw.parts, {Up}) => NormaliseSegments(raw) = raw.parts
<1>1. raw.parts \in Seq(Seq(STRING))
  BY DEF RawPath
<1>2. PICK kept : kept = Walk(raw.parts, {})
  OBVIOUS
<1>3. NormaliseSegments(raw) = kept /\ \A i \in DOMAIN kept : kept[i] # Up
  BY <1>2 DEF NormaliseSegments
<1>4. Plain(kept, {})
  BY <1>1, <1>2, WalkIsPlain
<1>5. Plain(kept, {Up})
  BY <1>3, <1>4 DEF Plain
<1>6. Plain(raw.parts, {Up}) => Plain(raw.parts, {})
  BY DEF Plain
<1> QED BY <1>2, <1>3, <1>5, <1>6, WalkKeeps

---------------------------------------------------------------------------
(***************************************************************************)
(* The rules that come into force.                                         *)
(***************************************************************************)
\* The rules that are in force without a file.
LEMMA DefaultIsSound == Sound(DefaultPolicy)
<1>1. /\ DefaultPolicy.unknown_domain = "DENY" /\ DefaultPolicy.unknown_tool = "DENY"
      /\ DefaultPolicy.max_processes = 32 /\ DefaultPolicy.max_runtime = 3600
      /\ DefaultPolicy.multiplier = 3 /\ DefaultPolicy.path_rule = None
  BY DEF DefaultPolicy
<1>2. None \notin DefaultPolicy.protected_env
  BY Apart
<1> QED
  BY <1>1, <1>2 DEF Sound, Decisions

\* The flags of the command line change no kind of rule into another.
LEMMA OverridesKeepSound ==
  ASSUME flags \in Flags, NEW p, Sound(p)
  PROVE  Sound(ApplyOverrides(p))
<1>1. DOMAIN p = {"allowed_paths", "forbidden_paths", "allowed_domains", "forbidden_domains",
                  "restrict_network", "unknown_domain", "allowed_tools", "forbidden_tools",
                  "unknown_tool", "max_processes", "max_runtime", "multiplier", "protected_env",
                  "allow_privilege", "allow_host", "allow_persistence", "path_rule"}
  BY DEF Sound, DefaultPolicy
<1>2. Given(flags.max_processes, p.max_processes) \in Int
  BY RulesAssumption DEF Given, Sound
<1>3. PICK q : q = ApplyOverrides(p)
  OBVIOUS
<1>4. /\ DOMAIN q = DOMAIN p
      /\ q.unknown_domain = p.unknown_domain /\ q.unknown_tool = p.unknown_tool
      /\ q.max_processes = Given(flags.max_processes, p.max_processes)
      /\ q.max_runtime = p.max_runtime /\ q.multiplier = p.multiplier
      /\ q.protected_env = p.protected_env /\ q.path_rule = p.path_rule
  BY <1>1, <1>3 DEF ApplyOverrides
<1>5. Sound(q)
  BY <1>2, <1>4 DEF Sound
<1> QED
  BY <1>3, <1>5

\* A file of the older format that is accepted.
LEMMA FromDictIsSound ==
  ASSUME NEW flaw, NEW written,
         \A f \in DOMAIN written :
           /\ f \in {"max_processes", "max_runtime", "multiplier"} => written[f] \in Int \cup Bad
           /\ f = "protected_env" => None \notin written[f],
         FromDict(flaw, written) # None
  PROVE  Sound(FromDict(flaw, written))
<1> DEFINE p == [f \in DOMAIN DefaultPolicy |->
                   IF f \in DOMAIN written THEN written[f] ELSE DefaultPolicy[f]]
<1>1. /\ FromDict(flaw, written) = p
      /\ DOMAIN written \subseteq DOMAIN DefaultPolicy \ {"path_rule"}
      /\ p.unknown_domain \in Decisions /\ p.unknown_tool \in Decisions
      /\ IntOK(p.max_processes, 0) /\ IntOK(p.max_runtime, 1) /\ IntOK(p.multiplier, 1)
  BY DEF FromDict
<1>2. DOMAIN DefaultPolicy
        = {"allowed_paths", "forbidden_paths", "allowed_domains", "forbidden_domains",
           "restrict_network", "unknown_domain", "allowed_tools", "forbidden_tools",
           "unknown_tool", "max_processes", "max_runtime", "multiplier", "protected_env",
           "allow_privilege", "allow_host", "allow_persistence", "path_rule"}
  BY DEF DefaultPolicy
<1>3. DefaultPolicy.max_processes \in Int /\ DefaultPolicy.max_runtime \in Int
      /\ DefaultPolicy.multiplier \in Int /\ DefaultPolicy.path_rule = None
      /\ None \notin DefaultPolicy.protected_env
  BY DefaultIsSound DEF Sound, DefaultPolicy
<1>4. \A f \in {"max_processes", "max_runtime", "multiplier"} : p[f] \in Int \cup Bad
  BY <1>2, <1>3
<1>5. None \notin p.protected_env /\ p.path_rule = None /\ DOMAIN p = DOMAIN DefaultPolicy
  BY <1>1, <1>2, <1>3
<1> HIDE DEF p
<1>6. p.max_processes \in Int /\ p.max_runtime \in Int /\ p.multiplier \in Int
  BY <1>1, <1>4, Apart DEF IntOK
<1> QED
  BY <1>1, <1>5, <1>6 DEF Sound

\* The ceilings of a Policy V1 document.
Seconds == Given(source.runtime, 3600)
Children == Given(source.children, 32)

\* Its patterns, in their canonical form.
Allowed == Patterns(source.allow)
Denied == Patterns(source.deny)
Wires == Compiled(source.tripwires)

\* A list that is accepted is one of compiled patterns, which lead nowhere back.
LEMMA CompiledOf ==
  ASSUME NEW values, Listed(values), Compiled(values) # None
  PROVE  /\ Compiled(values) = {CompilePattern(values[i]) : i \in DOMAIN Given(values, <<>>)}
         /\ Given(values, <<>>) # <<>> => Compiled(values) # {}
         /\ \A t \in Compiled(values) : Plain(t, {Up})
<1> DEFINE given == Given(values, <<>>)
<1>1. /\ given \notin Bad
      /\ \A i \in DOMAIN given : given[i] # WrongType /\ CompilePattern(given[i]) # None
      /\ Compiled(values) = {CompilePattern(given[i]) : i \in DOMAIN given}
  BY DEF Compiled
<1>2. given \in Seq(RawPath \cup {WrongType}) /\ (values # None => given = values)
  BY <1>1 DEF Listed, Given
<1>3. values = None => DOMAIN given = {}
  BY DEF Given
<1> HIDE DEF given
<1>4. given # <<>> => DOMAIN given # {}
  <2> SUFFICES ASSUME DOMAIN given = {} PROVE given = <<>>
    OBVIOUS
  <2>1. 1 \notin 1 .. Len(given) /\ Len(given) \in Nat
    BY <1>2
  <2>2. Len(given) = 0
    BY <2>1
  <2> QED BY <2>2, <1>2, EmptySeq
<1>5. \A i \in DOMAIN given : Plain(CompilePattern(given[i]), {Up})
  <2> TAKE i \in DOMAIN given
  <2>1. given[i] \in RawPath
    BY <1>1, <1>2
  <2>2. CompilePattern(given[i]) = NormaliseSegments(given[i]) /\ NormaliseSegments(given[i]) # None
    BY <1>1 DEF CompilePattern
  <2> QED BY <2>1, <2>2, NormalisedIsPlain
<1>6. \A i \in DOMAIN given : given[i] = values[i]
  BY <1>2, <1>3
<1>7. Compiled(values) = {CompilePattern(values[i]) : i \in DOMAIN given}
  BY <1>1, <1>6
<1>8. given # <<>> => Compiled(values) # {}
  BY <1>1, <1>4
<1>9. \A t \in Compiled(values) : Plain(t, {Up})
  BY <1>1, <1>5
<1> QED BY <1>7, <1>8, <1>9 DEF given

\* The lists that are limited in length are such lists.
LEMMA PatternsOf ==
  ASSUME NEW values, Listed(values), Patterns(values) # None
  PROVE  /\ Patterns(values) = {CompilePattern(values[i]) : i \in DOMAIN Given(values, <<>>)}
         /\ Given(values, <<>>) # <<>> => Patterns(values) # {}
         /\ \A t \in Patterns(values) : Plain(t, {Up})
<1>1. Compiled(values) # None /\ Patterns(values) = Compiled(values)
  BY DEF Patterns
<1> QED BY <1>1, CompiledOf

\* The path rule is the one of the document.
RuleInForce(p) ==
  /\ p.path_rule # None
  /\ p.path_rule.allow = Allowed /\ p.path_rule.deny = Denied

\* A Policy V1 document that is accepted puts its own paths, tripwires and
\* ceilings in force, and no network at all.
LEMMA ProjectionInForce ==
  ASSUME NEW v1, NEW p, source \in Sources, source.format = "v1",
         v1 = LoadsPolicy(source), v1 # None, Project(v1) # None, p = Project(v1).policy
  PROVE  /\ Sound(p)
         /\ v1.runtime = Seconds
         /\ None \notin {Allowed, Denied, Wires}
         /\ \A t \in Wires : ~HasWildcard(t)
         /\ Project(v1).tripwires = {Tripwire({}, {Raw(1, t)}, {}, {}) : t \in Wires}
         /\ Allowed # {} \/ Denied # {} => RuleInForce(p)
         /\ p.max_processes = Children
         /\ p.max_runtime = Seconds
         /\ p.restrict_network = TRUE /\ p.allowed_domains = {} /\ p.forbidden_domains = {}
         /\ p.unknown_domain = "DENY" /\ p.unknown_tool = "DENY"
<1>1. v1 = Normalised(source) /\ ProcessOK(source) /\ ViolationsOK(source)
  BY DEF LoadsPolicy
<1>2. /\ v1.children = Children /\ v1.runtime = Seconds
      /\ v1.violations = [c \in Classes |-> IF c \in DOMAIN Given(source.violations, <<>>)
                                            THEN Given(source.violations, <<>>)[c]
                                            ELSE DefaultViolation[c]]
  BY <1>1 DEF Normalised, Seconds, Children
<1>3. v1.children \in Int /\ v1.runtime \in Int
  BY <1>1, <1>2, RulesAssumption, Apart DEF ProcessOK, IntOK, Given, Seconds, Children
<1>4. /\ DefaultViolation["network"] = "DENY" /\ DefaultViolation["filesystem"] = "DENY"
      /\ {"filesystem", "network"} \subseteq Classes
  BY DEF DefaultViolation, Classes
<1>5. v1.violations["filesystem"] \in Refusals
  <2>1. CASE source.violations = None
    BY <2>1, <1>2, <1>4 DEF Given, Refusals, Decisions
  <2>2. CASE source.violations # None
    BY <2>2, <1>1, <1>2, <1>4 DEF Given, ViolationsOK, Refusals, Decisions
  <2> QED BY <2>1, <2>2
<1>6. v1.violations["network"] = "DENY"
  BY <1>4 DEF Project, ViolationsProject
<1>7. PICK rule : rule = IF v1.allow = {} /\ v1.deny = {} THEN None
                         ELSE [allow |-> v1.allow, deny |-> v1.deny,
                               violation |-> v1.violations["filesystem"]]
  OBVIOUS
<1>8. p = [DefaultPolicy EXCEPT !.restrict_network = TRUE,
                                !.unknown_domain = v1.violations["network"],
                                !.max_processes = v1.children,
                                !.max_runtime = v1.runtime,
                                !.path_rule = rule]
  BY <1>7 DEF Project
<1>10. /\ DOMAIN p = DOMAIN DefaultPolicy
       /\ p.restrict_network = TRUE /\ p.unknown_domain = "DENY" /\ p.unknown_tool = "DENY"
       /\ p.max_processes = v1.children /\ p.max_runtime = v1.runtime /\ p.path_rule = rule
       /\ p.allowed_domains = {} /\ p.forbidden_domains = {} /\ p.multiplier = 3
       /\ p.protected_env = DefaultPolicy.protected_env
  BY <1>6, <1>8 DEF DefaultPolicy
<1>11. rule # None => rule.violation \in Refusals
  BY <1>5, <1>7
<1>12. Sound(p)
  BY <1>3, <1>10, <1>11, Apart DEF Sound, Decisions
<1>13. v1.allow = Allowed /\ v1.deny = Denied /\ v1.tripwires = Wires
  BY <1>1 DEF Normalised, Allowed, Denied, Wires
<1>14. None \notin {Allowed, Denied, Wires}
  BY DEF LoadsPolicy, FilesystemOK, TripwiresOK, Allowed, Denied, Wires
<1>15. /\ \A t \in Wires : ~HasWildcard(t)
       /\ Project(v1).tripwires = {Tripwire({}, {Raw(1, t)}, {}, {}) : t \in Wires}
  BY <1>13 DEF Project, TripwiresProject, ProjectTripwires
<1>16. ASSUME Allowed # {} \/ Denied # {} PROVE RuleInForce(p)
  <2>1. Allowed \in SUBSET Seq(Seq(STRING)) /\ Denied \in SUBSET Seq(Seq(STRING))
    <3>1. Listed(source.allow) /\ Listed(source.deny)
      BY RulesAssumption
    <3>2. \A t \in Allowed \cup Denied : Plain(t, {Up})
      BY <3>1, <1>14, PatternsOf DEF Allowed, Denied
    <3> QED BY <3>2 DEF Plain
  <2>2. PICK violation \in Decisions : violation = v1.violations["filesystem"]
    BY <1>5 DEF Refusals
  <2>3. rule = [allow |-> Allowed, deny |-> Denied, violation |-> violation]
    BY <1>7, <1>13, <1>16, <2>2
  <2>4. rule \in [allow : SUBSET Seq(Seq(STRING)), deny : SUBSET Seq(Seq(STRING)), violation : Decisions]
    BY <2>1, <2>2, <2>3
  <2>5. rule # None
    BY <2>4, RulesAssumption DEF NoneIsApart
  <2> QED BY <2>3, <2>5, <1>10 DEF RuleInForce
<1> QED
  BY <1>2, <1>10, <1>12, <1>14, <1>15, <1>16

---------------------------------------------------------------------------
(***************************************************************************)
(* The inductive invariant.                                                *)
(***************************************************************************)
\* What an accepted Policy V1 document put in force.
InForce ==
  /\ None \notin {Allowed, Denied, Wires}
  /\ \A t \in Wires : ~HasWildcard(t)
  /\ tripwires = {Tripwire({}, {Raw(1, t)}, {}, {}) : t \in Wires}
  /\ Allowed # {} \/ Denied # {} => RuleInForce(policy)
  /\ policy.max_processes = Children
  /\ policy.max_runtime = Seconds
  /\ policy.restrict_network = TRUE
  /\ policy.allowed_domains = {} /\ policy.forbidden_domains = {}
  /\ policy.unknown_domain = "DENY" /\ policy.unknown_tool = "DENY"
  /\ timeout \in Int /\ timeout <= policy.max_runtime

\* Who gave the rules, what they are worth once loaded, and that what was
\* decided was decided by them.
LaunchInv ==
  /\ pc \in {"match", "launch", "refused", "ready", "decided"}
  /\ pc # "match" => source \in Sources /\ flags \in Flags
  /\ pc \in {"match", "launch", "refused"} => tripwires = {}
LoadedInv ==
  pc \in {"ready", "decided"} => Sound(policy) /\ (LooksLikePolicyV1 => InForce)
AskedInv ==
  IF pc = "decided"
    THEN /\ ask.a \in Asks /\ ask.claims \in Claims
         /\ verdict = Decide(policy, tripwires, Sanitize(ask.a, ask.claims))
         /\ bare = Decide(policy, tripwires, Sanitize(ask.a, NoClaims))
    ELSE verdict = None
Inv == MatchInv /\ LaunchInv /\ LoadedInv /\ AskedInv

\* Rules that are loaded stay.
LEMMA RulesStay ==
  ASSUME pc \in {"ready", "decided"} <=> pc' \in {"ready", "decided"},
         UNCHANGED <<source, flags, policy, tripwires, timeout>>, LoadedInv
  PROVE  LoadedInv'
<1>1. /\ source' = source /\ flags' = flags
      /\ policy' = policy /\ tripwires' = tripwires /\ timeout' = timeout
  OBVIOUS
<1>2. /\ Allowed' = Allowed /\ Denied' = Denied /\ Wires' = Wires
      /\ Seconds' = Seconds /\ Children' = Children
  BY <1>1 DEF Allowed, Denied, Wires, Seconds, Children
<1>3. InForce' <=> InForce
  BY <1>1, <1>2 DEF InForce, RuleInForce
<1>4. LooksLikePolicyV1' <=> LooksLikePolicyV1
  BY <1>1 DEF LooksLikePolicyV1
<1> QED BY <1>1, <1>3, <1>4 DEF LoadedInv

\* It holds before anything is launched,
LEMMA InitInv ==
  ASSUME Init
  PROVE  Inv
<1>1. MatchInv
  <2>1. <<>> \in Seq(Seq(STRING))
    OBVIOUS
  <2>2. PICK p \in Seq(Seq(STRING)), t \in Seq(Seq(STRING)) : MatchInit(p, t)
    <3>1. CASE \E m \in Matches : MatchInit(m[1], m[2])
      BY <3>1, RulesAssumption
    <3>2. CASE MatchInit(<<>>, <<>>)
      BY <3>2, <2>1
    <3> QED BY <3>1, <3>2 DEF Init
  <2> QED BY <2>2, MatchInvStart
<1>2. LaunchInv /\ LoadedInv /\ AskedInv
  BY DEF Init, LaunchInv, LoadedInv, AskedInv
<1> QED BY <1>1, <1>2 DEF Inv

\* The stricter of two ceilings.
LEMMA Stricter ==
  ASSUME NEW m \in Int, NEW n \in Int
  PROVE  Min({m, n}) \in Int /\ Min({m, n}) <= n
<1>1. \E x \in {m, n} : \A y \in {m, n} : x =< y
  <2>1. m <= n \/ n <= m
    OBVIOUS
  <2> QED BY <2>1
<1>2. Min({m, n}) \in {m, n} /\ \A y \in {m, n} : Min({m, n}) =< y
  BY <1>1 DEF Min
<1> QED BY <1>2

\* after a launch, whatever file and flags it is given,
LEMMA LaunchStep ==
  ASSUME Inv, Launch
  PROVE  Inv'
<1>1. source \in Sources /\ flags \in Flags /\ pc = "launch"
  BY DEF Inv, LaunchInv, Launch
<1>2. UNCHANGED <<source, flags, ask, verdict, bare>> /\ UNCHANGED matchVars
  BY DEF Launch, askVars
<1>3. MatchInv'
  BY <1>2, MatchStep DEF Inv
<1>4. AskedInv' /\ verdict' = None
  <2>1. verdict = None
    BY <1>1 DEF Inv, AskedInv
  <2>2. pc' # "decided"
    BY DEF Launch, LoadDefault, LoadV3, LoadV1, Run, Refuse
  <2> QED BY <2>1, <2>2, <1>2 DEF AskedInv
<1>5. LooksLikePolicyV1' = LooksLikePolicyV1
  BY <1>2 DEF LooksLikePolicyV1
<1>6. CASE pc' = "refused" /\ UNCHANGED <<policy, tripwires, timeout>>
  <2>1. tripwires = {}
    BY <1>1 DEF Inv, LaunchInv
  <2>2. LaunchInv' /\ LoadedInv'
    BY <2>1, <1>1, <1>2, <1>6 DEF LaunchInv, LoadedInv
  <2> QED BY <2>2, <1>3, <1>4 DEF Inv
<1>7. ASSUME pc' = "ready", Sound(policy'), LooksLikePolicyV1 => InForce'
      PROVE  Inv'
  <2>1. LaunchInv' /\ LoadedInv'
    BY <1>1, <1>2, <1>5, <1>7 DEF LaunchInv, LoadedInv
  <2> QED BY <2>1, <1>3, <1>4 DEF Inv
<1>8. CASE LoadDefault
  <2>1. pc' = "ready" /\ policy' = ApplyOverrides(DefaultPolicy) /\ ~LooksLikePolicyV1
    BY <1>8 DEF LoadDefault, Run, LooksLikePolicyV1
  <2>2. Sound(policy')
    BY <2>1, <1>1, DefaultIsSound, OverridesKeepSound
  <2> QED BY <2>1, <2>2, <1>7
<1>9. CASE LoadV3
  <2>1. PICK written : written = IF source.format = "v0" THEN source.written
                                 ELSE IF Sectioned THEN [sections |-> TRUE] ELSE <<>>
    OBVIOUS
  <2>2. PICK read : read = FromDict(source.text, written)
    OBVIOUS
  <2>3. /\ ~LooksLikePolicyV1
        /\ IF read = None THEN Refuse
           ELSE Run(ApplyOverrides(read), DefaultTripwires(ApplyOverrides(read)), flags.timeout)
    BY <1>9, <2>1, <2>2 DEF LoadV3
  <2>4. CASE read = None
    BY <2>3, <2>4, <1>6 DEF Refuse
  <2>5. CASE read # None
    <3>1. \A f \in DOMAIN written :
             /\ f \in {"max_processes", "max_runtime", "multiplier"} => written[f] \in Int \cup Bad
             /\ f = "protected_env" => None \notin written[f]
      <4>1. CASE source.format = "v0"
        BY <4>1, <1>1, <2>1, RulesAssumption
      <4>2. CASE source.format # "v0"
        BY <4>2, <2>1
      <4> QED BY <4>1, <4>2
    <3>2. Sound(read)
      BY <3>1, <2>2, <2>5, FromDictIsSound
    <3>3. pc' = "ready" /\ policy' = ApplyOverrides(read)
      BY <2>3, <2>5 DEF Run
    <3>4. Sound(policy')
      BY <3>2, <3>3, <1>1, OverridesKeepSound
    <3> QED BY <3>3, <3>4, <2>3, <1>7
  <2> QED BY <2>4, <2>5
<1>10. CASE LoadV1
  <2>1. PICK v1 : v1 = LoadsPolicy(source)
    OBVIOUS
  <2>2. PICK projection : projection = Project(v1)
    OBVIOUS
  <2>3. /\ source.format = "v1"
        /\ IF Conflicting \/ v1 = None THEN Refuse
           ELSE IF projection = None THEN Refuse
           ELSE Run(projection.policy, projection.tripwires,
                    IF flags.timeout = None THEN v1.runtime ELSE Min({flags.timeout, v1.runtime}))
    BY <1>10, <2>1, <2>2 DEF LoadV1, LooksLikePolicyV1
  <2>4. CASE Conflicting \/ v1 = None \/ projection = None
    BY <2>3, <2>4, <1>6 DEF Refuse
  <2>5. CASE ~(Conflicting \/ v1 = None \/ projection = None)
    <3>1. /\ pc' = "ready" /\ policy' = projection.policy /\ tripwires' = projection.tripwires
          /\ timeout' = IF flags.timeout = None THEN v1.runtime
                        ELSE Min({flags.timeout, v1.runtime})
      BY <2>3, <2>5 DEF Run
    <3>2. PICK p : p = Project(v1).policy
      OBVIOUS
    <3>9. source \in Sources /\ source.format = "v1" /\ v1 # None /\ Project(v1) # None
      BY <1>1, <2>2, <2>3, <2>5
    <3>3. /\ Sound(p)
          /\ v1.runtime = Seconds
          /\ None \notin {Allowed, Denied, Wires}
          /\ \A t \in Wires : ~HasWildcard(t)
          /\ Project(v1).tripwires = {Tripwire({}, {Raw(1, t)}, {}, {}) : t \in Wires}
          /\ Allowed # {} \/ Denied # {} => RuleInForce(p)
          /\ p.max_processes = Children
          /\ p.max_runtime = Seconds
          /\ p.restrict_network = TRUE /\ p.allowed_domains = {} /\ p.forbidden_domains = {}
          /\ p.unknown_domain = "DENY" /\ p.unknown_tool = "DENY"
      BY <3>2, <3>9, <2>1, ProjectionInForce
    <3>4. v1.runtime \in Int /\ flags.timeout \in Int \cup {None}
      <4>1. v1.runtime \in Int
        BY <3>3 DEF Sound
      <4>2. {flags.max_processes, flags.timeout} \subseteq Int \cup {None}
        BY <1>1, RulesAssumption
      <4> QED BY <4>1, <4>2
    <3>5. timeout' \in Int /\ timeout' <= v1.runtime
      <4>1. CASE flags.timeout = None
        BY <4>1, <3>1, <3>4
      <4>2. CASE flags.timeout # None
        BY <4>2, <3>1, <3>4, Stricter
      <4> QED BY <4>1, <4>2
    <3>6. InForce'
      <4>1. Allowed' = Allowed /\ Denied' = Denied /\ Wires' = Wires /\ Seconds' = Seconds /\ Children' = Children
        BY <1>2 DEF Allowed, Denied, Wires, Seconds, Children
      <4>2. policy' = p /\ tripwires' = Project(v1).tripwires
        BY <3>1, <3>2, <2>2
      <4>3. RuleInForce(policy)' <=> RuleInForce(p)
        BY <4>1, <4>2 DEF RuleInForce
      <4> QED BY <4>1, <4>2, <4>3, <3>3, <3>5 DEF InForce
    <3> QED BY <3>1, <3>2, <3>3, <3>6, <2>2, <1>7
  <2> QED BY <2>4, <2>5
<1> QED
  BY <1>8, <1>9, <1>10 DEF Launch

\* after a request,
LEMMA AskStep ==
  ASSUME Inv, pc = "ready", NEW a \in Asks, NEW claims \in Claims, Ask(a, claims)
  PROVE  Inv'
<1>1. /\ pc = "ready" /\ pc' = "decided" /\ ask' = [a |-> a, claims |-> claims]
      /\ UNCHANGED <<source, flags, policy, tripwires, timeout>> /\ UNCHANGED matchVars
  BY DEF Ask, launchVars
<1>2. MatchInv'
  BY <1>1, MatchStep DEF Inv
<1>3. LaunchInv' /\ LoadedInv'
  BY <1>1, RulesStay DEF Inv, LaunchInv
<1>4. ask'.a = a /\ ask'.claims = claims
  BY <1>1
<1>5. AskedInv'
  BY <1>1, <1>4 DEF AskedInv, Ask
<1> QED BY <1>2, <1>3, <1>5 DEF Inv

\* and after a step of the matcher.
LEMMA MatcherStep ==
  ASSUME Inv, Match \/ UNCHANGED vars
  PROVE  Inv'
<1>1. [MatchNext]_matchVars /\ UNCHANGED <<pc, launchVars, askVars>>
  BY DEF Match, vars
<1>2. MatchInv'
  BY <1>1, MatchStep DEF Inv
<1>3. LaunchInv' /\ AskedInv'
  BY <1>1 DEF Inv, LaunchInv, AskedInv, launchVars, askVars
<1>4. LoadedInv'
  BY <1>1, RulesStay DEF Inv, launchVars
<1> QED BY <1>2, <1>3, <1>4 DEF Inv

\* The rules in force are sound, those of an accepted Policy V1 document are
\* its own, and what was decided was decided by them.
THEOREM Safety == Spec => []Inv
<1>1. Init => Inv
  BY InitInv
<1>2. Inv /\ [Next]_vars => Inv'
  BY LaunchStep, AskStep, MatcherStep DEF Next, AskAnything
<1> QED BY <1>1, <1>2, PTL DEF Spec

---------------------------------------------------------------------------
(***************************************************************************)
(* What follows.                                                           *)
(***************************************************************************)
\* What the tripwires add to the policy.
LEMMA DecideIs ==
  ASSUME NEW p, Sound(p), NEW t, NEW r
  PROVE  /\ Decide(p, t, r) \in Decisions
         /\ Blocked(Evaluate(p, r)) => Blocked(Decide(p, t, r))
BY EvaluateDecides DEF Decide, Decisions, Blocked

\* The loop of _segments_match stays within the bound of its docstring, for
\* every pair of a pattern and a path that the matcher is given.
THEOREM StepsTheorem == Spec => []StepsBounded
<1>1. Inv => StepsBounded
  BY MatchInvBounds DEF Inv
<1> QED BY <1>1, Safety, PTL

\* What the matcher answers is what the pattern means, for every pattern and
\* every path it is given.
THEOREM ExactTheorem == Spec => []MatchIsExact
<1>1. Init => ExactInv
  <2> SUFFICES ASSUME Init PROVE ExactInv
    OBVIOUS
  <2>1. PICK p, t : MatchInit(p, t)
    BY DEF Init
  <2> QED BY <2>1, ExactStart
<1>2. Inv /\ ExactInv /\ [Next]_vars => ExactInv'
  <2> SUFFICES ASSUME Inv, ExactInv, [Next]_vars PROVE ExactInv'
    OBVIOUS
  <2>1. MatchInv
    BY DEF Inv
  <2>2. [MatchNext]_matchVars
    BY DEF Next, Match, Launch, AskAnything, Ask, vars
  <2> QED BY <2>1, <2>2, ExactStep
<1>3. ExactInv => MatchIsExact
  BY DEF ExactInv
<1> QED BY <1>1, <1>2, <1>3, Safety, PTL DEF Spec

\* Every variable of a launch and of a request holds what its type says: a
\* set of rules that was loaded always reaches one of the four decisions.
THEOREM TypeCorrect == Spec => []TypeOK
<1>1. Inv => TypeOK
  <2> SUFFICES ASSUME Inv PROVE TypeOK
    OBVIOUS
  <2>1. MatchTypeOK
    BY DEF Inv, MatchInv
  <2>2. pc \in {"match", "launch", "refused", "ready", "decided"} /\ (tripwires # {} => pc \in {"ready", "decided"})
    BY DEF Inv, LaunchInv
  <2>3. CASE pc = "decided"
    <3>1. Sound(policy)
      BY <2>3 DEF Inv, LoadedInv
    <3>2. verdict \in Decisions /\ bare \in Decisions
      BY <2>3, <3>1, DecideIs DEF Inv, AskedInv
    <3> QED BY <2>1, <2>2, <2>3, <3>2, Apart DEF TypeOK
  <2>4. CASE pc # "decided"
    BY <2>1, <2>2, <2>4 DEF Inv, AskedInv, TypeOK
  <2> QED BY <2>3, <2>4
<1> QED BY <1>1, Safety, PTL

\* A claim that displaces nothing only adds restriction: whatever rules are in
\* force, if no check of the request can answer ALLOW, what is refused with
\* nothing claimed, by a tripwire or by a check, is refused with the claim.
THEOREM ClaimsTheorem == Spec => []ClaimsNeverUnblock
<1>1. Inv => ClaimsNeverUnblock
  <2> SUFFICES ASSUME Inv, pc = "decided", ~Displaced, ChecksGoOn, Blocked(bare)
               PROVE  Blocked(verdict)
    BY DEF ClaimsNeverUnblock
  <2> DEFINE r0 == Sanitize(ask.a, NoClaims)  r == Sanitize(ask.a, ask.claims)
  <2>1. Closed(policy, ask.a.kind) /\ Sound(policy)
    BY DEF Inv, LoadedInv, Closed, ChecksGoOn
  <2>2. Askable(ask.a) /\ Claimable(ask.claims) /\ Claimable(NoClaims) /\ Kept(ask.a, ask.claims)
    BY InputsAreTyped DEF Inv, AskedInv, Kept, Displaced, PathStands
  <2>3. verdict = Decide(policy, tripwires, r) /\ bare = Decide(policy, tripwires, r0)
    BY DEF Inv, AskedInv
  <2>4. r.kind = ask.a.kind /\ r0.kind = ask.a.kind
    BY <2>2, SanitizedFields DEF Claimable
  <2>5. CASE \E t \in tripwires : Touches(t, r0)
    <3>1. PICK t \in tripwires : Touches(t, r0)
      BY <2>5
    <3>2. /\ ask.a.kind = "env_access" => ask.claims.env \in Nothing
          /\ \/ ask.claims.path \in Nothing \/ ask.a.resource = Empty
             \/ ~AnyPathMatches(NormalisePath(ask.a.resource), t.paths)
      BY <3>1 DEF Displaced
    <3>3. Touches(t, r)
      BY <3>1, <3>2, <2>2, NoTripwireIsUndone
    <3> HIDE DEF r
    <3> QED BY <3>1, <3>3, <2>3 DEF Decide, Blocked
  <2>6. CASE ~\E t \in tripwires : Touches(t, r0)
    <3>1. Blocked(Evaluate(policy, r0))
      BY <2>3, <2>6 DEF Decide
    <3>2. PICK i \in 1 .. 11 : Checks(policy, r0)[i] # None
      BY <3>1, <2>1, <2>4, RefusedByACheck
    <3>3. Checks(policy, r)[i] # None
      BY <3>2, <2>1, <2>2, NoCheckIsUndone
    <3> HIDE DEF r
    <3>4. Blocked(Evaluate(policy, r))
      BY <3>3, <2>1, <2>4, RefusedByACheck
    <3> QED BY <3>4, <2>1, <2>3, DecideIs
  <2> QED BY <2>5, <2>6
<1> QED BY <1>1, Safety, PTL

\* What a measurement above its limit does to the verdict.
LEMMA MeasuredIsRefused ==
  ASSUME Inv, pc = "decided", Closed(policy, ask.a.kind),
         \/ ask.a.kind = "process_creation" /\ ask.a.tree # None /\ ask.a.tree > policy.max_processes
         \/ ask.a.elapsed # None /\ ask.a.elapsed > policy.max_runtime
  PROVE  Blocked(verdict)
<1> DEFINE r == Sanitize(ask.a, ask.claims)
<1>1. Askable(ask.a) /\ Claimable(ask.claims) /\ Sound(policy)
  BY InputsAreTyped DEF Inv, AskedInv, Closed
<1>0. r.kind = ask.a.kind
  BY <1>1, SanitizedFields DEF Claimable
<1>2. CheckProcesses(policy, r) # None \/ CheckRuntime(policy, r) # None
  BY <1>1, ProcessesMeasured, RuntimeMeasured
<1>3. Checks(policy, r)[10] = CheckProcesses(policy, r) /\ Checks(policy, r)[11] = CheckRuntime(policy, r)
  BY DEF Checks
<1>4. Blocked(Evaluate(policy, r))
  <2>1. \E i \in 1 .. 11 : Checks(policy, r)[i] # None
    BY <1>2, <1>3
  <2> QED BY <2>1, <1>0, RefusedByACheck
<1>5. verdict = Decide(policy, tripwires, r)
  BY DEF Inv, AskedInv
<1> QED
  BY <1>1, <1>4, <1>5, DecideIs

\* What the supervisor measured above a limit is refused, whatever the client
\* wrote under the names of the facts, where no check can answer ALLOW.
THEOREM ObservedTheorem == Spec => []ObservedDecides
<1>1. Inv => ObservedDecides
  <2>1. Inv /\ pc = "decided" /\ ChecksGoOn => Closed(policy, ask.a.kind)
    BY DEF Inv, LoadedInv, Closed, ChecksGoOn
  <2> QED BY <2>1, MeasuredIsRefused DEF ObservedDecides
<1> QED BY <1>1, Safety, PTL

---------------------------------------------------------------------------
(***************************************************************************)
(* An accepted document is enforced.                                       *)
(***************************************************************************)
\* The rules of an accepted document let nothing unknown through.
LEMMA DocumentIsClosed ==
  ASSUME Inv, pc = "decided", LooksLikePolicyV1
  PROVE  InForce /\ Sound(policy) /\ \A kind : Closed(policy, kind)
BY DEF Inv, LoadedInv, InForce, Closed

\* Its ceilings on processes and runtime hold for what was measured.
LEMMA CeilingsHold ==
  ASSUME Inv, pc = "decided", LooksLikePolicyV1
  PROVE  CeilingsEnforced
<1>1. /\ Closed(policy, ask.a.kind) /\ policy.max_processes = Children /\ policy.max_runtime = Seconds
      /\ timeout \in Int /\ timeout <= policy.max_runtime
  BY DocumentIsClosed DEF InForce
<1>2. ask.a.kind = "process_creation" /\ ask.a.tree # None /\ ask.a.tree > Children
        => Blocked(verdict)
  BY <1>1, MeasuredIsRefused
<1>3. ask.a.elapsed # None /\ ask.a.elapsed > Seconds => Blocked(verdict)
  BY <1>1, MeasuredIsRefused
<1>4. timeout # None /\ timeout <= Seconds
  BY <1>1, Apart
<1> QED
  BY <1>2, <1>3, <1>4 DEF CeilingsEnforced, Children, Seconds

\* A document that is accepted asks for no network, and there is none.
LEMMA NetworkIsShut ==
  ASSUME Inv, pc = "decided", LooksLikePolicyV1
  PROVE  NetworkEnforced
<1> SUFFICES ASSUME ask.a.kind = "network_request", ask.a.resource # Empty
             PROVE  Blocked(verdict)
  BY DEF NetworkEnforced
<1> DEFINE r == Sanitize(ask.a, ask.claims)
           S == CandidateValues(r.meta, r.resource, "domain")
           V == {NetworkVerdict(policy, v) : v \in S}
<1>1. InForce /\ Sound(policy) /\ Closed(policy, "network_request") /\ "DENY" # None
  BY DocumentIsClosed, Apart DEF Decisions
<1>2. Askable(ask.a) /\ Claimable(ask.claims) /\ verdict = Decide(policy, tripwires, r)
  BY InputsAreTyped DEF Inv, AskedInv
<1>3. r.kind = "network_request" /\ r.resource = ask.a.resource /\ r.resource \notin Nothing
  BY <1>2, SanitizedFields, Apart DEF Claimable, Askable, Nothing
<1>4. PICK v : v \in S
  <2>1. \E v : v \in S
    BY <1>3, Zenon DEF CandidateValues
  <2> QED BY <2>1
<1>5. NetworkVerdict(policy, v) = "DENY"
  <2>1. NetworkIsRestricted(policy)
    BY <1>1, Apart DEF InForce, NetworkIsRestricted
  <2> QED BY <2>1, <1>1 DEF NetworkVerdict, If, InForce, DomainMatchesAny
<1>6. V \in SUBSET (Decisions \cup {None}) /\ NetworkVerdict(policy, v) \in V
  BY <1>1, <1>4, NetworkVerdicts DEF Sound, Verdicts, Refusals
<1>7. CheckNetwork(policy, r) = Worst(V)
  BY <1>3 DEF CheckNetwork
<1> HIDE DEF S, V
<1>8. CheckNetwork(policy, r) # None
  BY <1>1, <1>5, <1>6, <1>7, WorstOf
<1>9. Checks(policy, r)[8] # None
  BY <1>8 DEF Checks
<1> HIDE DEF r
<1>10. Blocked(Evaluate(policy, r))
  BY <1>1, <1>3, <1>9, RefusedByACheck
<1> QED
  BY <1>1, <1>2, <1>10, DecideIs DEF r

\* What a path in a request stands for.
LEMMA SubjectIsPlain ==
  ASSUME ask.a.resource \in RawPath
  PROVE  /\ Plain(Subject, {Up})
         /\ \A v : v = ask.a.resource /\ v # Empty
                     => NormalisePath(v) = [slashes |-> IF v.lead = 2 THEN 2 ELSE 1, segments |-> Subject]
<1>1. PICK parts \in Seq(Seq(STRING)) :
        parts = IF ask.a.resource.lead = 0 THEN Base \o ask.a.resource.parts ELSE ask.a.resource.parts
  <2>1. PICK given \in Seq(Seq(STRING)) : given = ask.a.resource.parts
    BY DEF RawPath
  <2>2. Base \in Seq(Seq(STRING))
    BY RulesAssumption
  <2>3. Base \o given \in Seq(Seq(STRING))
    BY <2>2, ConcatProperties
  <2> QED BY <2>1, <2>3
<1>2. Subject = Resolve(parts)
  BY <1>1 DEF Subject
<1>3. Plain(Subject, {Up})
  BY <1>2, WalkIsPlain DEF Resolve
<1>4. \A v : v = ask.a.resource /\ v # Empty
               => NormalisePath(v) = [slashes |-> IF v.lead = 2 THEN 2 ELSE 1, segments |-> Subject]
  BY <1>1, <1>2, Apart DEF NormalisePath, Nothing
<1> QED BY <1>3, <1>4

\* What a list declares is what its patterns mean.
LEMMA DeclaredPatterns ==
  ASSUME NEW values, Listed(values), Patterns(values) # None, NEW subject
  PROVE  Declares(values, subject) <=> \E t \in Patterns(values) : PathMeans(t, subject)
BY PatternsOf DEF Declares

\* A path it denies, or leaves out of its allow-list, is refused.
LEMMA PathsHold ==
  ASSUME Inv, pc = "decided", LooksLikePolicyV1
  PROVE  PathsEnforced
<1> SUFFICES ASSUME ask.a.kind \in FileEvents, ask.a.resource # Empty, PathStands,
                    NormaliseSegments(Raw(1, Subject)) # None,
                    \/ Declares(source.deny, Subject)
                    \/ Given(source.allow, <<>>) # <<>> /\ ~Declares(source.allow, Subject)
             PROVE  Blocked(verdict)
  BY DEF PathsEnforced
<1> DEFINE r == Sanitize(ask.a, ask.claims)
           S == CandidateValues(r.meta, r.resource, "path")
           V == {PathVerdict(policy, v) : v \in S}
<1>1. InForce /\ Sound(policy) /\ \A kind : Closed(policy, kind)
  BY DocumentIsClosed
<1>2. /\ Askable(ask.a) /\ Claimable(ask.claims) /\ verdict = Decide(policy, tripwires, r)
      /\ Listed(source.allow) /\ Listed(source.deny)
  BY InputsAreTyped, RulesAssumption DEF Inv, AskedInv, LaunchInv, LooksLikePolicyV1
<1>3. /\ r.kind \in FileEvents /\ r.kind = ask.a.kind /\ r.resource = ask.a.resource
      /\ r.meta.path = ask.claims.path
  BY <1>2, SanitizedFields DEF Claimable
<1>4. ask.a.resource \in RawPath /\ ask.a.resource \notin Nothing
  BY <1>2, Apart DEF Askable, Nothing
<1>5. Plain(Subject, {Up}) /\ NormalisePath(ask.a.resource).segments = Subject
  BY <1>4, SubjectIsPlain DEF Nothing
<1>6. NormaliseSegments(Raw(1, Subject)) = Subject
  <2>1. Raw(1, Subject) \in RawPath /\ Raw(1, Subject).parts = Subject
    BY <1>5 DEF Raw, RawPath, Plain
  <2> QED BY <2>1, <1>5, NormalisedIsPlain
<1>7. Allowed # None /\ Denied # None
  BY <1>1 DEF InForce
<1>8. \/ \E q \in Denied : PathMeans(q, Subject)
      \/ Allowed # {} /\ ~\E q \in Allowed : PathMeans(q, Subject)
  <2>1. Declares(source.deny, Subject) => \E q \in Denied : PathMeans(q, Subject)
    BY <1>2, <1>7, DeclaredPatterns DEF Denied
  <2>2. ~Declares(source.allow, Subject) => ~\E q \in Allowed : PathMeans(q, Subject)
    BY <1>2, <1>7, DeclaredPatterns DEF Allowed
  <2>3. Given(source.allow, <<>>) # <<>> => Allowed # {}
    BY <1>2, <1>7, PatternsOf DEF Allowed
  <2> QED BY <2>1, <2>2, <2>3
<1>9. RuleInForce(policy)
  BY <1>1, <1>8 DEF InForce
<1>10. PathVerdict(policy, ask.a.resource) # None
  <2>1. policy.path_rule.violation # None
    BY <1>1, <1>9, Apart DEF Sound, Refusals, RuleInForce
  <2>2. PathVerdict(policy, ask.a.resource) = PathRule(policy.path_rule, ask.a.resource)
    BY <1>9 DEF PathVerdict, RuleInForce
  <2> QED BY <2>1, <2>2, <1>5, <1>6, <1>8, <1>9 DEF PathRule, If, RuleInForce
<1>11. CheckPaths(policy, r) = Worst(V)
  BY <1>3 DEF CheckPaths
<1>12. V \in SUBSET (Decisions \cup {None}) /\ PathVerdict(policy, ask.a.resource) \in V
  <2>1. ask.a.resource \in S
    <3>1. r.meta["path"] \in Nothing \/ LooksLikePath(r.resource)
      BY <1>3 DEF PathStands
    <3> QED BY <3>1, <1>3, <1>4, RecordedIsACandidate
  <2> QED BY <2>1, <1>1, PathVerdicts DEF Verdicts, Refusals
<1> HIDE DEF S, V
<1>13. Checks(policy, r)[7] # None
  <2>1. CheckPaths(policy, r) # None
    BY <1>10, <1>11, <1>12, WorstOf
  <2> QED BY <2>1 DEF Checks
<1> HIDE DEF r
<1>14. Blocked(Evaluate(policy, r))
  BY <1>1, <1>13, RefusedByACheck
<1> QED
  BY <1>1, <1>2, <1>14, DecideIs

\* Touching one of its tripwires kills.
LEMMA TripwiresHold ==
  ASSUME Inv, pc = "decided", LooksLikePolicyV1
  PROVE  TripwiresEnforced
<1> SUFFICES ASSUME ask.a.resource # Empty, ask.a.resource.lead # 2, ask.claims.path \in Nothing,
                    NEW i \in DOMAIN Given(source.tripwires, <<>>),
                    NEW rule, rule = CompilePattern(source.tripwires[i]),
                    rule # <<>>, PathMeans(rule, Subject)
             PROVE  verdict = "KILL"
  BY DEF TripwiresEnforced, Tripped
<1> DEFINE r == Sanitize(ask.a, ask.claims)
           t == Tripwire({}, {Raw(1, rule)}, {}, {})
<1>1. InForce
  BY DocumentIsClosed
<1>2. /\ Askable(ask.a) /\ Claimable(ask.claims) /\ verdict = Decide(policy, tripwires, r)
      /\ Listed(source.tripwires)
  BY InputsAreTyped, RulesAssumption DEF Inv, AskedInv, LaunchInv, LooksLikePolicyV1
<1>3. r.meta.path \in Nothing /\ r.resource = ask.a.resource
  BY <1>2, SanitizedFields DEF Claimable
<1>4. rule \in Wires /\ Plain(rule, {Up}) /\ ~HasWildcard(rule)
  <2>1. Wires # None
    BY <1>1 DEF InForce
  <2>2. rule \in Wires /\ Plain(rule, {Up})
    BY <2>1, <1>2, CompiledOf DEF Wires
  <2> QED BY <2>2, <1>1 DEF InForce
<1>5. t \in tripwires
  BY <1>1, <1>4 DEF InForce
<1>6. t.kinds = {} /\ t.paths = {Raw(1, rule)}
  BY DEF Tripwire
<1>7. PICK path : path = [slashes |-> 1, segments |-> Subject]
  OBVIOUS
<1>8. Plain(Subject, {Up}) /\ NormalisePath(ask.a.resource) = path
  BY <1>2, <1>7, SubjectIsPlain DEF Askable
<1>9. path # None
  <2>1. path \in [slashes : Nat, segments : Seq(Seq(STRING))]
    BY <1>7, <1>8 DEF Plain
  <2> QED BY <2>1, RulesAssumption DEF NoneIsApart
<1>10. NormalisePath(Raw(1, rule)) = [slashes |-> 1, segments |-> rule]
  <2>1. Raw(1, rule) \in RawPath /\ Raw(1, rule).lead = 1 /\ Raw(1, rule).parts = rule /\ Empty.lead = 0
    BY <1>4 DEF Raw, RawPath, Plain, Empty
  <2>2. Raw(1, rule) \notin Nothing
    BY <2>1, Apart DEF Nothing
  <2>3. Resolve(rule) = rule
    BY <1>4, WalkKeeps DEF Resolve
  <2> QED BY <2>1, <2>2, <2>3 DEF NormalisePath
<1>11. IsPrefix(rule, Subject)
  BY <1>4, <1>8, LiteralPath DEF Plain
<1>12. AnyPathMatches(path, t.paths)
  <2>1. PICK wire : wire = NormalisePath(Raw(1, rule))
    OBVIOUS
  <2>2. wire.slashes = 1 /\ wire.segments = rule /\ path.slashes = 1 /\ path.segments = Subject
    BY <2>1, <1>7, <1>10
  <2>3. PathIsWithin(path, wire)
    BY <2>2, <1>11 DEF PathIsWithin
  <2> HIDE DEF t
  <2> QED BY <2>1, <2>3, <1>6 DEF AnyPathMatches
<1> HIDE DEF r, t
<1>13. Touches(t, r)
  BY <1>3, <1>6, <1>8, <1>9, <1>12 DEF Touches, Said
<1> QED
  BY <1>2, <1>5, <1>13 DEF Decide

\* What an accepted Policy V1 document declares is what decides, for every
\* document and every request: no claim lifts its ceilings or its ban on the
\* network; its tripwires and its paths hold for the recorded resource, unless
\* a path is claimed (for the paths, beside a resource that does not look like
\* a path).
THEOREM DocumentTheorem == Spec => []DeclaredIsEnforced
<1>1. Inv => DeclaredIsEnforced
  BY PathsHold, NetworkIsShut, TripwiresHold, CeilingsHold DEF DeclaredIsEnforced
<1> QED BY <1>1, Safety, PTL
=============================================================================
