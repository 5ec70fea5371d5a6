---------------------------- MODULE PolicyEngine ----------------------------
(***************************************************************************)
(* What is decided about one request: watcher/matching.py, authority.py,   *)
(* tripwire.py and policy.py (Policy.evaluate), and how the daemon builds  *)
(* the facts the rules read (_sanitize_client_payload).                    *)
(*                                                                         *)
(* A resource, a claimed path, host, tool or variable is a string, written *)
(* as a raw path: "/a/b" is Raw(1, <<a, b>>), "./a" is Raw(0, <<., a>>),   *)
(* a host is the characters of its one part, dots included.  A URL stands  *)
(* as its host.  Letter case, white space around a value and the expansion *)
(* of "~" and "$VAR" are left out.  The regular expressions that search a  *)
(* command are left out too: a request carries the signs they found.       *)
(***************************************************************************)
EXTENDS PolicyDocument

Empty == Raw(0, <<>>)
Nothing == {None, Empty}

\* What is claimed, or the other value when that is missing or empty.
Said(claimed, other) == IF claimed \in Nothing THEN other ELSE claimed

(***************************************************************************)
(* matching.py.                                                            *)
(***************************************************************************)
\* os.path.normpath of an absolute path: ".." leads back.
Resolve(parts) == Walk(parts, {Up})

\* normalise_path.  normpath keeps exactly two leading slashes, and makes one
\* of any other number.
NormalisePath(v) ==
  IF v \in Nothing THEN None
  ELSE [slashes |-> IF v.lead = 2 THEN 2 ELSE 1,
        segments |-> Resolve(IF v.lead = 0 THEN Base \o v.parts ELSE v.parts)]

\* path_is_within, on strings that end in no slash: the root is only a
\* prefix, with a slash added, of what starts with two.
PathIsWithin(child, parent) ==
  \/ child.segments = <<>> /\ parent.segments = <<>>
  \/ parent.segments = <<>> /\ child.slashes = 2
  \/ /\ parent.segments # <<>>
     /\ child.slashes = parent.slashes
     /\ IsPrefix(parent.segments, child.segments)

AnyPathMatches(path, entries) == \E e \in entries : PathIsWithin(path, NormalisePath(e))

Dotted(v) == v.lead = 0 /\ Len(v.parts) > 1 /\ v.parts[1] \in {<<".">>, Up}

\* looks_like_path, looks_like_host.
LooksLikePath(v) == v # Empty /\ (v.lead > 0 \/ Dotted(v))
LooksLikeHost(v) == v # Empty /\ v.lead = 0 /\ Has(v.parts[1], {"."})

\* extract_domain: the host without the dots around it, or <<>>.
ExtractDomain(v) ==
  LET host == v.parts[1]
      solid == {i \in DOMAIN host : host[i] # "."}
  IN IF v = Empty THEN <<>>
     ELSE IF v.lead > 0 \/ Dotted(v) \/ solid = {} THEN <<>>
     ELSE SubSeq(host, Min(solid), Max(solid))

\* domain_matches: a rule is a host, or every host under one as well.
DomainMatches(rule, domain) ==
  \/ rule.host = domain
  \/ rule.glob /\ IsSuffix(<<".">> \o rule.host, domain)

DomainMatchesAny(domain, rules) == \E r \in rules : DomainMatches(r, domain)

(***************************************************************************)
(* authority.py.                                                           *)
(***************************************************************************)
\* resolve_fact, for the two facts the supervisor measures: its value, and
\* whether it was observed.
ResolveFact(meta, key) ==
  IF meta.authoritative # None /\ meta.authoritative[key] # None
    THEN [value |-> meta.authoritative[key], observed |-> TRUE]
  ELSE IF key = "count" /\ meta.children # None
    THEN [value |-> meta.children, observed |-> FALSE]
  ELSE [value |-> meta[key], observed |-> FALSE]

CandidateValuesTrustClaim(meta, resource, key) ==
  {IF meta[key] # None THEN meta[key] ELSE resource} \ Nothing
\* candidate_values.
CandidateValues(meta, resource, key) ==
  LET recorded == CASE key = "path"   -> LooksLikePath(resource)
                    [] key = "domain" -> LooksLikeHost(resource) \/ meta.domain \in Nothing
                    [] key = "tool"   -> TRUE
      first == ((IF recorded THEN {resource} ELSE {}) \cup {meta[key]}) \ Nothing
  IN IF first = {} THEN {resource} \ Nothing ELSE first

(***************************************************************************)
(* policy.py.  A verdict is None or a decision.                            *)
(***************************************************************************)
Rank == [ALLOW |-> 0, DENY |-> 1, QUARANTINE |-> 2, KILL |-> 3]
Blocked(decision) == decision # "ALLOW"

Worst(verdicts) ==
  LET given == verdicts \ {None}
  IN IF given = {} THEN None
     ELSE CHOOSE v \in given : \A w \in given : Rank[v] >= Rank[w]

FileEvents == {"file_access", "file_modification"}
CommandEvents == {"shell_command", "process_creation"}

If(condition, decision) == IF condition THEN decision ELSE None

CheckPrivilegeEscalation(p, r) ==
  If(/\ ~p.allow_privilege
     /\ "privilege" \in r.meta.flags \/ (r.kind \in CommandEvents /\ "sudo" \in r.signs), "KILL")

CheckCriticalCommand(p, r) == If(r.kind = "shell_command" /\ "critical" \in r.signs, "KILL")

CheckSandboxEscape(p, r) ==
  If(\/ "host" \in r.meta.flags /\ ~p.allow_host
     \/ r.signs \cap {"nsenter", "docker.sock", "bind_mount"} # {}, "KILL")

CheckPersistence(p, r) ==
  If(/\ ~p.allow_persistence
     /\ \/ "persistence" \in r.meta.flags
        \/ r.kind \in CommandEvents \cup {"file_modification"} /\ "cron" \in r.signs, "KILL")

\* Prefixes of the string: /proc/10 is under "/proc/1" as well.
HostResourceVerdict(v) ==
  LET path == NormalisePath(v)
      segs == path.segments
  IN If(/\ path.slashes = 1 /\ Len(segs) >= 2
        /\ \/ segs[1] = <<"proc">> /\ segs[2][1] = "1"
           \/ segs[1] = <<"sys">>
           \/ segs = <<<<"var">>, <<"run">>, <<"docker.sock">>>>, "KILL")

CheckHostResources(p, r) ==
  IF p.allow_host \/ r.kind \notin FileEvents THEN None
  ELSE Worst({HostResourceVerdict(v) : v \in CandidateValues(r.meta, r.resource, "path")})

\* A claimed name takes the place of the recorded one.
NamedEnv(r) == Said(r.meta.env, IF r.kind = "env_access" THEN r.resource ELSE None)

CheckEnvVar(p, r) == If(NamedEnv(r) # None /\ NamedEnv(r) \in p.protected_env, "DENY")

\* _FilesystemRules.verdict.  A subject the matcher refuses matches nothing,
\* neither a deny rule nor an allow rule.
PathRuleAllowFirst(rule, v) ==
  LET path == NormalisePath(v)
      subject == NormaliseSegments(Raw(1, path.segments))
      match(patterns) == subject # None /\ \E q \in patterns : PathMeans(q, subject)
  IN If(IF match(rule.allow) THEN FALSE ELSE match(rule.deny) \/ rule.allow # {}, rule.violation)
PathRule(rule, v) ==
  LET path == NormalisePath(v)
      subject == NormaliseSegments(Raw(1, path.segments))
      match(patterns) == subject # None /\ \E q \in patterns : PathMeans(q, subject)
  IN If(match(rule.deny) \/ (rule.allow # {} /\ ~match(rule.allow)), rule.violation)

PathVerdict(p, v) ==
  IF p.path_rule # None THEN PathRule(p.path_rule, v)
  ELSE LET path == NormalisePath(v)
       IN If(\/ AnyPathMatches(path, p.forbidden_paths)
             \/ p.allowed_paths # {} /\ ~AnyPathMatches(path, p.allowed_paths), "DENY")

CheckPaths(p, r) ==
  IF r.kind \notin FileEvents /\ r.meta.path \in Nothing THEN None
  ELSE Worst({PathVerdict(p, v) : v \in CandidateValues(r.meta, r.resource, "path")})

NetworkIsRestricted(p) ==
  IF p.restrict_network # None THEN p.restrict_network ELSE p.allowed_domains # {}

NetworkVerdict(p, v) ==
  LET domain == ExtractDomain(v)
  IN IF domain = <<>> THEN If(NetworkIsRestricted(p), "DENY")
     ELSE IF DomainMatchesAny(domain, p.forbidden_domains) THEN "DENY"
     ELSE If(NetworkIsRestricted(p) /\ ~DomainMatchesAny(domain, p.allowed_domains),
             p.unknown_domain)

CheckNetwork(p, r) ==
  IF r.kind # "network_request" THEN None
  ELSE Worst({NetworkVerdict(p, v) : v \in CandidateValues(r.meta, r.resource, "domain")})

ToolVerdict(p, v) ==
  IF v \in p.forbidden_tools THEN "DENY"
  ELSE If(p.allowed_tools # {} /\ v \notin p.allowed_tools, p.unknown_tool)

\* A request that names no tool at all names it in its verb.
CheckTools(p, r) ==
  LET named == CandidateValues(r.meta, r.resource, "tool")
  IN IF r.kind # "tool_request" THEN None
     ELSE Worst({ToolVerdict(p, v) : v \in IF named = {} THEN {r.action} ELSE named})

\* The measured value and the claimed one: the larger when one is measured,
\* otherwise the one resolve_fact gave.  What is no number does not count.
Judged(fact, claimed) ==
  LET numbers == {fact.value, claimed} \ {None, WrongType}
  IN IF numbers = {} THEN None
     ELSE IF fact.observed \/ fact.value \notin numbers THEN Max(numbers)
     ELSE fact.value

ProcessCountInput(r) == Judged(ResolveFact(r.meta, "count"), r.meta.children)

CheckProcesses(p, r) ==
  LET count == ProcessCountInput(r)
  IN IF r.kind # "process_creation" \/ count = None THEN None
     ELSE IF count > p.max_processes * p.multiplier THEN "KILL"
     ELSE If(count > p.max_processes, "DENY")

CheckRuntime(p, r) ==
  LET elapsed == Judged(ResolveFact(r.meta, "runtime"), r.meta.runtime)
  IN If(elapsed # None /\ elapsed > p.max_runtime, "KILL")

\* The checks in the order they are made.
Checks(p, r) ==
  <<CheckPrivilegeEscalation(p, r), CheckCriticalCommand(p, r), CheckSandboxEscape(p, r),
    CheckPersistence(p, r), CheckHostResources(p, r), CheckEnvVar(p, r), CheckPaths(p, r),
    CheckNetwork(p, r), CheckTools(p, r), CheckProcesses(p, r), CheckRuntime(p, r)>>

\* The first check with a verdict decides.
Evaluate(p, r) ==
  LET verdicts == Checks(p, r)
      given == {i \in DOMAIN verdicts : verdicts[i] # None}
  IN IF given = {} THEN "ALLOW" ELSE verdicts[Min(given)]

(***************************************************************************)
(* tripwire.py.                                                            *)
(***************************************************************************)
\* A claimed path takes the place of the recorded resource here.
Touches(t, r) ==
  /\ t.kinds = {} \/ r.kind \in t.kinds
  /\ \/ NamedEnv(r) # None /\ NamedEnv(r) \in t.envs
     \/ LET path == NormalisePath(Said(r.meta.path, r.resource))
        IN path # None /\ AnyPathMatches(path, t.paths)
     \/ r.signs \cap t.signs # {}

\* TripwireRegistry.default: one canary stands for the canaries and the
\* Watcher's own files, which are also searched for in the text, "pkg" for
\* its source tree.
DefaultTripwires(p) ==
  LET hosted == FileEvents \cup CommandEvents
  IN {Tripwire(hosted, {Raw(1, <<<<"canary">>>>), Raw(0, <<<<".">>, <<"canary">>>>)}, {}, {"canary"}),
      Tripwire({"file_modification"}, {Raw(1, <<<<"pkg">>>>)}, {}, {}),
      Tripwire({}, {}, p.protected_env, {}),
      Tripwire(hosted \cup {"network_request"},
               {Raw(1, <<<<"var">>, <<"run">>, <<"docker.sock">>>>)}, {}, {"docker.sock"}),
      Tripwire(hosted, {Raw(1, <<<<"proc">>, <<"1">>, <<"root">>>>)}, {}, {"nsenter"})}

\* TripwireRegistry.check and the second step of Watcher.evaluate: tripwires
\* outrank the policy.  (Every tripwire kills, so the first one is any one.)
Decide(p, tripwires, r) == IF \E t \in tripwires : Touches(t, r) THEN "KILL" ELSE Evaluate(p, r)

(***************************************************************************)
(* daemon.py, _sanitize_client_payload and _authoritative_facts.           *)
(***************************************************************************)
Facts(ask) ==
  [count   |-> IF ask.kind = "process_creation" THEN ask.tree ELSE None,
   runtime |-> ask.elapsed]

SanitizeKeepsForged(ask, claims) ==
  [kind |-> ask.kind, action |-> ask.action, resource |-> ask.resource, signs |-> ask.signs,
   meta |-> [claims EXCEPT !.authoritative = Given(@, Facts(ask))]]
\* The reserved name is written last, over whatever the client sent there.
Sanitize(ask, claims) ==
  [kind |-> ask.kind, action |-> ask.action, resource |-> ask.resource, signs |-> ask.signs,
   meta |-> [claims EXCEPT !.authoritative = Facts(ask)]]

=============================================================================
