------------------------------- MODULE Rules -------------------------------
(***************************************************************************)
(* From "watcher run --policy FILE" to the verdict on a request: cli.py    *)
(* chooses the format and loads the rules, the client asks, the daemon     *)
(* adds the facts it observed and the Watcher decides.  The matcher of the *)
(* path patterns takes its steps on its own instances (pc = "match"); the  *)
(* verdicts use what a pattern means, which MatchIsExact shows it answers. *)
(***************************************************************************)
EXTENDS PolicyEngine

CONSTANTS Matches,     \* pairs of a pattern and a path
          Sources,     \* no file, or the fields of a file of either format
          Flags,       \* the flags of the command line
          Asks, Claims \* requests, and what their metadata may claim

VARIABLES
  pc,                  \* "match", "launch", "refused", "ready", "decided"
  source, flags,
  policy, tripwires,   \* what the Watcher was given
  timeout,             \* the session timeout, None for none
  ask,                 \* the request that was made
  verdict,             \* what was decided about it,
  bare                 \* and would have been with nothing claimed

launchVars == <<source, flags, policy, tripwires, timeout>>
askVars == <<ask, verdict, bare>>
vars == <<matchVars, pc, launchVars, askVars>>

NoClaims ==
  [path |-> None, domain |-> None, tool |-> None, env |-> None, flags |-> {},
   children |-> None, count |-> None, runtime |-> None, authoritative |-> None]

\* A path and a list of patterns as the decoders give them.
RawPath == [lead : Nat, parts : Seq(Seq(STRING))]
Listed(values) == values \in Bad \cup {None} \cup Seq(RawPath \cup {WrongType})

\* None is no value of another type.
NoneIsApart ==
  /\ None \notin Decisions \cup Int \cup BOOLEAN \cup Bad \cup DefaultPolicy.protected_env
  /\ None \notin RawPath /\ None \notin [slashes : Nat, segments : Seq(Seq(STRING))]
  /\ None \notin [allow : SUBSET Seq(Seq(STRING)), deny : SUBSET Seq(Seq(STRING)), violation : Decisions]

\* What argparse, the JSON decoders and the transport make of what is given:
\* numbers are numbers, or of a wrong type where nothing converts them.
ASSUME RulesAssumption ==
  /\ NoneIsApart /\ WrongType \notin Int /\ Base \in Seq(Seq(STRING))
  /\ \A m \in Matches : m[1] \in Seq(Seq(STRING)) /\ m[2] \in Seq(Seq(STRING))
  /\ \A s \in Sources :
       /\ s.format = "v1" =>
            /\ {s.children, s.runtime} \subseteq Int \cup Bad \cup {None}
            /\ Listed(s.allow) /\ Listed(s.deny) /\ Listed(s.tripwires)
       /\ s.format = "v0" =>
            \A f \in DOMAIN s.written :
              /\ f \in {"max_processes", "max_runtime", "multiplier"} => s.written[f] \in Int \cup Bad
              /\ f = "protected_env" => None \notin s.written[f]
  /\ \A f \in Flags : {f.max_processes, f.timeout} \subseteq Int \cup {None}
  /\ \A a \in Asks :
       /\ a.resource \in RawPath /\ None # Facts(a)
       /\ {a.tree, a.elapsed} \subseteq Int \cup {None}
  /\ \A c \in Claims :
       /\ DOMAIN c = DOMAIN NoClaims
       /\ {c.children, c.runtime} \subseteq Int \cup {None, WrongType}

Init ==
  /\ policy = None /\ tripwires = {} /\ timeout = None
  /\ ask = None /\ verdict = None /\ bare = None
  /\ \/ /\ pc = "match" /\ source = None /\ flags = None
        /\ \E m \in Matches : MatchInit(m[1], m[2])
     \/ /\ pc = "launch" /\ source \in Sources /\ flags \in Flags
        /\ MatchInit(<<>>, <<>>)

Match == pc = "match" /\ MatchNext /\ UNCHANGED <<pc, launchVars, askVars>>

(***************************************************************************)
(* cli.py, _load_policy_source.                                            *)
(***************************************************************************)
\* _apply_v3_overrides.
ApplyOverrides(p) ==
  [p EXCEPT !.allowed_paths = IF flags.allow_path = {} THEN @ ELSE flags.allow_path,
            !.forbidden_paths = @ \cup flags.forbid_path,
            !.allowed_domains = IF flags.allow_domain = {} THEN @ ELSE flags.allow_domain,
            !.forbidden_domains = @ \cup flags.forbid_domain,
            !.max_processes = Given(flags.max_processes, @)]

\* _looks_like_policy_v1, on the JSON as json.loads reads it.
LooksLikePolicyV1 ==
  /\ source.format = "v1"
  /\ source.text \notin TextFlaws
  /\ source.version # None

\* A flag that is set; --max-processes 0 counts as not set.
Conflicting ==
  \/ \E f \in {"allow_path", "forbid_path", "allow_domain", "forbid_domain"} : flags[f] # {}
  \/ flags.max_processes \notin {None, 0}

Run(p, t, seconds) ==
  /\ policy' = p /\ tripwires' = t /\ timeout' = seconds
  /\ pc' = "ready"

Refuse == pc' = "refused" /\ UNCHANGED <<policy, tripwires, timeout>>

LoadDefault ==
  /\ source.format = "none"
  /\ LET p == ApplyOverrides(DefaultPolicy) IN Run(p, DefaultTripwires(p), flags.timeout)

\* A document without a version is read as the older format, which knows
\* none of its sections, but a name.
Sectioned ==
  \/ source.unknown \/ source.flat # {}
  \/ \E f \in DOMAIN source \ {"format", "text", "unknown", "flat", "version", "name"} :
       source[f] # None

LoadV3 ==
  /\ source.format # "none" /\ ~LooksLikePolicyV1
  /\ LET written == IF source.format = "v0" THEN source.written
                     ELSE IF Sectioned THEN [sections |-> TRUE] ELSE <<>>
         read == FromDict(source.text, written)
         p == ApplyOverrides(read)
     IN IF read = None THEN Refuse ELSE Run(p, DefaultTripwires(p), flags.timeout)

\* The stricter of the document's runtime and --timeout.
LoadV1 ==
  /\ LooksLikePolicyV1
  /\ LET v1 == LoadsPolicy(source)
         projection == Project(v1)
     IN IF Conflicting \/ v1 = None THEN Refuse
        ELSE IF projection = None THEN Refuse
        ELSE Run(projection.policy, projection.tripwires,
                 IF flags.timeout = None THEN v1.runtime ELSE Min({flags.timeout, v1.runtime}))

Launch ==
  /\ pc = "launch"
  /\ LoadDefault \/ LoadV3 \/ LoadV1
  /\ UNCHANGED <<matchVars, source, flags, askVars>>

\* Watcher.evaluate on what _sanitize_client_payload made of the request.
Ask(a, claims) ==
  /\ pc' = "decided"
  /\ ask' = [a |-> a, claims |-> claims]
  /\ verdict' = Decide(policy, tripwires, Sanitize(a, claims))
  /\ bare' = Decide(policy, tripwires, Sanitize(a, NoClaims))
  /\ UNCHANGED <<matchVars, launchVars>>

\* (One request for each run of the model.)
AskAnything == pc = "ready" /\ \E a \in Asks, claims \in Claims : Ask(a, claims)

Next == Match \/ Launch \/ AskAnything

Spec == Init /\ [][Next]_vars

(***************************************************************************)
(* Properties.                                                             *)
(***************************************************************************)
\* Every variable holds what the command line and the Watcher give it; rules
\* and verdicts are there exactly when they were loaded and asked for.
TypeOK ==
  /\ MatchTypeOK
  /\ pc \in {"match", "launch", "refused", "ready", "decided"}
  /\ tripwires # {} => pc \in {"ready", "decided"}
  /\ verdict \in Decisions \cup {None} /\ (verdict # None) = (pc = "decided")
  /\ pc = "decided" => bare \in Decisions

\* The parts of DeclaredIsEnforced, from the text of the document and not
\* from what the projection made of it.
Declares(values, segments) ==
  \E i \in DOMAIN Given(values, <<>>) : PathMeans(CompilePattern(values[i]), segments)

Subject == Resolve(IF ask.a.resource.lead = 0 THEN Base \o ask.a.resource.parts
                   ELSE ask.a.resource.parts)

\* What a claimed path displaces: the recorded resource, for the tripwires;
\* and for the rules, one that does not look like a path, as "a/b".
PathStands == ask.claims.path \in Nothing \/ LooksLikePath(ask.a.resource)

PathsEnforced ==
  /\ ask.a.kind \in FileEvents /\ ask.a.resource # Empty /\ PathStands
  /\ NormaliseSegments(Raw(1, Subject)) # None
  /\ \/ Declares(source.deny, Subject)
     \/ Given(source.allow, <<>>) # <<>> /\ ~Declares(source.allow, Subject)
  => Blocked(verdict)

NetworkEnforced ==
  ask.a.kind = "network_request" /\ ask.a.resource # Empty => Blocked(verdict)

\* The recorded resource is within a tripwire of the document.  (The root as
\* a tripwire holds only itself, and a path that begins with two slashes
\* lies within none.)
Tripped ==
  /\ ask.a.resource # Empty /\ ask.a.resource.lead # 2
  /\ \E i \in DOMAIN Given(source.tripwires, <<>>) :
       LET rule == CompilePattern(source.tripwires[i])
       IN rule # <<>> /\ PathMeans(rule, Subject)

TripwiresEnforced == Tripped /\ ask.claims.path \in Nothing => verdict = "KILL"

CeilingsEnforced ==
  /\ ask.a.kind = "process_creation" /\ ask.a.tree # None
       /\ ask.a.tree > Given(source.children, 32) => Blocked(verdict)
  /\ ask.a.elapsed # None /\ ask.a.elapsed > Given(source.runtime, 3600) => Blocked(verdict)
  /\ timeout # None /\ timeout <= Given(source.runtime, 3600)

\* What an accepted Policy V1 document declares is what decides: a recorded
\* path it denies, or leaves out of its allow-list, is refused, unless a path
\* is claimed beside a resource that does not look like one; a network
\* request that names anything is refused, whatever is claimed; a recorded
\* path within a tripwire kills, unless a path is claimed; and the ceilings
\* hold for what the supervisor measured, whatever is claimed.
\* (A path with characters no pattern may have matches no rule.  What a
\* claimed path lifts is shown by TripwiresStand.)
DeclaredIsEnforced ==
  pc = "decided" /\ LooksLikePolicyV1 =>
    PathsEnforced /\ NetworkEnforced /\ TripwiresEnforced /\ CeilingsEnforced

\* No check can answer ALLOW.  A rule for unknown hosts or tools that says so
\* ends the checks there, before the runtime is compared with its ceiling.
ChecksGoOn ==
  /\ ask.a.kind = "network_request" => policy.unknown_domain # "ALLOW"
  /\ ask.a.kind = "tool_request" => policy.unknown_tool # "ALLOW"

\* A claim is judged in the place of what is recorded, and not beside it: a
\* variable's name always; a path by the tripwires, and by the rules beside a
\* resource that does not look like one; a host and a tool beside a resource
\* that names none.
Displaced ==
  \/ ask.a.kind = "env_access" /\ ask.claims.env \notin Nothing
  \/ ask.a.kind \in FileEvents /\ ~PathStands
  \/ ask.claims.path \notin Nothing /\ ask.a.resource # Empty
       /\ \E t \in tripwires : AnyPathMatches(NormalisePath(ask.a.resource), t.paths)
  \/ ask.a.kind = "network_request" /\ ask.claims.domain \notin Nothing
       /\ ~LooksLikeHost(ask.a.resource)
  \/ ask.a.kind = "tool_request" /\ ask.claims.tool \notin Nothing /\ ask.a.resource = Empty

\* Where a claim displaces nothing and every check is made, claims only add
\* restriction: what is refused with nothing claimed, by the tripwires or by
\* any check, is refused with anything claimed.
ClaimsNeverUnblock ==
  pc = "decided" /\ Blocked(bare) /\ ChecksGoOn /\ ~Displaced => Blocked(verdict)

\* A process tree or a runtime the supervisor measured above the limit is
\* refused, whatever the client wrote under the names of the facts, the
\* reserved one included, under every set of rules that has no ALLOW for the
\* unknown hosts or tools the request may name.
ObservedDecides ==
  /\ pc = "decided" /\ ChecksGoOn
  /\ \/ ask.a.kind = "process_creation" /\ ask.a.tree # None /\ ask.a.tree > policy.max_processes
     \/ ask.a.elapsed # None /\ ask.a.elapsed > policy.max_runtime
  => Blocked(verdict)

\* authority.py: "A forged metadata.path can therefore point the check at a
\* harmless file all it likes; the recorded resource is still checked."  Of
\* the tripwires of an accepted document it is not: they look at the claimed
\* path only.
TripwiresStand == pc = "decided" /\ LooksLikePolicyV1 /\ Tripped => verdict = "KILL"

\* authority.py: "a client assertion may only ever add restriction, never
\* remove it."  Of any request: what is refused with nothing claimed is
\* refused with anything claimed.  A claim that displaces what is recorded
\* lifts the refusal.
ClaimsOnlyRestrict == pc = "decided" /\ Blocked(bare) => Blocked(verdict)
=============================================================================
