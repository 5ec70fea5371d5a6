------------------------------ MODULE MCRules ------------------------------
(* An instance of Rules for TLC. *)
EXTENDS Rules

Strings(A, n) == UNION {[1 .. k -> A] : k \in 0 .. n}

\* Every segment pattern of up to four characters against every name, and
\* every path pattern of up to three segments against every path.
MCMatches ==
  LET segments == {<<s>> : s \in {x \in Strings({"a", "*", "?"}, 4) \ {<<>>} :
                                    CompilePattern(Raw(1, <<x>>)) # None}}
      names == {<<t>> : t \in Strings({"a", "b"}, 4) \ {<<>>}}
      patterns == Strings({Span, <<"*">>, <<"a">>, <<"?", "b">>, <<"*", "b">>}, 3)
      paths == Strings({<<"a">>, <<"a", "b">>, <<"b">>}, 3)
  IN (segments \X names) \cup (patterns \X paths)

a == <<"a">>
b == <<"b">>
canary == <<"canary">>
Abs(parts) == Raw(1, parts)
Word(chars) == Raw(0, <<chars>>)
Host == Word(<<"x", ".", "y">>)
Other == Word(<<"z", ".", "x", ".", "y">>)
Token == Word(<<"T", "O", "K">>)
MCBase == <<<<"w">>>>

(***************************************************************************)
(* Documents: a minimal one and those that differ from it in two fields.   *)
(***************************************************************************)
Minimal ==
  [format |-> "v1", text |-> "ok", unknown |-> FALSE, flat |-> {}, version |-> 1, name |-> None,
   allow |-> None, deny |-> None, mode |-> None, hosts |-> None, nohosts |-> None,
   children |-> None, runtime |-> None, memory |-> None, cpu |-> None,
   tripwires |-> None, violations |-> None]

Rulings ==
  {Null, WrongType, <<WrongType>>,
   <<Abs(<<a>>)>>, <<Abs(<<a, b>>)>>, <<Abs(<<a, <<"*">>>>)>>, <<Abs(<<Span, b>>), Raw(2, <<a>>)>>,
   <<Abs(<<>>)>>, <<Abs(<<a>>), Raw(1, <<a, <<>>, <<".">>>>)>>,
   <<Raw(0, <<a>>)>>, <<Abs(<<a, Up>>)>>, <<Abs(<<<<"[">>>>)>>, <<Abs(<<<<"^">>>>)>>,
   <<Abs(<<<<"*", "*", "b">>>>)>>, <<Abs(<<a, a, b, b>>)>>,
   <<Abs(<<a>>), Abs(<<b>>), Abs(<<a, b>>)>>}

HostLists ==
  LET name(n) == [form |-> "name", name |-> n]
  IN {Null, <<name("h")>>, <<name("h"), name("h")>>, <<[form |-> "address", name |-> "h"]>>}

Values ==
  [text |-> TextFlaws \cup StrictFlaws, unknown |-> {TRUE}, flat |-> {{"network"}},
   version |-> {None, Null, WrongType, 2}, name |-> {Null, WrongType, "name", "bad name"},
   allow |-> Rulings, deny |-> Rulings,
   mode |-> {Null, WrongType, "none", "restricted", "open", "shut"},
   hosts |-> HostLists, nohosts |-> HostLists,
   children |-> {Null, WrongType, -1, 0, 1}, runtime |-> {Null, WrongType, 0, 1},
   memory |-> {Null, 15, 16}, cpu |-> {WrongType, 0, 1}, tripwires |-> Rulings,
   violations |-> {Null, WrongType, <<>>}
     \cup UNION {[{c} -> {"DENY", "QUARANTINE", "KILL", "ALLOW", Null}] : c \in Classes}]

Changes == UNION {{f} \X Values[f] : f \in DOMAIN Values}

MCDocuments ==
  {[Minimal EXCEPT ![c[1]] = c[2], ![d[1]] = d[2]] : c \in Changes, d \in Changes}

(***************************************************************************)
(* Files of the older format.                                              *)
(***************************************************************************)
V3(fields) == [format |-> "v0", text |-> "ok", written |-> fields]
MCFiles ==
  {V3([forbidden_paths |-> {Abs(<<a>>)}]),
   V3([forbidden_paths |-> {Abs(<<a>>)}, allowed_paths |-> {Raw(0, <<<<".">>, b>>), Abs(<<>>)}]),
   V3([allowed_paths |-> {Abs(<<a>>)}, unknown_tool |-> "QUARANTINE"]),
   V3([allowed_domains |-> {[glob |-> TRUE, host |-> <<"x", ".", "y">>]},
       forbidden_domains |-> {[glob |-> FALSE, host |-> <<"z", ".", "x", ".", "y">>]}]),
   V3([allowed_domains |-> {[glob |-> FALSE, host |-> <<"x", ".", "y">>]}, unknown_domain |-> "ALLOW"]),
   V3([forbidden_domains |-> {[glob |-> TRUE, host |-> <<"x", ".", "y">>]}]),
   V3([restrict_network |-> FALSE, allowed_tools |-> {Word(<<"t">>)}]),
   V3([restrict_network |-> TRUE, forbidden_tools |-> {Word(<<"t">>)}, max_processes |-> 1]),
   V3([allowed_tools |-> {Word(<<"t">>)}, unknown_tool |-> "ALLOW", max_runtime |-> 1]),
   V3([allow_privilege |-> TRUE, allow_host |-> TRUE, allow_persistence |-> TRUE, multiplier |-> 1,
       max_processes |-> 1]),
   V3([max_processes |-> -1]), V3([max_runtime |-> 0]), V3([multiplier |-> 0]),
   V3([unknown_domain |-> "MAYBE"]), V3([sections |-> 1]),
   [format |-> "v0", text |-> "syntax", written |-> <<>>],
   [format |-> "v0", text |-> "duplicate_key", written |-> <<>>],
   [format |-> "none"]}

MCSources == MCDocuments \cup MCFiles

NoFlags == [allow_path |-> {}, forbid_path |-> {}, allow_domain |-> {}, forbid_domain |-> {},
            max_processes |-> None, timeout |-> None]
MCFlags == {NoFlags,
            [NoFlags EXCEPT !.forbid_path = {Abs(<<b>>)}, !.timeout = 2],
            [NoFlags EXCEPT !.max_processes = 0, !.timeout = 2]}

(***************************************************************************)
(* Requests and claims.                                                    *)
(***************************************************************************)
Request(kind, resource, signs) ==
  [kind |-> kind, action |-> Word(<<"t">>), resource |-> resource, signs |-> signs,
   tree |-> None, elapsed |-> None]

MCAsks ==
  {Request("file_access", r, {}) :
     r \in {Abs(<<a>>), Abs(<<a, b>>), Abs(<<a, b, a>>), Abs(<<b>>), Abs(<<b, Up, a, <<>>, b>>),
            Raw(2, <<a, b>>), Raw(3, <<a>>), Raw(0, <<<<".">>, a>>), Raw(0, <<Up, a, b>>),
            Raw(0, <<a>>), Abs(<<a, b, a, b>>), Abs(<<a, <<"^">>>>), Abs(<<>>), Empty,
            Abs(<<<<"proc">>, <<"1", "0">>>>), Abs(<<<<"sys">>, a>>)}}
  \cup {Request("file_modification", Abs(<<<<"pkg">>, a>>), {}),
        Request("file_modification", Abs(<<b>>), {"cron"}),
        Request("file_access", Abs(<<canary>>), {"canary"}),
        Request("shell_command", Word(<<"c">>), {}),
        Request("shell_command", Word(<<"c">>), {"sudo"}),
        Request("shell_command", Word(<<"c">>), {"critical"}),
        Request("shell_command", Word(<<"c">>), {"bind_mount"}),
        Request("shell_command", Word(<<"c">>), {"nsenter"}),
        Request("env_access", Token, {}), Request("env_access", Word(<<"v">>), {})}
  \cup {Request("network_request", r, {}) :
          r \in {Host, Other, Word(<<"h">>), Abs(<<a>>), Empty, Word(<<".">>)}}
  \cup {Request("tool_request", r, {}) : r \in {Word(<<"t">>), Word(<<"u">>), Empty}}
  \cup {[Request("process_creation", Word(<<"c">>), {}) EXCEPT !.tree = n, !.elapsed = s] :
          n \in {1, 2, 33, 97}, s \in {None, 2}}
  \cup {[Request("tool_request", Word(<<"t">>), {}) EXCEPT !.elapsed = s] : s \in {1, 3601}}

MCClaims ==
  {NoClaims, [NoClaims EXCEPT !.path = Empty, !.domain = Empty, !.tool = Empty, !.env = Empty],
   [NoClaims EXCEPT !.flags = {"privilege", "host", "persistence"}],
   [NoClaims EXCEPT !.children = 40, !.runtime = 40], [NoClaims EXCEPT !.runtime = WrongType],
   [NoClaims EXCEPT !.children = 0, !.runtime = 0, !.authoritative = [count |-> 0, runtime |-> 0]],
   [NoClaims EXCEPT !.children = WrongType, !.count = 2, !.path = Abs(<<b>>)],
   [NoClaims EXCEPT !.path = Raw(0, <<b>>), !.domain = Word(<<"h">>)],
   [NoClaims EXCEPT !.path = Abs(<<a, a>>), !.domain = Host, !.tool = Word(<<"t">>)],
   [NoClaims EXCEPT !.domain = Other, !.tool = Word(<<"u">>), !.env = Word(<<"v">>)]}
=============================================================================
