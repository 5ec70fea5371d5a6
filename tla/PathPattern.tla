---------------------------- MODULE PathPattern ----------------------------
(***************************************************************************)
(* Path patterns of a policy document: policy_v1.py, compile_pattern and   *)
(* PathPattern.matches.                                                    *)
(*                                                                         *)
(* A string is a sequence of characters and a path a sequence of segments. *)
(* One character stands for each class the code tells apart: "^" for the   *)
(* control characters and surrogates, "[" for the pattern syntax that is   *)
(* not supported.  Matching one segment is a calculation (SegmentMatches); *)
(* matching whole paths is the loop of _segments_match, one step each.     *)
(***************************************************************************)
EXTENDS Integers, Sequences, FiniteSets, FiniteSetsExt, SequencesExt

CONSTANTS MaxSegments, None

ASSUME MaxSegmentsAssumption == MaxSegments \in Nat

Wild == "*"
One  == "?"
Span == <<Wild, Wild>>
Up   == <<".", ".">>
Blanks == {<<>>, <<".">>}
Odd  == {"^"}
Unsupported == {"["}

Has(segment, chars) == \E i \in DOMAIN segment : segment[i] \in chars

\* A path as written: how many slashes it starts with, and what is between
\* its slashes.
Raw(lead, parts) == [lead |-> lead, parts |-> parts]

\* The segments of a path: "." and "" drop out, and what leads back takes the
\* segment before it away.
Walk(parts, back) ==
  LET kept[i \in 0 .. Len(parts)] ==
        IF i = 0 THEN <<>>
        ELSE IF parts[i] \in Blanks THEN kept[i - 1]
        ELSE IF parts[i] \in back THEN Front(kept[i - 1])
        ELSE Append(kept[i - 1], parts[i])
  IN kept[Len(parts)]

\* _normalise_segments: the segments of an absolute path, or a refusal.
NormaliseSegments(raw) ==
  LET kept == Walk(raw.parts, {})
  IN IF \/ raw.lead = 0
        \/ \E i \in DOMAIN kept : Has(kept[i], Odd) \/ kept[i] = Up
        \/ Len(kept) > MaxSegments
       THEN None
       ELSE kept

HasWildcard(segments) == \E i \in DOMAIN segments : Has(segments[i], {Wild, One})

\* compile_pattern: "**" only as a whole segment, no other syntax.
CompilePattern(raw) ==
  LET segments == NormaliseSegments(raw)
      spanInside(s) == s # Span /\ \E i \in 1 .. Len(s) - 1 : SubSeq(s, i, i + 1) = Span
  IN IF \/ segments = None
        \/ \E i \in DOMAIN segments : Has(segments[i], Unsupported) \/ spanInside(segments[i])
       THEN None
       ELSE segments

(***************************************************************************)
(* One segment: _segment_matches.  Positions count from 0, as in the code. *)
(***************************************************************************)
AnchoredMatch(block, chunk) ==
  /\ Len(block) = Len(chunk)
  /\ \A i \in DOMAIN block : block[i] \in {One, chunk[i]}

\* The bits of the code's state are the lengths of the block's prefixes that
\* end at the current character.
ShiftAndFind(block, text, start, end) ==
  LET state[i \in start - 1 .. end - 1] ==
        IF i < start THEN {}
        ELSE {n \in DOMAIN block : /\ n = 1 \/ n - 1 \in state[i - 1]
                                   /\ block[n] \in {One, text[i + 1]}}
      ends == {i \in start .. end - 1 : Len(block) \in state[i]}
  IN IF ends = {} THEN -1 ELSE Min(ends) - Len(block) + 1

\* str.find.
LiteralFind(block, text, start, end) ==
  LET at == {i \in start .. end - Len(block) : SubSeq(text, i + 1, i + Len(block)) = block}
  IN IF at = {} THEN -1 ELSE Min(at)

FindBlock(block, text, start, end) ==
  IF Len(block) = 0 THEN IF start <= end THEN start ELSE -1
  ELSE IF end - Len(block) < start THEN -1
  ELSE IF ~Has(block, {One}) THEN LiteralFind(block, text, start, end)
  ELSE IF \A i \in DOMAIN block : block[i] = One THEN start
  ELSE ShiftAndFind(block, text, start, end)

\* The blocks between the stars: the first and the last are anchored, the
\* others placed one after the other, each as early as possible, leaving room
\* for the rest.  position[i] is where the block that star i closes ends.
SegmentMatches(pattern, text) ==
  LET stars == {i \in DOMAIN pattern : pattern[i] = Wild}
      head  == SubSeq(pattern, 1, Min(stars) - 1)
      tail  == SubSeq(pattern, Max(stars) + 1, Len(pattern))
      limit == Len(text) - Len(tail)
      needed(i) == Cardinality({j \in i .. Max(stars) : pattern[j] # Wild})
      position[i \in stars] ==
        IF i = Min(stars) THEN Len(head)
        ELSE LET before == Max({s \in stars : s < i})
                 block  == SubSeq(pattern, before + 1, i - 1)
                 found  == FindBlock(block, text, position[before], limit - needed(i))
             IN IF position[before] < 0 \/ found < 0 THEN -1 ELSE found + Len(block)
  IN IF stars = {} THEN AnchoredMatch(pattern, text)
     ELSE /\ Len(text) >= Len(head) + Len(tail)
          /\ AnchoredMatch(head, SubSeq(text, 1, Len(head)))
          /\ AnchoredMatch(tail, SubSeq(text, limit + 1, Len(text)))
          /\ position[Max(stars)] >= 0

(***************************************************************************)
(* Whole paths: PathPattern.matches and the loop of _segments_match.       *)
(***************************************************************************)
VARIABLES
  pattern, text,           \* the segments of the pattern and of the path
  pi, ti, star, mark,      \* the locals of _segments_match
  steps,                   \* iterations of its first loop
  result                   \* "new", "running", "yes" or "no"

matchVars == <<pattern, text, pi, ti, star, mark, steps, result>>
locals == <<pi, ti, star, mark>>

\* The bound the docstring of _segments_match gives, and its potential.
Bound == (Len(pattern) + 1) * (Len(text) + 1)
Phi == (Len(text) - mark) * (Len(pattern) + 1) + (Len(pattern) - pi)

MatchInit(p, t) ==
  /\ pattern = p /\ text = t
  /\ pi = 0 /\ ti = 0 /\ star = -1 /\ mark = 0 /\ steps = 0
  /\ result = "new"

AtSpan == pi < Len(pattern) /\ pattern[pi + 1] = Span
AtMatch == pi < Len(pattern) /\ ~AtSpan /\ SegmentMatches(pattern[pi + 1], text[ti + 1])
InLoop == result = "running" /\ ti < Len(text)
PastLoop == result = "running" /\ ti >= Len(text)

\* (The count stops one past the bound.)
Count == steps' = IF steps > Bound THEN steps ELSE steps + 1

\* A pattern without wildcards is a subtree, and compared as a prefix.
Begin ==
  /\ result = "new"
  /\ result' = IF HasWildcard(pattern) THEN "running"
               ELSE IF IsPrefix(pattern, text) THEN "yes" ELSE "no"
  /\ UNCHANGED <<pattern, text, locals, steps>>

OpenSpan ==
  /\ InLoop /\ AtSpan
  /\ star' = pi /\ mark' = ti /\ pi' = pi + 1
  /\ Count
  /\ UNCHANGED <<pattern, text, ti, result>>

Consume ==
  /\ InLoop /\ AtMatch
  /\ pi' = pi + 1 /\ ti' = ti + 1
  /\ Count
  /\ UNCHANGED <<pattern, text, star, mark, result>>

\* Mutant: the text position is kept.
BacktrackForgetsText ==
  /\ InLoop /\ ~AtSpan /\ ~AtMatch /\ star # -1
  /\ pi' = star + 1 /\ mark' = mark + 1 /\ ti' = ti + 1
  /\ Count
  /\ UNCHANGED <<pattern, text, star, result>>

\* Mutant: the saved position does not move.
BacktrackInPlace ==
  /\ InLoop /\ ~AtSpan /\ ~AtMatch /\ star # -1
  /\ pi' = star + 1 /\ ti' = mark
  /\ Count
  /\ UNCHANGED <<pattern, text, star, mark, result>>

\* Otherwise the last "**" takes one segment more.
Backtrack ==
  /\ InLoop /\ ~AtSpan /\ ~AtMatch /\ star # -1
  /\ pi' = star + 1 /\ mark' = mark + 1 /\ ti' = mark + 1
  /\ Count
  /\ UNCHANGED <<pattern, text, star, result>>

Mismatch ==
  /\ InLoop /\ ~AtSpan /\ ~AtMatch /\ star = -1
  /\ result' = "no"
  /\ Count
  /\ UNCHANGED <<pattern, text, locals>>

TrailingSpan ==
  /\ PastLoop /\ AtSpan
  /\ pi' = pi + 1
  /\ UNCHANGED <<pattern, text, ti, star, mark, steps, result>>

Finish ==
  /\ PastLoop /\ ~AtSpan
  /\ result' = IF pi = Len(pattern) THEN "yes" ELSE "no"
  /\ UNCHANGED <<pattern, text, locals, steps>>

MatchNext ==
  Begin \/ OpenSpan \/ Consume \/ Backtrack \/ Mismatch \/ TrailingSpan \/ Finish

\* The matcher alone, for any pattern and any path.
MatchSpec(Patterns, Paths) ==
  (\E p \in Patterns, t \in Paths : MatchInit(p, t)) /\ [][MatchNext]_matchVars

(***************************************************************************)
(* What a pattern means.                                                   *)
(***************************************************************************)
\* A pattern of n elements against a text: which prefixes of the text each
\* prefix of the pattern takes up.  many(p) stands for any number of elements,
\* one(p, t) for one.
Denotes(p, t, many(_), one(_, _)) ==
  LET ends[i \in 0 .. Len(p)] ==
        IF i = 0 THEN {0}
        ELSE IF many(p[i]) THEN {j \in 0 .. Len(t) : \E k \in ends[i - 1] : k <= j}
        ELSE {j \in 1 .. Len(t) : j - 1 \in ends[i - 1] /\ one(p[i], t[j])}
  IN Len(t) \in ends[Len(p)]

SegmentMeans(p, t) == Denotes(p, t, LAMBDA c : c = Wild, LAMBDA c, d : c \in {One, d})

\* A pattern without wildcards means itself and everything below it.
PathMeans(p, t) ==
  Denotes(IF HasWildcard(p) THEN p ELSE Append(p, Span), t, LAMBDA s : s = Span, SegmentMeans)

(***************************************************************************)
(* Properties.                                                             *)
(***************************************************************************)
MatchTypeOK ==
  /\ pi \in 0 .. Len(pattern) /\ star \in -1 .. Len(pattern) - 1
  /\ mark \in 0 .. Len(text) /\ ti \in mark .. Len(text)
  /\ steps \in Nat
  /\ result \in {"new", "running", "yes", "no"}

\* The answer of PathPattern.matches is what the grammar of its docstring
\* says, whatever the loop tried before and wherever the blocks of a segment
\* were placed: "**" spans any number of segments, "*" any characters of one,
\* and /a means the same as /a/**.
MatchIsExact == result \in {"yes", "no"} => (result = "yes") = PathMeans(pattern, text)

\* The loop of _segments_match runs at most (P + 1) * (T + 1) times.
StepsBounded == steps <= Bound

\* Every iteration that goes on lowers the potential of the docstring.
PotentialFalls == [][InLoop /\ result' = "running" => Phi' < Phi]_matchVars
=============================================================================
