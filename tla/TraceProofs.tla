----------------------------- MODULE TraceProofs -----------------------------
(***************************************************************************)
(* Proofs about Trace: a trace that only append() and seal() have touched  *)
(* verifies, whatever the clock did, and carries exactly the evidence of   *)
(* the backwards steps; and no alteration of a stored trace goes unnoticed *)
(* by whoever knows the published hash.                                    *)
(***************************************************************************)
EXTENDS Trace, WellFoundedInduction, NaturalsInduction, TLAPS

\* What verify() asks of position i.
Linked(es, i) ==
  /\ es[i].sequence = i - 1
  /\ es[i].previous_hash = ExpectedPrevious(es, i)
  /\ IsHexDigest(es[i].event_hash)
  /\ es[i].event_hash = compute_hash(es[i])
  /\ i # 1 => ~(es[i].timestamp < es[i - 1].timestamp)

\* e has the fields of an event, and no others.
IsEvent(e) ==
  e = [sequence |-> e.sequence, timestamp |-> e.timestamp, data |-> e.data,
       evidence |-> e.evidence, previous_hash |-> e.previous_hash,
       event_hash |-> e.event_hash]

EventSeq(es) == \E S : (\A e \in S : IsEvent(e)) /\ es \in Seq(S)

\* The recorder's events and clock readings are sequences of one length.
Shape ==
  /\ EventSeq(events)
  /\ raw \in Seq(Nat) /\ Len(raw) = Len(events)
  /\ \A i \in 1 .. Len(events) : events[i].timestamp \in Nat

AllLinked == \A i \in 1 .. Len(events) : Linked(events, i)

DeclaredFits == declared = None \/ declared = compute_final_hash(events)

\* The file: what was stored was linked, its hash fits, and alterations keep
\* the form of an event.
FileInv ==
  /\ EventSeq(original) /\ EventSeq(copy.events)
  /\ \A i \in 1 .. Len(original) : Linked(original, i)
  /\ stored => published = compute_final_hash(original)

ChainInv == Shape /\ AllLinked /\ EvidenceExact /\ DeclaredFits

(***************************************************************************)
(* verify() is silent about a linked event (TraceVerifier.verify).         *)
(***************************************************************************)
LEMMA LinkedIsSilent ==
  ASSUME NEW es, NEW i, Linked(es, i)
  PROVE  Signals(es, i) = {}
<1>1. ASSUME NEW s \in Signals(es, i) PROVE FALSE
  <2>1. s \in TamperSignals
    BY <1>1 DEF Signals
  <2>2. CASE s = "NON_CONTIGUOUS_SEQUENCE"
    BY <1>1, <2>2 DEF Signals, Linked
  <2>3. CASE s = "INVALID_GENESIS_LINK"
    BY <1>1, <2>3 DEF Signals, Linked, ExpectedPrevious
  <2>4. CASE s = "BROKEN_PREVIOUS_HASH"
    BY <1>1, <2>4 DEF Signals, Linked
  <2>5. CASE s = "INVALID_EVENT_HASH"
    BY <1>1, <2>5 DEF Signals, Linked
  <2>6. CASE s = "EVENT_HASH_MISMATCH"
    BY <1>1, <2>6 DEF Signals, Linked
  <2>7. CASE s = "TIMESTAMP_REGRESSION"
    BY <1>1, <2>7 DEF Signals, Linked
  <2> QED
    BY <2>1, <2>2, <2>3, <2>4, <2>5, <2>6, <2>7 DEF TamperSignals
<1> QED
  BY <1>1

LEMMA SilentIsLinked ==
  ASSUME NEW es, NEW i, Signals(es, i) = {}
  PROVE  Linked(es, i)
<1>1. \A s \in TamperSignals : s \notin Signals(es, i)
  OBVIOUS
<1>2. es[i].sequence = i - 1
  <2>1. "NON_CONTIGUOUS_SEQUENCE" \notin Signals(es, i)
    BY <1>1 DEF TamperSignals
  <2> QED
    BY <2>1 DEF Signals, TamperSignals
<1>3. es[i].previous_hash = ExpectedPrevious(es, i)
  <2>1. /\ "INVALID_GENESIS_LINK" \notin Signals(es, i)
        /\ "BROKEN_PREVIOUS_HASH" \notin Signals(es, i)
    BY <1>1 DEF TamperSignals
  <2> QED
    BY <2>1 DEF Signals, TamperSignals, ExpectedPrevious
<1>4. IsHexDigest(es[i].event_hash)
  <2>1. "INVALID_EVENT_HASH" \notin Signals(es, i)
    BY <1>1 DEF TamperSignals
  <2> QED
    BY <2>1 DEF Signals, TamperSignals
<1>5. es[i].event_hash = compute_hash(es[i])
  <2>1. "EVENT_HASH_MISMATCH" \notin Signals(es, i)
    BY <1>1 DEF TamperSignals
  <2> QED
    BY <2>1, <1>4 DEF Signals, TamperSignals
<1>6. i # 1 => ~(es[i].timestamp < es[i - 1].timestamp)
  <2>1. "TIMESTAMP_REGRESSION" \notin Signals(es, i)
    BY <1>1 DEF TamperSignals
  <2> QED
    BY <2>1 DEF Signals, TamperSignals
<1> QED
  BY <1>2, <1>3, <1>4, <1>5, <1>6 DEF Linked

(***************************************************************************)
(* What append() puts on the chain (ExecutionTrace.append, with_hash).     *)
(***************************************************************************)
LEMMA ChainedFields ==
  ASSUME NEW es, NEW t, NEW d, NEW claimed, NEW e, e = Chained(es, t, d, claimed)
  PROVE  /\ e.sequence = Len(es)
         /\ e.previous_hash = head_hash(es)
         /\ e.timestamp = IF Behind(es, t) THEN es[Len(es)].timestamp ELSE t
         /\ e.evidence = IF Behind(es, t) THEN <<t>> ELSE None
         /\ e.event_hash = compute_hash(e)
         /\ IsHexDigest(e.event_hash)
         /\ IsEvent(e)
<1> DEFINE r == [sequence |-> Len(es), data |-> d, event_hash |-> None,
                 timestamp |-> IF Behind(es, t) THEN es[Len(es)].timestamp ELSE t,
                 evidence |-> IF Behind(es, t) THEN <<t>> ELSE None,
                 previous_hash |-> head_hash(es)]
<1>1. e = [r EXCEPT !.event_hash = compute_hash(r)]
  BY DEF Chained, with_hash
<1>2. /\ e.sequence = r.sequence /\ e.previous_hash = r.previous_hash
      /\ e.timestamp = r.timestamp /\ e.evidence = r.evidence
      /\ e.data = r.data /\ e.event_hash = compute_hash(r)
  BY <1>1
<1>3. hashed_payload(e) = hashed_payload(r)
  BY <1>2 DEF hashed_payload
<1>4. e.event_hash = compute_hash(e)
  BY <1>2, <1>3 DEF compute_hash
<1>5. IsHexDigest(e.event_hash)
  BY <1>4 DEF IsHexDigest, compute_hash, Digest, Garbage
<1>6. IsEvent(e)
  BY <1>1 DEF IsEvent
<1> QED
  BY <1>2, <1>4, <1>5, <1>6

LEMMA InitChain == Init => ChainInv
<1> SUFFICES ASSUME Init PROVE ChainInv
  OBVIOUS
<1>1. EventSeq(events) /\ raw \in Seq(Nat) /\ Len(raw) = Len(events) /\ Len(events) = 0
  <2>1. events \in Seq({})
    BY DEF Init
  <2> QED
    BY <2>1 DEF Init, EventSeq
<1> QED
  BY <1>1 DEF Init, ChainInv, Shape, AllLinked, EvidenceExact, DeclaredFits

LEMMA RecordChain ==
  ASSUME ChainInv, NEW t \in Times, NEW d, NEW claimed, Record(t, d, claimed)
  PROVE  ChainInv'
<1> DEFINE e == Chained(events, t, d, claimed)
           n == Len(events)
<1>1. PICK S : (\A x \in S : IsEvent(x)) /\ events \in Seq(S)
  BY DEF ChainInv, Shape, EventSeq
<1>2. /\ events' = Append(events, e) /\ raw' = Append(raw, t)
      /\ declared = None /\ declared' = None
  BY DEF Record
<1>3. t \in Nat
  BY TraceAssumption
<1>4. /\ e.sequence = n
      /\ e.previous_hash = head_hash(events)
      /\ e.timestamp = IF Behind(events, t) THEN events[n].timestamp ELSE t
      /\ e.evidence = IF Behind(events, t) THEN <<t>> ELSE None
      /\ e.event_hash = compute_hash(e)
      /\ IsHexDigest(e.event_hash)
      /\ IsEvent(e)
  BY ChainedFields
<1> HIDE DEF e
<1>5. /\ n \in Nat /\ events' \in Seq(S \cup {e}) /\ Len(events') = n + 1
      /\ events'[n + 1] = e /\ \A i \in 1 .. n : events'[i] = events[i]
      /\ events = <<>> <=> n = 0
  <2>1. events \in Seq(S \cup {e})
    BY <1>1
  <2> QED
    BY <1>2, <2>1
<1>6. /\ raw' \in Seq(Nat) /\ Len(raw') = n + 1
      /\ raw'[n + 1] = t /\ \A i \in 1 .. n : raw'[i] = raw[i]
  BY <1>2, <1>3 DEF ChainInv, Shape
<1>7. n # 0 => events[n].timestamp \in Nat
  BY <1>5 DEF ChainInv, Shape
<1>8. Behind(events, t) <=> n # 0 /\ t < events[n].timestamp
  BY <1>5 DEF Behind
<1>9. e.timestamp \in Nat /\ (n # 0 => ~(e.timestamp < events[n].timestamp))
  BY <1>3, <1>4, <1>7, <1>8
<1>10. Shape'
  <2>1. \A i \in 1 .. n + 1 : events'[i].timestamp \in Nat
    <3> SUFFICES ASSUME NEW i \in 1 .. n + 1 PROVE events'[i].timestamp \in Nat
      OBVIOUS
    <3>1. CASE i \in 1 .. n
      BY <1>5, <3>1 DEF ChainInv, Shape
    <3>2. CASE i = n + 1
      BY <1>5, <1>9, <3>2
    <3> QED
      BY <1>5, <3>1, <3>2
  <2>2. EventSeq(events')
    <3>1. \A x \in S \cup {e} : IsEvent(x)
      BY <1>1, <1>4
    <3> QED
      BY <1>5, <3>1 DEF EventSeq
  <2> QED
    BY <1>5, <1>6, <2>1, <2>2 DEF Shape
<1>11. AllLinked'
  <2> SUFFICES ASSUME NEW i \in 1 .. n + 1 PROVE Linked(events', i)
    BY <1>5 DEF AllLinked
  <2>1. CASE i \in 1 .. n
    <3>1. Linked(events, i)
      BY <2>1 DEF ChainInv, AllLinked
    <3>2. events'[i] = events[i] /\ (i # 1 => events'[i - 1] = events[i - 1])
      BY <1>5, <2>1
    <3> QED
      BY <3>1, <3>2 DEF Linked, ExpectedPrevious
  <2>2. CASE i = n + 1
    <3>1. events'[i] = e /\ i - 1 = n /\ (i # 1 <=> n # 0)
      BY <1>5, <2>2
    <3>2. n # 0 => events'[i - 1] = events[n]
      BY <1>5, <3>1
    <3>3. e.previous_hash = ExpectedPrevious(events', i)
      BY <1>4, <1>5, <3>1, <3>2 DEF head_hash, ExpectedPrevious
    <3> QED
      BY <1>4, <1>9, <3>1, <3>2, <3>3 DEF Linked
  <2> QED
    BY <1>5, <2>1, <2>2
<1>12. EvidenceExact'
  <2> SUFFICES ASSUME NEW i \in 1 .. n + 1
               PROVE  events'[i].evidence =
                        IF i # 1 /\ raw'[i] < events'[i - 1].timestamp
                          THEN <<raw'[i]>> ELSE None
    BY <1>5 DEF EvidenceExact
  <2>1. CASE i \in 1 .. n
    <3>1. /\ events'[i] = events[i] /\ raw'[i] = raw[i]
          /\ i # 1 => events'[i - 1] = events[i - 1]
      BY <1>5, <1>6, <2>1
    <3> QED
      BY <2>1, <3>1 DEF ChainInv, EvidenceExact
  <2>2. CASE i = n + 1
    <3>1. /\ events'[i] = e /\ raw'[i] = t /\ (i # 1 <=> n # 0)
          /\ n # 0 => events'[i - 1] = events[n]
      BY <1>5, <1>6, <2>2
    <3> QED
      BY <1>4, <1>8, <3>1
  <2> QED
    BY <1>5, <2>1, <2>2
<1>13. DeclaredFits'
  BY <1>2 DEF DeclaredFits
<1> QED
  BY <1>10, <1>11, <1>12, <1>13 DEF ChainInv

LEMMA StepChain == ChainInv /\ [Next]_vars => ChainInv'
<1> SUFFICES ASSUME ChainInv, [Next]_vars PROVE ChainInv'
  OBVIOUS
<1> USE DEF ChainInv, Shape, AllLinked, EvidenceExact, DeclaredFits
<1>1. ASSUME NEW t \in Times, NEW d \in Data,
             NEW claimed \in {None} \cup {<<u>> : u \in Times}, Record(t, d, claimed)
      PROVE  ChainInv'
  BY <1>1, RecordChain
<1>2. CASE Seal
  BY <1>2 DEF Seal
<1>3. CASE Store
  BY <1>3 DEF Store
<1>4. ASSUME NEW es, NEW hash, Alter(es, hash) PROVE ChainInv'
  BY <1>4 DEF Alter
<1>5. CASE Alteration
  BY <1>4, <1>5 DEF Alteration, AlterEvents, Edit, EditTime, Spoil, Rehash, Delete,
                    Insert, Swap, relink, DropFinal, Reseal
<1>6. CASE UNCHANGED vars
  BY <1>6 DEF vars
<1> QED
  BY <1>1, <1>2, <1>3, <1>5, <1>6 DEF Next

THEOREM Chain == Spec => []ChainInv
BY InitChain, StepChain, PTL DEF Spec

(***************************************************************************)
(* A trace nobody altered verifies at every moment, sealed or not,         *)
(* whatever the clock did (ExecutionTrace.append, TraceVerifier.verify).   *)
(***************************************************************************)
THEOREM HonestTraceVerifies == Spec => []HonestVerifies
<1>1. ChainInv => HonestVerifies
  <2> SUFFICES ASSUME ChainInv PROVE HonestVerifies
    OBVIOUS
  <2>1. \A i \in 1 .. Len(events) : Signals(events, i) = {}
    BY LinkedIsSilent DEF ChainInv, AllLinked
  <2>2. FinalSignal(events, declared) = {}
    BY DEF ChainInv, DeclaredFits, FinalSignal
  <2> QED
    BY <2>1, <2>2 DEF HonestVerifies, Valid
<1> QED
  BY <1>1, Chain, PTL

(***************************************************************************)
(* Evidence of a backwards clock is attached exactly to the events whose   *)
(* reading was behind, whatever callers supplied (CLOCK_REGRESSION_KEY).   *)
(***************************************************************************)
THEOREM EvidenceIsExact == Spec => []EvidenceExact
<1>1. ChainInv => EvidenceExact
  BY DEF ChainInv
<1> QED
  BY <1>1, Chain, PTL

(***************************************************************************)
(* Least elements: what replaces induction below.                          *)
(***************************************************************************)
LEMMA LeastElement ==
  ASSUME NEW T \in SUBSET Nat, T # {}
  PROVE  \E x \in T : \A y \in T : x <= y
<1> DEFINE R == OpToRel(<, Nat)
<1>1. IsWellFoundedOn(R, Nat)
  BY NatLessThanWellFounded
<1>2. \A x, y \in Nat : <<y, x>> \in R <=> y < x
  BY DEF OpToRel
<1> HIDE DEF R
<1>3. PICK x \in T : \A y \in T : ~(<<y, x>> \in R)
  BY <1>1, WFMin
<1>4. ASSUME NEW y \in T PROVE x <= y
  <2>1. x \in Nat /\ y \in Nat /\ ~(<<y, x>> \in R)
    BY <1>3
  <2>2. ~(y < x)
    BY <1>2, <2>1
  <2> QED
    BY <2>1, <2>2
<1> QED
  BY <1>4

(***************************************************************************)
(* Equal hashes of linked events are hashes of equal events: Digest is     *)
(* injective and hashed_payload covers everything but the hash.            *)
(***************************************************************************)
LEMMA HashFixesEvent ==
  ASSUME NEW e, NEW f, IsEvent(e), IsEvent(f),
         e.event_hash = compute_hash(e), f.event_hash = compute_hash(f),
         e.event_hash = f.event_hash
  PROVE  e = f
<1>1. hashed_payload(e) = hashed_payload(f)
  BY DEF compute_hash, Digest
<1>2. /\ e.sequence = f.sequence /\ e.timestamp = f.timestamp /\ e.data = f.data
      /\ e.evidence = f.evidence /\ e.previous_hash = f.previous_hash
  BY <1>1 DEF hashed_payload
<1> QED
  BY <1>2 DEF IsEvent

LEMMA EventSeqElements ==
  ASSUME NEW es, EventSeq(es)
  PROVE  Len(es) \in Nat /\ \A i \in 1 .. Len(es) : IsEvent(es[i])
<1>1. PICK S : (\A e \in S : IsEvent(e)) /\ es \in Seq(S)
  BY DEF EventSeq
<1> QED
  BY <1>1

\* Going back from the last differing position: an event fixes its
\* predecessor.
LEMMA EventFixesPrefix ==
  ASSUME NEW es, NEW fs, EventSeq(es), EventSeq(fs),
         NEW n \in Nat, n # 0, n <= Len(es), n <= Len(fs),
         \A i \in 1 .. n : Linked(es, i) /\ Linked(fs, i),
         es[n] = fs[n]
  PROVE  \A i \in 1 .. n : es[i] = fs[i]
<1> DEFINE T == {k \in Nat : k < n /\ es[n - k] # fs[n - k]}
<1>1. CASE T = {}
  <2> SUFFICES ASSUME NEW i \in 1 .. n PROVE es[i] = fs[i]
    OBVIOUS
  <2>1. n - i \in Nat /\ n - i < n /\ n - (n - i) = i
    OBVIOUS
  <2> QED
    BY <1>1, <2>1
<1>2. CASE T # {}
  <2>1. PICK k \in T : \A y \in T : k <= y
    BY <1>2, LeastElement
  <2>2. k \in Nat /\ k < n /\ es[n - k] # fs[n - k] /\ k # 0
    BY <2>1
  <2>3. k - 1 \in Nat /\ k - 1 < n /\ ~(k <= k - 1)
    BY <2>2
  <2>4. k - 1 \notin T
    BY <2>1, <2>3
  <2>5. es[n - (k - 1)] = fs[n - (k - 1)]
    BY <2>3, <2>4
  <2> DEFINE j == n - k
  <2>6. j \in 1 .. n /\ j + 1 \in 1 .. n /\ n - (k - 1) = j + 1 /\ (j + 1) - 1 = j /\ j + 1 # 1
    BY <2>2
  <2>7. es[j] # fs[j] /\ es[j + 1] = fs[j + 1]
    BY <2>2, <2>5, <2>6
  <2> HIDE DEF j, T
  <2>8. es[j + 1].previous_hash = es[j].event_hash
    BY <2>6 DEF Linked, ExpectedPrevious
  <2>9. fs[j + 1].previous_hash = fs[j].event_hash
    BY <2>6 DEF Linked, ExpectedPrevious
  <2>10. /\ es[j].event_hash = compute_hash(es[j])
         /\ fs[j].event_hash = compute_hash(fs[j])
    BY <2>6 DEF Linked
  <2>11. IsEvent(es[j]) /\ IsEvent(fs[j])
    <3>1. j \in 1 .. Len(es) /\ j \in 1 .. Len(fs)
      BY <2>6, EventSeqElements
    <3> QED
      BY <3>1, EventSeqElements
  <2> QED
    BY <2>7, <2>8, <2>9, <2>10, <2>11, HashFixesEvent
<1> QED
  BY <1>1, <1>2

(***************************************************************************)
(* Alterations keep the form of an event.                                  *)
(***************************************************************************)
LEMMA SetEvent ==
  ASSUME NEW es, EventSeq(es), NEW i \in 1 .. Len(es), NEW e, IsEvent(e)
  PROVE  EventSeq([es EXCEPT ![i] = e])
<1>1. PICK S : (\A x \in S : IsEvent(x)) /\ es \in Seq(S)
  BY DEF EventSeq
<1>2. [es EXCEPT ![i] = e] \in Seq(S \cup {e})
  <2>1. es \in Seq(S \cup {e})
    BY <1>1
  <2> QED
    BY <2>1
<1>3. \A x \in S \cup {e} : IsEvent(x)
  BY <1>1
<1> QED
  BY <1>2, <1>3 DEF EventSeq

LEMMA WithoutEvent ==
  ASSUME NEW es, EventSeq(es), NEW i \in 1 .. Len(es)
  PROVE  EventSeq(Without(es, i))
<1>1. PICK S : (\A x \in S : IsEvent(x)) /\ es \in Seq(S)
  BY DEF EventSeq
<1>2. SubSeq(es, 1, i - 1) \in Seq(S) /\ SubSeq(es, i + 1, Len(es)) \in Seq(S)
  BY <1>1
<1>3. Without(es, i) \in Seq(S)
  BY <1>2 DEF Without
<1> QED
  BY <1>1, <1>3 DEF EventSeq

LEMMA WithEventBefore ==
  ASSUME NEW es, EventSeq(es), NEW i \in 1 .. Len(es), NEW j \in 1 .. Len(es)
  PROVE  EventSeq(WithBefore(es, i, es[j]))
<1>1. PICK S : (\A x \in S : IsEvent(x)) /\ es \in Seq(S)
  BY DEF EventSeq
<1>2. SubSeq(es, 1, i - 1) \in Seq(S) /\ SubSeq(es, i, Len(es)) \in Seq(S)
  BY <1>1
<1>3. <<es[j]>> \in Seq(S)
  BY <1>1
<1>4. WithBefore(es, i, es[j]) \in Seq(S)
  BY <1>2, <1>3 DEF WithBefore
<1> QED
  BY <1>1, <1>4 DEF EventSeq

LEMMA ReplacedFields ==
  ASSUME NEW e, IsEvent(e), NEW v, NEW w
  PROVE  /\ IsEvent([e EXCEPT !.data = v])
         /\ IsEvent([e EXCEPT !.timestamp = v])
         /\ IsEvent([e EXCEPT !.event_hash = v])
         /\ IsEvent(with_hash(e))
<1> DEFINE Rec(a, b, c, d, f, g) ==
             [sequence |-> a, timestamp |-> b, data |-> c, evidence |-> d,
              previous_hash |-> f, event_hash |-> g]
<1>1. \A a, b, c, d, f, g : IsEvent(Rec(a, b, c, d, f, g))
  BY DEF IsEvent
<1>2. e = Rec(e.sequence, e.timestamp, e.data, e.evidence, e.previous_hash, e.event_hash)
  BY DEF IsEvent
<1>3. \A x : [e EXCEPT !.event_hash = x] =
              Rec(e.sequence, e.timestamp, e.data, e.evidence, e.previous_hash, x)
  BY <1>2
<1>4. [e EXCEPT !.data = v] =
      Rec(e.sequence, e.timestamp, v, e.evidence, e.previous_hash, e.event_hash)
  BY <1>2
<1>5. [e EXCEPT !.timestamp = v] =
      Rec(e.sequence, v, e.data, e.evidence, e.previous_hash, e.event_hash)
  BY <1>2
<1> HIDE DEF Rec
<1> QED
  BY <1>1, <1>3, <1>4, <1>5 DEF with_hash

LEMMA PlacedIsEvent ==
  ASSUME NEW e, NEW i, NEW previous
  PROVE  IsEvent(Placed(e, i, previous))
<1> DEFINE r == [sequence |-> i - 1, timestamp |-> e.timestamp, data |-> e.data,
                 evidence |-> e.evidence, event_hash |-> None,
                 previous_hash |-> previous]
<1>1. Placed(e, i, previous) = [r EXCEPT !.event_hash = compute_hash(r)]
  BY DEF Placed, with_hash
<1> QED
  BY <1>1 DEF IsEvent

(***************************************************************************)
(* relink() is defined: its loop has a result of the same length, whose    *)
(* elements are events (ExecutionTrace.relink).                            *)
(***************************************************************************)
RelinkStep(es, start, r, i) ==
  IF i < start THEN es[i]
  ELSE Placed(es[i], i, IF i = 1 THEN GENESIS_HASH ELSE r[i - 1].event_hash)

LEMMA RelinkedExists ==
  ASSUME NEW es, NEW start, NEW n \in Nat
  PROVE  \E r : r = [i \in 1 .. n |-> RelinkStep(es, start, r, i)]
<1> DEFINE Upto(m) == \E r : r = [i \in 1 .. m |-> RelinkStep(es, start, r, i)]
           T == {m \in Nat : ~Upto(m)}
<1>1. Upto(0)
  <2>1. <<>> = [i \in 1 .. 0 |-> RelinkStep(es, start, <<>>, i)]
    OBVIOUS
  <2> QED
    BY <2>1
<1>2. ASSUME NEW m \in Nat, Upto(m) PROVE Upto(m + 1)
  <2>1. PICK r : r = [i \in 1 .. m |-> RelinkStep(es, start, r, i)]
    BY <1>2
  <2> DEFINE q == [i \in 1 .. m + 1 |-> RelinkStep(es, start, r, i)]
  <2>2. \A i \in 1 .. m : q[i] = r[i]
    BY <2>1
  <2>3. \A i \in 1 .. m + 1 : i # 1 => i - 1 \in 1 .. m
    OBVIOUS
  <2>4. \A i \in 1 .. m + 1 : RelinkStep(es, start, q, i) = RelinkStep(es, start, r, i)
    <3> HIDE DEF q
    <3> QED
      BY <2>2, <2>3 DEF RelinkStep
  <2>5. q = [i \in 1 .. m + 1 |-> RelinkStep(es, start, q, i)]
    BY <2>4
  <2> QED
    BY <2>5
<1>3. CASE T = {}
  BY <1>3
<1>4. CASE T # {}
  <2>1. PICK k \in T : \A y \in T : k <= y
    BY <1>4, LeastElement
  <2>2. k \in Nat /\ ~Upto(k)
    BY <2>1
  <2> HIDE DEF Upto
  <2>3. k # 0
    BY <1>1, <2>2
  <2>4. k - 1 \in Nat /\ ~(k <= k - 1) /\ (k - 1) + 1 = k
    BY <2>2, <2>3
  <2>5. Upto(k - 1)
    BY <2>1, <2>4
  <2> QED
    BY <1>2, <2>2, <2>4, <2>5
<1> QED
  BY <1>3, <1>4

LEMMA RelinkedEvents ==
  ASSUME NEW es, EventSeq(es), NEW start
  PROVE  EventSeq(Relinked(es, start))
<1> DEFINE n == Len(es)
           r == Relinked(es, start)
<1>1. PICK S : (\A x \in S : IsEvent(x)) /\ es \in Seq(S)
  BY DEF EventSeq
<1>2. n \in Nat
  BY <1>1
<1>3. Relinked(es, start) =
        CHOOSE q : q = [i \in 1 .. Len(es) |-> RelinkStep(es, start, q, i)]
  BY DEF Relinked, RelinkStep
<1>4. r = [i \in 1 .. n |-> RelinkStep(es, start, r, i)]
  BY <1>2, <1>3, RelinkedExists
<1> HIDE DEF r
<1>5. \A i \in 1 .. n : IsEvent(r[i])
  BY <1>1, <1>4, PlacedIsEvent DEF RelinkStep
<1>6. r \in Seq({r[i] : i \in 1 .. n})
  BY <1>2, <1>4
<1> QED
  BY <1>5, <1>6 DEF EventSeq, r

(***************************************************************************)
(* Every alteration keeps FileInv.                                         *)
(***************************************************************************)
LEMMA AlterKeepsFile ==
  ASSUME FileInv, NEW es, EventSeq(es), NEW hash, Alter(es, hash)
  PROVE  FileInv'
<1>1. copy'.events = es /\ UNCHANGED <<original, published, stored>>
  BY DEF Alter
<1> QED
  BY <1>1 DEF FileInv

LEMMA AlterationKeepsFile ==
  ASSUME FileInv, Alteration
  PROVE  FileInv'
<1> DEFINE es == copy.events
<1>0. EventSeq(es) /\ Len(es) \in Nat /\ \A i \in 1 .. Len(es) : IsEvent(es[i])
  BY EventSeqElements DEF FileInv
<1>1. ASSUME NEW i \in 1 .. Len(es), NEW d, Edit(i, d) PROVE FileInv'
  <2>1. Alter([es EXCEPT ![i] = [es[i] EXCEPT !.data = d]], copy.declared)
    BY <1>1 DEF Edit, AlterEvents
  <2>2. EventSeq([es EXCEPT ![i] = [es[i] EXCEPT !.data = d]])
    BY <1>0, SetEvent, ReplacedFields
  <2> QED
    BY <2>1, <2>2, AlterKeepsFile
<1>2. ASSUME NEW i \in 1 .. Len(es), NEW t, EditTime(i, t) PROVE FileInv'
  <2>1. Alter([es EXCEPT ![i] = [es[i] EXCEPT !.timestamp = t]], copy.declared)
    BY <1>2 DEF EditTime, AlterEvents
  <2>2. EventSeq([es EXCEPT ![i] = [es[i] EXCEPT !.timestamp = t]])
    BY <1>0, SetEvent, ReplacedFields
  <2> QED
    BY <2>1, <2>2, AlterKeepsFile
<1>3. ASSUME NEW i \in 1 .. Len(es), Spoil(i) PROVE FileInv'
  <2>1. Alter([es EXCEPT ![i] = [es[i] EXCEPT !.event_hash = Garbage]], copy.declared)
    BY <1>3 DEF Spoil, AlterEvents
  <2>2. EventSeq([es EXCEPT ![i] = [es[i] EXCEPT !.event_hash = Garbage]])
    BY <1>0, SetEvent, ReplacedFields
  <2> QED
    BY <2>1, <2>2, AlterKeepsFile
<1>4. ASSUME NEW i \in 1 .. Len(es), Rehash(i) PROVE FileInv'
  <2>1. Alter([es EXCEPT ![i] = with_hash(es[i])], copy.declared)
    BY <1>4 DEF Rehash, AlterEvents
  <2>2. EventSeq([es EXCEPT ![i] = with_hash(es[i])])
    BY <1>0, SetEvent, ReplacedFields
  <2> QED
    BY <2>1, <2>2, AlterKeepsFile
<1>5. ASSUME NEW i \in 1 .. Len(es), Delete(i) PROVE FileInv'
  BY <1>0, <1>5, WithoutEvent, AlterKeepsFile DEF Delete, AlterEvents
<1>6. ASSUME NEW i \in 1 .. Len(es), NEW j \in 1 .. Len(es), Insert(i, j) PROVE FileInv'
  BY <1>0, <1>6, WithEventBefore, AlterKeepsFile DEF Insert, AlterEvents
<1>7. ASSUME NEW i \in 1 .. Len(es), Swap(i) PROVE FileInv'
  <2> DEFINE fs == [k \in 1 .. Len(es) |->
                      es[IF k = i THEN i + 1 ELSE IF k = i + 1 THEN i ELSE k]]
  <2>1. i < Len(es) /\ Alter(fs, copy.declared)
    BY <1>7 DEF Swap, AlterEvents
  <2>2. PICK S : (\A x \in S : IsEvent(x)) /\ es \in Seq(S)
    BY <1>0 DEF EventSeq
  <2>3. fs \in Seq(S)
    BY <1>0, <2>1, <2>2
  <2>4. EventSeq(fs)
    BY <2>2, <2>3 DEF EventSeq
  <2> QED
    BY <2>1, <2>4, AlterKeepsFile
<1>8. ASSUME NEW i \in 1 .. Len(es), relink(i) PROVE FileInv'
  BY <1>0, <1>8, RelinkedEvents, AlterKeepsFile DEF relink, AlterEvents
<1>9. CASE DropFinal
  BY <1>0, <1>9, AlterKeepsFile DEF DropFinal
<1>10. CASE Reseal
  BY <1>0, <1>10, AlterKeepsFile DEF Reseal
<1> QED
  BY <1>1, <1>2, <1>3, <1>4, <1>5, <1>6, <1>7, <1>8, <1>9, <1>10 DEF Alteration, Positions

LEMMA InitFile == Init => FileInv
<1> SUFFICES ASSUME Init PROVE FileInv
  OBVIOUS
<1>1. original \in Seq({}) /\ copy.events \in Seq({}) /\ Len(original) = 0
  BY DEF Init
<1> QED
  BY <1>1 DEF Init, FileInv, EventSeq

LEMMA StepFile == ChainInv /\ FileInv /\ [Next]_vars => FileInv'
<1> SUFFICES ASSUME ChainInv, FileInv, [Next]_vars PROVE FileInv'
  OBVIOUS
<1>1. ASSUME NEW t, NEW d, NEW claimed, Record(t, d, claimed) PROVE FileInv'
  BY <1>1 DEF Record, FileInv
<1>2. CASE Seal
  BY <1>2 DEF Seal, FileInv
<1>3. CASE Store
  <2>1. /\ original' = events /\ copy'.events = events /\ stored' = TRUE
        /\ published' = IF declared # None THEN declared ELSE compute_final_hash(events)
    BY <1>3 DEF Store
  <2>2. published' = compute_final_hash(original')
    BY <2>1 DEF ChainInv, DeclaredFits
  <2> QED
    BY <2>1, <2>2 DEF FileInv, ChainInv, Shape, AllLinked
<1>4. CASE Alteration
  BY <1>4, AlterationKeepsFile
<1>5. CASE UNCHANGED vars
  BY <1>5 DEF vars, FileInv
<1> QED
  BY <1>1, <1>2, <1>3, <1>4, <1>5 DEF Next

THEOREM File == Spec => []FileInv
BY InitFile, StepFile, Chain, PTL DEF Spec

(***************************************************************************)
(* However often and however a stored trace was altered, an intact event   *)
(* of it with no signal up to it vouches for all events before it          *)
(* (TraceVerifier.verify; hashed_payload includes previous_hash).          *)
(***************************************************************************)
THEOREM IntactEventVouches == Spec => []ChainFixesPrefix
<1>1. FileInv => ChainFixesPrefix
  <2> SUFFICES ASSUME FileInv, NEW n \in 1 .. Len(copy.events),
                      \A i \in 1 .. n : Signals(copy.events, i) = {},
                      n <= Len(original), copy.events[n] = original[n]
               PROVE  SubSeq(copy.events, 1, n) = SubSeq(original, 1, n)
    BY DEF ChainFixesPrefix
  <2> DEFINE es == copy.events
  <2>1. /\ EventSeq(es) /\ EventSeq(original)
        /\ Len(es) \in Nat /\ Len(original) \in Nat
    BY EventSeqElements DEF FileInv
  <2>2. n \in Nat /\ n # 0 /\ n <= Len(es)
    BY <2>1
  <2>3. \A i \in 1 .. n : Linked(es, i) /\ Linked(original, i)
    BY <2>1, <2>2, SilentIsLinked DEF FileInv
  <2>4. \A i \in 1 .. n : es[i] = original[i]
    BY <2>1, <2>2, <2>3, EventFixesPrefix
  <2>5. PICK S : es \in Seq(S)
    BY <2>1 DEF EventSeq
  <2>6. PICK S1 : original \in Seq(S1)
    BY <2>1 DEF EventSeq
  <2>7. SubSeq(es, 1, n) = [i \in 1 .. n |-> es[i]]
    BY <2>2, <2>5
  <2>8. SubSeq(original, 1, n) = [i \in 1 .. n |-> original[i]]
    BY <2>2, <2>6
  <2> QED
    BY <2>4, <2>7, <2>8
<1> QED
  BY <1>1, File, PTL

(***************************************************************************)
(* A copy that verifies under the published hash holds exactly the events  *)
(* that were stored, however it was altered (compute_final_hash, verify).  *)
(***************************************************************************)
THEOREM AlterationIsDetected == Spec => []AlterationDetected
<1>1. FileInv => AlterationDetected
  <2> SUFFICES ASSUME FileInv, stored, copy.declared = published,
                      Valid(copy.events, copy.declared)
               PROVE  copy.events = original
    BY DEF AlterationDetected
  <2> DEFINE es == copy.events
             n == Len(original)
  <2>1. /\ EventSeq(es) /\ EventSeq(original)
        /\ Len(es) \in Nat /\ n \in Nat
    BY EventSeqElements DEF FileInv
  <2>2. published = compute_final_hash(original) /\ published # None
    <3>1. published = compute_final_hash(original)
      BY DEF FileInv
    <3>2. \A x : Digest(x) # None
      BY DEF Digest, None
    <3> QED
      BY <3>1, <3>2 DEF compute_final_hash
  <2>3. compute_final_hash(es) = compute_final_hash(original)
    BY <2>2 DEF Valid, FinalSignal
  <2>4. Len(es) = n /\ head_hash(es) = head_hash(original)
    BY <2>3 DEF compute_final_hash, Digest
  <2>5. PICK S : es \in Seq(S)
    BY <2>1 DEF EventSeq
  <2>6. PICK S1 : original \in Seq(S1)
    BY <2>1 DEF EventSeq
  <2>7. CASE n = 0
    BY <2>4, <2>5, <2>6, <2>7
  <2>8. CASE n # 0
    <3>1. es # <<>> /\ original # <<>>
      BY <2>4, <2>8
    <3>2. es[n].event_hash = original[n].event_hash
      BY <2>4, <3>1 DEF head_hash
    <3>3. \A i \in 1 .. n : Linked(es, i) /\ Linked(original, i)
      BY <2>4, SilentIsLinked DEF FileInv, Valid
    <3>4. n \in 1 .. n
      BY <2>1, <2>8
    <3>5. IsEvent(es[n]) /\ IsEvent(original[n])
      BY <2>1, <2>4, <3>4, EventSeqElements
    <3>6. es[n] = original[n]
      BY <3>2, <3>3, <3>4, <3>5, HashFixesEvent DEF Linked
    <3>7. \A i \in 1 .. n : es[i] = original[i]
      BY <2>1, <2>4, <2>8, <3>3, <3>6, EventFixesPrefix
    <3> QED
      BY <2>1, <2>4, <2>5, <2>6, <3>7
  <2> QED
    BY <2>7, <2>8
<1> QED
  BY <1>1, File, PTL
=============================================================================
