-------------------------------- MODULE Trace --------------------------------
(***************************************************************************)
(* The proof of execution (poe/trace.py, poe/recorder.py, poe/event.py,    *)
(* poe/verifier.py): an append-only chain of events, sealed by a final     *)
(* hash, written to a file, and verified by whoever reads the file back.   *)
(*                                                                         *)
(* Digest stands for SHA-256 over the canonical encoding.  It is           *)
(* injective: that two payloads never share a digest is the one            *)
(* cryptographic assumption of the module.  What an event says is one      *)
(* element of Data; only sequence, time, the clock-regression evidence and *)
(* the two hashes are told apart.  The copy that is read back may have     *)
(* been altered on disk, by several alterations in a row.                  *)
(***************************************************************************)
EXTENDS Naturals, Sequences

CONSTANTS
  Data,        \* what an event says
  Times,       \* readings of the wall clock
  MaxEvents,   \* bound: events in a trace
  MaxEdits     \* bound: alterations of the stored copy

ASSUME TraceAssumption ==
  /\ Times \subseteq Nat
  /\ MaxEvents \in Nat /\ MaxEdits \in Nat

VARIABLES
  events, declared,  \* the recorder's trace: events, declared_final_hash
  raw,               \* history: the clock reading behind each event
  original,          \* history: the events as they were stored
  published,         \* history: the final hash as it was stored
  stored, copy,      \* the file: written, and what from_dict reads back
  edits              \* alterations still to come

vars == <<events, declared, raw, original, published, stored, copy, edits>>

\* The absence of a hash or of evidence.
None == <<>>

(***************************************************************************)
(* Hashing.                                                                *)
(***************************************************************************)
Digest(x) == <<"sha256", x>>
GENESIS_HASH == <<"genesis">>

\* A stored hash that is not 64 hexadecimal characters.
Garbage == <<"garbage">>
IsHexDigest(h) == h # Garbage

hashed_payload(e) ==
  [sequence |-> e.sequence, timestamp |-> e.timestamp, data |-> e.data,
   evidence |-> e.evidence, previous_hash |-> e.previous_hash]

compute_hash(e) == Digest(hashed_payload(e))

with_hash(e) == [e EXCEPT !.event_hash = compute_hash(e)]

head_hash(es) == IF es = <<>> THEN GENESIS_HASH ELSE es[Len(es)].event_hash

compute_final_hash(es) == Digest([event_count |-> Len(es), final_event_hash |-> head_hash(es)])

(***************************************************************************)
(* append().  A reading behind the newest event is clamped and kept as     *)
(* evidence; whatever the caller supplied as evidence is dropped.          *)
(***************************************************************************)
Behind(es, t) == es # <<>> /\ t < es[Len(es)].timestamp

\* Faulty variant: the evidence of a backwards step is not attached.
ChainedSilently(es, t, d, claimed) ==
  with_hash([sequence |-> Len(es), data |-> d, event_hash |-> None,
             timestamp |-> IF Behind(es, t) THEN es[Len(es)].timestamp ELSE t,
             evidence |-> claimed,
             previous_hash |-> head_hash(es)])

\* Faulty variant: the reading is stored as it came.
ChainedUnclamped(es, t, d, claimed) ==
  with_hash([sequence |-> Len(es), data |-> d, event_hash |-> None,
             timestamp |-> t,
             evidence |-> IF Behind(es, t) THEN <<t>> ELSE None,
             previous_hash |-> head_hash(es)])

Chained(es, t, d, claimed) ==
  with_hash([sequence |-> Len(es), data |-> d, event_hash |-> None,
             timestamp |-> IF Behind(es, t) THEN es[Len(es)].timestamp ELSE t,
             evidence |-> IF Behind(es, t) THEN <<t>> ELSE None,
             previous_hash |-> head_hash(es)])

Init ==
  /\ events = <<>> /\ declared = None
  /\ raw = <<>>
  /\ original = <<>> /\ published = None
  /\ stored = FALSE /\ copy = [events |-> <<>>, declared |-> None]
  /\ edits = MaxEdits

\* Recorder.record: stamped and appended in one critical section.  A sealed
\* trace raises and nothing changes.
Record(t, d, claimed) ==
  /\ declared = None /\ Len(events) < MaxEvents
  /\ events' = Append(events, Chained(events, t, d, claimed))
  /\ raw' = Append(raw, t)
  /\ UNCHANGED <<declared, original, published, stored, copy, edits>>

Seal ==
  /\ declared' = compute_final_hash(events)
  /\ UNCHANGED <<events, raw, original, published, stored, copy, edits>>

\* to_json to a file, and what from_dict makes of it.  An unsealed trace is
\* stored with the hash of the moment.
Store ==
  /\ ~stored /\ stored' = TRUE
  /\ original' = events
  /\ published' = IF declared # None THEN declared ELSE compute_final_hash(events)
  /\ copy' = [events |-> events, declared |-> published']
  /\ UNCHANGED <<events, declared, raw, edits>>

(***************************************************************************)
(* verify().  Positions count from 1; the position of a signal about the   *)
(* whole trace is one past the last event.                                 *)
(***************************************************************************)
ExpectedPrevious(es, i) == IF i = 1 THEN GENESIS_HASH ELSE es[i - 1].event_hash

TamperSignals ==
  {"NON_CONTIGUOUS_SEQUENCE", "INVALID_GENESIS_LINK", "BROKEN_PREVIOUS_HASH",
   "INVALID_EVENT_HASH", "EVENT_HASH_MISMATCH", "TIMESTAMP_REGRESSION"}

\* Faulty variant: links are followed from the first event only.
SignalsUnlinked(es, i) ==
  {s \in TamperSignals :
     CASE s = "NON_CONTIGUOUS_SEQUENCE" -> es[i].sequence # i - 1
       [] s = "INVALID_GENESIS_LINK" -> i = 1 /\ es[i].previous_hash # GENESIS_HASH
       [] s = "BROKEN_PREVIOUS_HASH" -> FALSE
       [] s = "INVALID_EVENT_HASH" -> ~IsHexDigest(es[i].event_hash)
       [] s = "EVENT_HASH_MISMATCH" ->
            IsHexDigest(es[i].event_hash) /\ es[i].event_hash # compute_hash(es[i])
       [] s = "TIMESTAMP_REGRESSION" -> i # 1 /\ es[i].timestamp < es[i - 1].timestamp}

Signals(es, i) ==
  {s \in TamperSignals :
     CASE s = "NON_CONTIGUOUS_SEQUENCE" -> es[i].sequence # i - 1
       [] s = "INVALID_GENESIS_LINK" -> i = 1 /\ es[i].previous_hash # GENESIS_HASH
       [] s = "BROKEN_PREVIOUS_HASH" ->
            i # 1 /\ es[i].previous_hash # ExpectedPrevious(es, i)
       [] s = "INVALID_EVENT_HASH" -> ~IsHexDigest(es[i].event_hash)
       [] s = "EVENT_HASH_MISMATCH" ->
            IsHexDigest(es[i].event_hash) /\ es[i].event_hash # compute_hash(es[i])
       [] s = "TIMESTAMP_REGRESSION" -> i # 1 /\ es[i].timestamp < es[i - 1].timestamp}

\* Faulty variant: the declared hash is taken on trust.
FinalTrusted(es, hash) == {}

FinalSignal(es, hash) ==
  IF hash # None /\ hash # compute_final_hash(es) THEN {"INVALID_FINAL_TRACE_HASH"} ELSE {}

Valid(es, hash) == (\A i \in 1 .. Len(es) : Signals(es, i) = {}) /\ FinalSignal(es, hash) = {}

(***************************************************************************)
(* What may happen to the stored copy.                                     *)
(***************************************************************************)
Alter(es, hash) ==
  /\ stored /\ edits > 0
  /\ copy' = [events |-> es, declared |-> hash]
  /\ edits' = edits - 1
  /\ UNCHANGED <<events, declared, raw, original, published, stored>>

AlterEvents(es) == Alter(es, copy.declared)

Without(es, i) == SubSeq(es, 1, i - 1) \o SubSeq(es, i + 1, Len(es))
WithBefore(es, i, e) == SubSeq(es, 1, i - 1) \o <<e>> \o SubSeq(es, i, Len(es))

Edit(i, d) == AlterEvents([copy.events EXCEPT ![i].data = d])
EditTime(i, t) == AlterEvents([copy.events EXCEPT ![i].timestamp = t])
Spoil(i) == AlterEvents([copy.events EXCEPT ![i].event_hash = Garbage])
Rehash(i) == AlterEvents([copy.events EXCEPT ![i] = with_hash(@)])
Delete(i) == AlterEvents(Without(copy.events, i))
Insert(i, j) == AlterEvents(WithBefore(copy.events, i, copy.events[j]))
Swap(i) ==
  /\ i < Len(copy.events)
  /\ AlterEvents([k \in 1 .. Len(copy.events) |->
                    copy.events[IF k = i THEN i + 1 ELSE IF k = i + 1 THEN i ELSE k]])

\* An event moved to position i, behind the event with hash previous.
Placed(e, i, previous) ==
  with_hash([sequence |-> i - 1, timestamp |-> e.timestamp, data |-> e.data,
             evidence |-> e.evidence, event_hash |-> None, previous_hash |-> previous])

\* relink(start): sequence numbers and links are rebuilt from start on.
Relinked(es, start) ==
  LET r[i \in 1 .. Len(es)] ==
        IF i < start THEN es[i]
        ELSE Placed(es[i], i, IF i = 1 THEN GENESIS_HASH ELSE r[i - 1].event_hash)
  IN  r

relink(start) == AlterEvents(Relinked(copy.events, start))

\* The declared hash is dropped, or made to fit.
DropFinal == Alter(copy.events, None)
Reseal == Alter(copy.events, compute_final_hash(copy.events))

Positions == 1 .. Len(copy.events)

Alteration ==
  \/ \E i \in Positions :
       \/ \E d \in Data : Edit(i, d)
       \/ \E t \in Times : EditTime(i, t)
       \/ Spoil(i) \/ Rehash(i) \/ Delete(i) \/ Swap(i) \/ relink(i)
       \/ \E j \in Positions : Insert(i, j)
  \/ DropFinal \/ Reseal

Next ==
  \/ \E t \in Times, d \in Data, claimed \in {None} \cup {<<t>> : t \in Times} :
       Record(t, d, claimed)
  \/ Seal \/ Store \/ Alteration

Spec == Init /\ [][Next]_vars

(***************************************************************************)
(* Properties.                                                             *)
(***************************************************************************)
\* A trace nobody touched verifies at every moment, however the clock moved
\* and whatever callers claimed about it (append, verify).
HonestVerifies == Valid(events, declared)

\* Evidence of a backwards clock is there exactly for the readings behind the
\* newest event, and holds that reading: callers can neither forge nor
\* suppress it (CLOCK_REGRESSION_KEY).
EvidenceExact ==
  \A i \in 1 .. Len(events) :
    LET behind == i # 1 /\ raw[i] < events[i - 1].timestamp
    IN  events[i].evidence = IF behind THEN <<raw[i]>> ELSE None

\* A copy whose declared hash is still the published one verifies only if
\* its events are the stored ones: no sequence of alterations, with or
\* without rebuilding the chain, leaves it valid.
AlterationDetected ==
  stored /\ copy.declared = published /\ Valid(copy.events, copy.declared) =>
    copy.events = original

\* An intact event vouches for everything before it: if a copy, even one
\* that lost its declared hash, has no signal up to position n and holds the
\* stored event there, all its events up to n are the stored ones
\* (hashed_payload includes previous_hash).
ChainFixesPrefix ==
  stored =>
    \A n \in 1 .. Len(copy.events) :
      /\ \A i \in 1 .. n : Signals(copy.events, i) = {}
      /\ n <= Len(original) /\ copy.events[n] = original[n]
      => SubSeq(copy.events, 1, n) = SubSeq(original, 1, n)
=============================================================================
