-------------------------- MODULE IpcClientProofs --------------------------
(***************************************************************************)
(* Proofs about IpcClient, for any number of callers, connections, request *)
(* ids, peers and frames, any size of the replay cache, fail open or not.  *)
(*                                                                         *)
(* The inductive invariant Inv says what the lock protects (Locked), what  *)
(* close() leaves (Closing), what a connection carries (Lines), that a     *)
(* request id is owed one answer on one connection (Once), how far the     *)
(* exchange in progress has come (Talk) and what the threads were told     *)
(* (Heard); and of the replay cache, what the workers between its two      *)
(* halves know (Tested) and where an accepted id is found (Remembered).    *)
(*                                                                         *)
(* A step is one of five kinds (NextKinds): a request ends, goes on, a     *)
(* thread acts outside a request, the serving side acts, or what strays    *)
(* from a request (an abandoned connect(), a frame that has begun); each   *)
(* kind has a lemma that says what it changes, and each conjunct of Inv a  *)
(* lemma that no kind breaks it.                                           *)
(***************************************************************************)
EXTENDS IpcClient, Integers, SequenceTheorems, TLAPS

\* A thread inside a request is at one of these.
Busy == {"ensure", "greet", "send", "await"}
\* A worker that holds a frame is at one of these.
InHand == {"test", "insert", "dispatch"}

\* The lock belongs to the thread inside a request; the client's ends that are
\* open are those of the connection kept and of the one in use.
Locked ==
  /\ \A t \in Threads : pc[t] \in Busy <=> lock = t
  /\ lock = None => cur = None
  /\ lock # None => (cur = None <=> pc[lock] = "ensure")
  /\ lock # None /\ pc[lock] = "greet" => conn = None
  /\ lock # None /\ pc[lock] \in {"send", "await"} => conn = cur
  /\ near = Peers \cup {c \in Links : c = conn \/ c = cur}
  /\ conn # None => conn <= opened
  /\ cur # None => cur <= opened

\* close() sets _closed before it drops the connection, and nothing reopens it.
Closing ==
  /\ pc[Owner] \in {"drop", "closed"} => closed
  /\ pc[Owner] = "closed" => conn = None /\ cur = None

\* A connection carries one frame at a time towards the server, good if it is
\* the client's, and nothing before it is opened.
LineOf(c) ==
  /\ up[c] # <<>> => Len(up[c]) = 1 /\ wpc[c] \in {"hello", "loop"}
  /\ wpc[c] = "loop" /\ up[c] # <<>> /\ up[c][1].form = "good" => up[c][1].id \in Ids
  /\ wpc[c] \in InHand => wreq[c] \in Frames /\ wreq[c].id \in Ids
  /\ c \in Links /\ up[c] # <<>> => up[c][1].form = "good"
  /\ c \in Links /\ opened < c => wpc[c] = "none" /\ up[c] = <<>> /\ down[c] = <<>>
  /\ c \in Peers => wpc[c] \notin {"none", "hello"}

\* Every connection.
Lines == \A c \in Conns : LineOf(c)

\* The server holds, or is about to read, request i on connection c.
Outstanding(c, i) ==
  \/ wpc[c] = "loop" /\ up[c] # <<>> /\ up[c][1].id = i
  \/ wpc[c] \in InHand /\ wreq[c].id = i

\* A request id is outstanding on one connection at most and is undecided until
\* it is answered; ids not yet handed out are undecided.
Once ==
  /\ \A c \in Links, i \in Ids : Outstanding(c, i) => i <= used /\ said[i] = "none"
  /\ \A c, d \in Links, i \in Ids : Outstanding(c, i) /\ Outstanding(d, i) => c = d
  /\ \A i \in Ids : used < i => said[i] = "none"

\* A connection between requests: nothing in transit and no answer owed.
Rest(c) == wpc[c] \in {"loop", "gone"} /\ up[c] = <<>> /\ down[c] = <<>>

\* An answer to request i: its own id, and the decision the daemon took.
Truthful(m, i) == m.id = i /\ (m.ok => m.decision \in Decisions /\ said[i] = m.decision)

\* HELLO was sent on the connection in use: unread, or answered once at most.
Greeting ==
  \/ wpc[cur] = "hello" /\ down[cur] = <<>>
  \/ wpc[cur] \in {"loop", "gone"} /\ up[cur] = <<>> /\ (down[cur] # <<>> => Len(down[cur]) = 1)

\* Request rid was sent on the connection in use: still outstanding, or over with
\* one answer at most, and that one truthful.
Awaiting ==
  /\ rid \in Ids /\ rid <= used
  /\ \/ Outstanding(cur, rid) /\ down[cur] = <<>>
     \/ /\ wpc[cur] \in {"loop", "gone"} /\ up[cur] = <<>>
        /\ down[cur] # <<>> => Len(down[cur]) = 1 /\ Truthful(down[cur][1], rid)

\* The exchange in progress, by the position of the lock's holder.
Talk ==
  /\ conn # None /\ (lock = None \/ pc[lock] \in {"ensure", "send"}) => Rest(conn)
  /\ lock # None /\ pc[lock] = "greet" => Greeting
  /\ lock # None /\ pc[lock] = "await" => Awaiting

\* What a thread was told, with FAIL_CLOSED never an unauthorised ALLOW.
Heard ==
  \A t \in Threads :
    /\ ret[t].decision = "ALLOW" /\ ~FailOpen => ret[t].ok
    /\ ret[t].ok => ret[t].id \in Ids /\ ret[t].decision \in Decisions /\ said[ret[t].id] = ret[t].decision

\* Two workers that hold the same id between the two halves of
\* _remember_request have raced; so has one whose id went in meanwhile.
Tested ==
  /\ \A c, d \in Conns :
       c # d /\ wpc[c] = "insert" /\ wpc[d] = "insert" /\ wreq[c].id = wreq[d].id => wreq[c].id \in raced
  /\ \A c \in Conns : wpc[c] = "insert" => ~InCache(wreq[c].id) \/ wreq[c].id \in raced

\* An accepted id is in the cache, no deeper than the ids accepted since, until
\* replay_cache_size others were accepted after it.
Remembered ==
  \A j \in DOMAIN accepted :
    \/ accepted[j] \in raced
    \/ Len(accepted) - j >= CacheSize
    \/ \E k \in DOMAIN cache : cache[k] = accepted[j] /\ Len(cache) - k <= Len(accepted) - j

\* The inductive invariant.
Inv == TypeOK /\ Locked /\ Closing /\ Lines /\ Once /\ Talk /\ Heard /\ Tested /\ Remembered /\ ReplayWindow

---------------------------------------------------------------------------
\* What the constants' assumption says of the sets made from them.
LEMMA Names ==
  /\ Owner \in Threads /\ Heart \in Threads /\ Callers \subseteq Threads
  /\ None \notin Threads /\ None \notin Links /\ None \notin Conns /\ None \notin Ids
  /\ Links \subseteq Conns /\ Peers \subseteq Conns /\ Links \cap Peers = {} /\ Conns = Links \cup Peers
  /\ Links \subseteq Nat /\ Ids \subseteq Nat
  /\ MaxConns \in Nat /\ MaxIds \in Nat /\ CacheSize \in Nat
BY IpcClientAssumption DEF Threads, Links, Conns, Ids

\* The tail and the head of a sequence of one element.
LEMMA Lone ==
  ASSUME NEW S, NEW s \in Seq(S), Len(s) = 1
  PROVE  Tail(s) = <<>> /\ Head(s) = s[1] /\ s[1] \in S /\ s # <<>>
<1>1. Tail(s) \in Seq(S) /\ Len(Tail(s)) = 0
  OBVIOUS
<1>2. Tail(s) = <<>>
  BY <1>1, EmptySeq
<1> QED
  BY <1>2

\* A sequence of one element.
LEMMA Single ==
  ASSUME NEW S, NEW m \in S
  PROVE  /\ Append(<<>>, m) # <<>> /\ Len(Append(<<>>, m)) = 1 /\ Append(<<>>, m)[1] = m
         /\ Append(<<>>, m) \in Seq(S)
OBVIOUS

\* Requests, responses and errors are frames and answers.
LEMMA Made ==
  ASSUME NEW i \in Ids \cup {None}, NEW v \in Decisions \cup {"none"}, NEW k \in Kinds \cup {"HELLO", "EVENT"}
  PROVE  /\ Request(k, i) \in Frames /\ Request(k, i).id = i /\ Request(k, i).form = "good"
         /\ Response(i, v) \in Answers /\ Response(i, v).id = i /\ Response(i, v).ok /\ Response(i, v).decision = v
         /\ Error(i) \in Answers /\ Error(i).id = i /\ ~Error(i).ok /\ Error(i).decision = "none"
BY DEF Request, Response, Error, Frames, Answers

\* A request frame, of any type and for any id.
LEMMA MadeRequest ==
  \A k \in Kinds \cup {"HELLO", "EVENT"}, i \in Ids \cup {None} :
    Request(k, i) \in Frames /\ Request(k, i).id = i /\ Request(k, i).form = "good"
BY DEF Request, Frames

\* A step of the serving side leaves the client as it is.
ClientRest == UNCHANGED <<lock, conn, closed, stop, started, cur, rid, pc, kind, ret, calls, opened, near, used>>

\* The serving side of connection c acts: nothing of the client changes, nor of
\* another connection.
Serves(c) ==
  /\ ClientRest
  /\ \A d \in Conns : d # c => up'[d] = up[d] /\ down'[d] = down[d] /\ wpc'[d] = wpc[d] /\ wreq'[d] = wreq[d]

\* What Tell(c, m) leaves in transit on c.
Told(c, m) ==
  /\ c \in near /\ c \in Links => down'[c] = Append(down[c], m)
  /\ ~(c \in near /\ c \in Links) => down'[c] = down[c]

\* The part of TypeOK about the connections.
WireTypes ==
  /\ up \in [Conns -> Seq(Frames)] /\ down \in [Conns -> Seq(Answers)]
  /\ wpc \in [Conns -> {"none", "hello", "loop", "test", "insert", "dispatch", "gone"}]
  /\ wreq \in [Conns -> Frames \cup {None}]

\* Tell appends to one connection.
LEMMA TellDoes ==
  ASSUME WireTypes, NEW c \in Conns, NEW m \in Answers, Tell(c, m)
  PROVE  /\ down' \in [Conns -> Seq(Answers)] /\ Told(c, m)
         /\ \A d \in Conns : d # c => down'[d] = down[d]
BY DEF WireTypes, Tell, Told, Put

\* Work moves one worker.
LEMMA WorkDoes ==
  ASSUME WireTypes, NEW c \in Conns, NEW f \in Frames \cup {None},
         NEW to \in {"none", "hello", "loop", "test", "insert", "dispatch", "gone"}, Work(c, to, f)
  PROVE  /\ wpc' \in [Conns -> {"none", "hello", "loop", "test", "insert", "dispatch", "gone"}]
         /\ wreq' \in [Conns -> Frames \cup {None}]
         /\ wpc'[c] = to /\ wreq'[c] = f
         /\ \A d \in Conns : d # c => wpc'[d] = wpc[d] /\ wreq'[d] = wreq[d]
BY DEF WireTypes, Work

\* A frame is read from one connection.
LEMMA TakeUpDoes ==
  ASSUME WireTypes, NEW c \in Conns, up[c] # <<>>, up' = Take(up, c)
  PROVE  /\ up' \in [Conns -> Seq(Frames)]
         /\ up'[c] = Tail(up[c]) /\ \A d \in Conns : d # c => up'[d] = up[d]
BY DEF WireTypes, Take

\* serverRest covers the client's variables.
LEMMA RestSame ==
  ASSUME UNCHANGED serverRest
  PROVE  ClientRest /\ UNCHANGED frames
BY DEF serverRest, clientVars, threadVars, ClientRest

\* Handshake answers HELLO on a connection of the client's.
LEMMA HandshakeDoes ==
  ASSUME WireTypes, Lines, NEW c \in Conns, NEW ok \in BOOLEAN, Handshake(c, ok)
  PROVE  /\ WireTypes' /\ Serves(c) /\ UNCHANGED <<cache, accepted, raced, said, alive, frames>>
         /\ wpc[c] = "hello" /\ wpc'[c] \in {"loop", "gone"} /\ up'[c] = <<>> /\ c \in Links
         /\ \E m \in Answers : Told(c, m)
<1>1. wpc[c] = "hello" /\ up[c] # <<>> /\ up' = Take(up, c) /\ ClientRest
      /\ UNCHANGED <<cache, accepted, raced, said, alive, frames>>
  BY RestSame DEF Handshake
<1>2. up' \in [Conns -> Seq(Frames)] /\ up'[c] = <<>> /\ \A d \in Conns : d # c => up'[d] = up[d]
  BY <1>1, TakeUpDoes, Lone DEF Lines, LineOf, WireTypes
<1>3. PICK m \in Answers : Tell(c, m)
  <2>1. Response(None, "none") \in Answers /\ Error(None) \in Answers
    BY Made DEF Kinds
  <2> QED
    BY <2>1 DEF Handshake
<1>4. down' \in [Conns -> Seq(Answers)] /\ Told(c, m) /\ \A d \in Conns : d # c => down'[d] = down[d]
  BY <1>3, TellDoes
<1>5. PICK to \in {"loop", "gone"} : Work(c, to, None)
  BY DEF Handshake
<1>6. /\ wpc' \in [Conns -> {"none", "hello", "loop", "test", "insert", "dispatch", "gone"}]
      /\ wreq' \in [Conns -> Frames \cup {None}]
      /\ wpc'[c] = to
      /\ \A d \in Conns : d # c => wpc'[d] = wpc[d] /\ wreq'[d] = wreq[d]
  BY <1>5, WorkDoes
<1>7. c \in Links
  BY <1>1, Names DEF Lines, LineOf
<1> QED
  BY <1>1, <1>2, <1>4, <1>6, <1>7 DEF WireTypes, Serves

\* Read takes a good frame in hand, or refuses a peer's bad one.
LEMMA ReadDoes ==
  ASSUME WireTypes, Lines, NEW c \in Conns, Read(c)
  PROVE  /\ WireTypes' /\ Serves(c) /\ UNCHANGED <<cache, accepted, raced, said, alive, frames>>
         /\ wpc[c] = "loop" /\ up[c] # <<>> /\ up'[c] = <<>>
         /\ \/ /\ wpc'[c] = "test" /\ wreq'[c] = up[c][1] /\ up[c][1] \in Frames /\ up[c][1].id \in Ids
               /\ down'[c] = down[c]
            \/ /\ c \in Peers /\ wpc'[c] \in {"loop", "gone"} /\ down'[c] = down[c]
<1>1. wpc[c] = "loop" /\ up[c] # <<>> /\ up' = Take(up, c) /\ ClientRest
      /\ UNCHANGED <<cache, accepted, raced, said, alive, frames>>
  BY RestSame DEF Read
<1>2. Len(up[c]) = 1 /\ up[c] \in Seq(Frames)
  BY <1>1 DEF Lines, LineOf, WireTypes
<1>3. up' \in [Conns -> Seq(Frames)] /\ up'[c] = <<>> /\ \A d \in Conns : d # c => up'[d] = up[d]
  BY <1>1, <1>2, TakeUpDoes, Lone
<1>4. Head(up[c]) = up[c][1] /\ up[c][1] \in Frames
  BY <1>2, Lone
<1>5. CASE up[c][1].form = "good"
  <2>1. Work(c, "test", up[c][1]) /\ UNCHANGED down
    BY <1>4, <1>5 DEF Read
  <2>2. up[c][1].id \in Ids
    BY <1>1, <1>5 DEF Lines, LineOf
  <2> QED
    BY <1>1, <1>3, <1>4, <2>1, <2>2, WorkDoes DEF WireTypes, Serves
<1>6. CASE up[c][1].form # "good"
  <2>1. c \in Peers /\ c \notin Links
    BY <1>1, <1>6, Names DEF Lines, LineOf
  <2>2. up[c][1].form \in {"malformed", "oversized"}
    BY <1>4, <1>6 DEF Frames
  <2>3. Tell(c, Error(None)) /\ \E to \in {"loop", "gone"} : Work(c, to, None)
    BY <1>4, <2>2 DEF Read
  <2>4. Error(None) \in Answers
    BY Made DEF Kinds
  <2>5. down' \in [Conns -> Seq(Answers)] /\ Told(c, Error(None)) /\ \A d \in Conns : d # c => down'[d] = down[d]
    BY <2>3, <2>4, TellDoes
  <2>6. down'[c] = down[c]
    BY <2>1, <2>5 DEF Told
  <2> QED
    BY <1>1, <1>3, <2>1, <2>3, <2>5, <2>6, WorkDoes DEF WireTypes, Serves
<1> QED
  BY <1>5, <1>6

\* Test answers REPLAYED_REQUEST, or goes on and records a race.
LEMMA TestDoes ==
  ASSUME WireTypes, Lines, NEW c \in Conns, Test(c)
  PROVE  /\ WireTypes' /\ Serves(c) /\ UNCHANGED <<cache, accepted, said, alive, frames>>
         /\ wpc[c] = "test" /\ up'[c] = up[c] /\ up[c] = <<>> /\ wreq[c] \in Frames /\ wreq[c].id \in Ids
         /\ \/ /\ wpc'[c] = "loop" /\ raced' = raced
               /\ \E m \in Answers : Told(c, m) /\ m.id = wreq[c].id /\ ~m.ok
            \/ /\ wpc'[c] = "insert" /\ wreq'[c] = wreq[c] /\ down'[c] = down[c] /\ ~InCache(wreq[c].id)
               /\ raced' = raced \cup {i \in {wreq[c].id} : \E d \in Conns \ {c} : wpc[d] = "insert" /\ wreq[d].id = i}
<1>1. wpc[c] = "test" /\ up' = up /\ ClientRest /\ UNCHANGED <<cache, accepted, said, alive, frames>>
  BY RestSame DEF Test
<1>2. up[c] = <<>> /\ wreq[c] \in Frames /\ wreq[c].id \in Ids
  BY <1>1 DEF Lines, LineOf, InHand
<1>3. CASE InCache(wreq[c].id)
  <2>1. Tell(c, Error(wreq[c].id)) /\ Work(c, "loop", None) /\ raced' = raced
    BY <1>3 DEF Test
  <2>2. Error(wreq[c].id) \in Answers /\ Error(wreq[c].id).id = wreq[c].id /\ ~Error(wreq[c].id).ok
    BY <1>2, Made DEF Kinds
  <2>3. /\ down' \in [Conns -> Seq(Answers)] /\ Told(c, Error(wreq[c].id))
        /\ \A d \in Conns : d # c => down'[d] = down[d]
    BY <2>1, <2>2, TellDoes
  <2> QED
    BY <1>1, <1>2, <2>1, <2>2, <2>3, WorkDoes DEF WireTypes, Serves
<1>4. CASE ~InCache(wreq[c].id)
  <2>1. /\ Work(c, "insert", wreq[c]) /\ UNCHANGED down
        /\ raced' = raced \cup {i \in {wreq[c].id} : \E d \in Conns \ {c} : wpc[d] = "insert" /\ wreq[d].id = i}
    BY <1>4 DEF Test
  <2> QED
    BY <1>1, <1>2, <1>4, <2>1, WorkDoes DEF WireTypes, Serves
<1> QED
  BY <1>3, <1>4

\* Insert records the id in the cache.
LEMMA InsertDoes ==
  ASSUME WireTypes, Lines, NEW c \in Conns, Insert(c)
  PROVE  /\ WireTypes' /\ Serves(c) /\ UNCHANGED <<raced, said, alive, frames>>
         /\ wpc[c] = "insert" /\ up'[c] = up[c] /\ up[c] = <<>> /\ wreq[c] \in Frames /\ wreq[c].id \in Ids
         /\ wpc'[c] = "dispatch" /\ wreq'[c] = wreq[c] /\ down'[c] = down[c]
         /\ cache' = Remember(wreq[c].id) /\ accepted' = Append(accepted, wreq[c].id)
<1>1. wpc[c] = "insert" /\ UNCHANGED <<up, down, raced, said, alive, frames>> /\ ClientRest
      /\ cache' = Remember(wreq[c].id) /\ accepted' = Append(accepted, wreq[c].id)
      /\ Work(c, "dispatch", wreq[c])
  BY RestSame DEF Insert
<1>2. up[c] = <<>> /\ wreq[c] \in Frames /\ wreq[c].id \in Ids
  BY <1>1 DEF Lines, LineOf, InHand
<1> QED
  BY <1>1, <1>2, WorkDoes DEF WireTypes, Serves

\* Dispatch answers with a decision it records, or with an error, or not at all.
LEMMA DispatchDoes ==
  ASSUME WireTypes, Lines, NEW c \in Conns, NEW v \in Decisions \cup {"error", "silent"}, Dispatch(c, v)
  PROVE  /\ WireTypes' /\ Serves(c) /\ UNCHANGED <<cache, accepted, raced, alive, frames>>
         /\ wpc[c] = "dispatch" /\ up'[c] = up[c] /\ up[c] = <<>> /\ wreq[c].id \in Ids
         /\ wpc'[c] = "loop"
         /\ \/ /\ v \in Decisions
               /\ said' = [said EXCEPT ![wreq[c].id] = IF c \in Links THEN v ELSE @]
               /\ \E m \in Answers : Told(c, m) /\ m.id = wreq[c].id /\ m.decision = v
            \/ said' = said /\ \E m \in Answers : Told(c, m) /\ m.id = wreq[c].id /\ ~m.ok
            \/ said' = said /\ down'[c] = down[c]
<1>1. wpc[c] = "dispatch" /\ up' = up /\ ClientRest /\ UNCHANGED <<cache, accepted, raced, alive, frames>>
      /\ Work(c, "loop", None)
  BY RestSame DEF Dispatch
<1>2. up[c] = <<>> /\ wreq[c].id \in Ids
  BY <1>1 DEF Lines, LineOf, InHand
<1>3. CASE v \in Decisions
  <2>1. /\ said' = [said EXCEPT ![wreq[c].id] = IF c \in Links THEN v ELSE @]
        /\ Tell(c, Response(wreq[c].id, v))
    BY <1>3 DEF Dispatch, Decisions
  <2>2. /\ Response(wreq[c].id, v) \in Answers /\ Response(wreq[c].id, v).id = wreq[c].id
        /\ Response(wreq[c].id, v).decision = v
    BY <1>2, <1>3, Made DEF Kinds
  <2>3. /\ down' \in [Conns -> Seq(Answers)] /\ Told(c, Response(wreq[c].id, v))
        /\ \A d \in Conns : d # c => down'[d] = down[d]
    BY <2>1, <2>2, TellDoes
  <2> QED
    BY <1>1, <1>2, <1>3, <2>1, <2>2, <2>3, WorkDoes DEF WireTypes, Serves
<1>4. CASE v = "error"
  <2>1. said' = said /\ Tell(c, Error(wreq[c].id))
    BY <1>4 DEF Dispatch, Decisions
  <2>2. Error(wreq[c].id) \in Answers /\ Error(wreq[c].id).id = wreq[c].id /\ ~Error(wreq[c].id).ok
    BY <1>2, Made DEF Kinds
  <2>3. /\ down' \in [Conns -> Seq(Answers)] /\ Told(c, Error(wreq[c].id))
        /\ \A d \in Conns : d # c => down'[d] = down[d]
    BY <2>1, <2>2, TellDoes
  <2> QED
    BY <1>1, <1>2, <2>1, <2>2, <2>3, WorkDoes DEF WireTypes, Serves
<1>5. CASE v = "silent"
  <2>1. said' = said /\ down' = down
    BY <1>5 DEF Dispatch, Decisions
  <2> QED
    BY <1>1, <1>2, <2>1, WorkDoes DEF WireTypes, Serves
<1> QED
  BY <1>3, <1>4, <1>5

\* Hangup ends the worker of a connection the client has closed.
LEMMA HangupDoes ==
  ASSUME WireTypes, NEW c \in Conns, Hangup(c)
  PROVE  /\ WireTypes' /\ Serves(c) /\ UNCHANGED <<cache, accepted, raced, said, alive, frames>>
         /\ c \in Links /\ c \notin near /\ up[c] = <<>> /\ up'[c] = up[c] /\ down'[c] = down[c] /\ wpc'[c] = "gone"
         /\ wpc[c] # "none"
<1>1. /\ c \in Links /\ c \notin near /\ up[c] = <<>> /\ UNCHANGED <<up, down>> /\ Work(c, "gone", None) /\ ClientRest
      /\ UNCHANGED <<cache, accepted, raced, said, alive, frames>> /\ wpc[c] # "none"
  BY RestSame DEF Hangup
<1> QED
  BY <1>1, WorkDoes DEF WireTypes, Serves

\* Present puts one frame on a peer's connection.
LEMMA PresentDoes ==
  ASSUME WireTypes, used \in 0 .. MaxIds, NEW c \in Peers, NEW m \in PeerFrames, Present(c, m)
  PROVE  /\ WireTypes' /\ Serves(c) /\ UNCHANGED <<cache, accepted, raced, said, alive>>
         /\ m \in Frames /\ (m.form = "good" => m.id \in Ids)
         /\ wpc[c] = "loop" /\ wpc'[c] = wpc[c] /\ wreq'[c] = wreq[c] /\ down'[c] = down[c]
         /\ up'[c] = Append(<<>>, m)
<1>1. m \in Frames /\ (m.form = "good" => m.id \in Ids)
  <2>1. ASSUME NEW i \in 1 .. used PROVE i \in Ids
    BY IpcClientAssumption DEF Ids
  <2>2. CASE \E i \in 1 .. used : m = Request("EVENT", i)
    BY <2>1, <2>2, Made DEF Kinds
  <2>3. CASE \E f \in {"malformed", "oversized"} : m = [type |-> "EVENT", id |-> None, form |-> f]
    BY <2>3 DEF Frames
  <2> QED
    BY <2>2, <2>3 DEF PeerFrames
<1>2. c \in Conns /\ up[c] = <<>> /\ wpc[c] = "loop" /\ up' = Put(up, c, m) /\ UNCHANGED <<wpc, wreq, down>>
      /\ ClientRest /\ UNCHANGED <<cache, accepted, raced, said, alive>>
  BY Names DEF Present, ClientRest, clientVars, threadVars, serverVars
<1>3. up' \in [Conns -> Seq(Frames)] /\ up'[c] = Append(<<>>, m) /\ \A d \in Conns : d # c => up'[d] = up[d]
  BY <1>1, <1>2, Single DEF WireTypes, Put
<1> QED
  BY <1>1, <1>2, <1>3 DEF WireTypes, Serves

---------------------------------------------------------------------------
\* The positions of a thread.
PcValues == {"construct", "idle", "ensure", "greet", "send", "await", "notify", "goodbye", "flag", "drop", "closed"}

\* The part of TypeOK about the client.
ClientTypes ==
  /\ lock \in Threads \cup {None} /\ conn \in Links \cup {None}
  /\ closed \in BOOLEAN /\ stop \in BOOLEAN /\ started \in BOOLEAN
  /\ pc \in [Threads -> PcValues] /\ kind \in [Threads -> Kinds]
  /\ cur \in Links \cup {None} /\ rid \in Ids \cup {None}
  /\ ret \in [Threads -> Answers] /\ calls \in [Threads -> 0 .. MaxCalls]
  /\ opened \in 0 .. MaxConns /\ near \subseteq Conns /\ used \in 0 .. MaxIds

\* The part of TypeOK about the serving side as a whole.
ServerTypes ==
  /\ alive \in BOOLEAN /\ frames \in [Peers -> 0 .. MaxFrames]
  /\ cache \in Seq(Ids) /\ Len(cache) <= CacheSize
  /\ accepted \in Seq(Ids) /\ raced \subseteq Ids
  /\ said \in [Ids -> Decisions \cup {"none"}]

\* The part of TypeOK about what no other conjunct of Inv mentions.
StrayTypes == torn \in BOOLEAN /\ late \in Nat

\* TypeOK, in its four parts.
LEMMA TypeParts == TypeOK <=> ClientTypes /\ ServerTypes /\ WireTypes /\ StrayTypes
BY DEF TypeOK, ClientTypes, ServerTypes, WireTypes, StrayTypes, PcValues

\* Every step keeps StrayTypes: only Unconnected and LateConnect change late.
LEMMA StrayNext ==
  ASSUME StrayTypes, Next
  PROVE  StrayTypes'
<1>1. ASSUME NEW t \in Threads, ThreadStep(t) PROVE StrayTypes'
  <2>1. CASE Unconnected(t)
    <3>1. torn' = FALSE /\ (late' = late \/ late' = late + 1)
      BY <2>1 DEF Unconnected, Return
    <3>2. late \in Nat
      BY DEF StrayTypes
    <3>3. late' \in Nat
      BY <3>1, <3>2
    <3>4. torn' \in BOOLEAN
      BY <3>1
    <3> QED
      BY <3>3, <3>4 DEF StrayTypes
  <2>2. CASE ~Unconnected(t)
    <3>1. (torn' = torn \/ torn' = FALSE) /\ late' = late
      BY <1>1, <2>2 DEF ThreadStep, Reuse, Connect, Greeted, Ungreeted, Send, Unsent, Receive, Timeout, Return, wireVars
    <3> QED
      BY <3>1 DEF StrayTypes
  <2> QED
    BY <2>1, <2>2
<1>2. CASE LateConnect
  <2>1. late > 0 /\ late' = late - 1 /\ torn' = torn
    BY <1>2 DEF LateConnect, clientVars
  <2> QED
    BY <2>1 DEF StrayTypes
<1>3. CASE \E t \in Threads : Glimpse(t)
  <2>1. torn' = TRUE /\ late' = late
    BY <1>3 DEF Glimpse, wireVars
  <2> QED
    BY <2>1 DEF StrayTypes
<1>4. CASE \/ \E t \in Threads, k \in {"CONNECT", "EVALUATE", "HEARTBEAT", "SESSION_END"} : Begin(t, k)
           \/ CloseBegin \/ CloseStep \/ Finished
  <2>1. torn' = torn /\ late' = late
    BY <1>4 DEF Begin, CloseBegin, CloseStep, CloseNotify, CloseFlag, CloseDrop, Finished, vars, clientVars, wireVars
  <2> QED
    BY <2>1 DEF StrayTypes
<1>5. CASE (\E c \in Conns : ServerStep(c)) \/ (\E c \in Peers : \E m \in PeerFrames : Present(c, m)) \/ Die
  <2>1. torn' = torn /\ late' = late
    BY <1>5 DEF ServerStep, Handshake, Read, Test, Insert, Hangup, Dispatch, Present, Die, serverRest, clientVars
  <2> QED
    BY <2>1 DEF StrayTypes
<1> QED
  BY <1>1, <1>2, <1>3, <1>4, <1>5 DEF Next

\* Goto moves one thread.
LEMMA GotoDoes ==
  ASSUME ClientTypes, NEW t \in Threads, NEW to \in PcValues, Goto(t, to)
  PROVE  pc' \in [Threads -> PcValues] /\ pc'[t] = to /\ \A u \in Threads : u # t => pc'[u] = pc[u]
BY DEF ClientTypes, Goto

\* _degraded never claims an answer, and with FAIL_CLOSED never allows.
LEMMA DegradedType ==
  ASSUME ClientTypes
  PROVE  /\ Degraded \in Answers /\ ~Degraded.ok /\ (~FailOpen => Degraded.decision # "ALLOW")
BY DEF ClientTypes, Degraded, Answers, Decisions

\* evaluate() reports the answer's decision under the request's own id, or degrades.
LEMMA EvaluationType ==
  ASSUME ClientTypes, NEW m \in Answers
  PROVE  /\ Evaluation(m) \in Answers
         /\ Evaluation(m).ok =>
              m.ok /\ m.decision \in Decisions /\ Evaluation(m).id = rid /\ Evaluation(m).decision = m.decision
         /\ ~FailOpen /\ Evaluation(m).decision = "ALLOW" => Evaluation(m).ok
<1>1. CASE m.ok /\ m.decision \in Decisions
  <2>1. Evaluation(m) = [id |-> rid, decision |-> m.decision, ok |-> TRUE]
    BY <1>1 DEF Evaluation
  <2> QED
    BY <2>1, <1>1 DEF ClientTypes, Answers, Decisions
<1>2. CASE ~(m.ok /\ m.decision \in Decisions)
  <2>1. Evaluation(m) = Degraded
    BY <1>2 DEF Evaluation
  <2> QED
    BY <2>1, DegradedType
<1> QED
  BY <1>1, <1>2

\* Return lets the lock go and tells one thread at most.
LEMMA ReturnDoes ==
  ASSUME ClientTypes, NEW t \in Threads, NEW e \in Answers, Return(t, e)
  PROVE  /\ lock' = None /\ cur' = None /\ rid' = None
         /\ pc' \in [Threads -> PcValues] /\ pc'[t] \in {"flag", "idle"}
         /\ \A u \in Threads : u # t => pc'[u] = pc[u]
         /\ ret' \in [Threads -> Answers]
         /\ \A u \in Threads : ret'[u] = ret[u] \/ ret'[u] = e
<1>1. After(t) \in {"flag", "idle"} /\ After(t) \in PcValues
  BY DEF After, PcValues
<1>2. Goto(t, After(t))
  BY DEF Return
<1>3. pc' \in [Threads -> PcValues] /\ pc'[t] \in {"flag", "idle"} /\ \A u \in Threads : u # t => pc'[u] = pc[u]
  BY <1>1, <1>2, GotoDoes
<1>4. ret' \in [Threads -> Answers] /\ \A u \in Threads : ret'[u] = ret[u] \/ ret'[u] = e
  BY DEF Return, ClientTypes
<1> QED
  BY <1>3, <1>4 DEF Return

\* A request ends, for one of these reasons.
Ends(t) ==
  Unconnected(t) \/ (Greeted(t) /\ lock' = None) \/ Ungreeted(t) \/ Unsent(t) \/ Receive(t) \/ Timeout(t)

\* What the end of a request leaves behind.
Ended(t) ==
  /\ lock' = None /\ cur' = None /\ rid' = None /\ pc[t] \in Busy
  /\ pc' \in [Threads -> PcValues] /\ pc'[t] \in {"flag", "idle"}
  /\ \A u \in Threads : u # t => pc'[u] = pc[u]
  /\ ret' \in [Threads -> Answers]
  /\ \/ conn' = None /\ near' = near \ {cur} /\ pc[t] # "ensure"
     \/ conn' = conn /\ near' = near /\ pc[t] = "ensure"
     \/ conn' = conn /\ near' = near /\ pc[t] = "await"
     \/ conn' = cur /\ near' = near /\ pc[t] = "greet"
  /\ UNCHANGED <<closed, stop, kind, calls, opened, up,
                     wpc, wreq, cache, accepted, raced, said, alive, used, frames>>
  /\ started' \in BOOLEAN

\* Each way a request ends, in the terms of Ended; a connection survives only
\* when the answer was read off it.
LEMMA EndsDo ==
  ASSUME ClientTypes, WireTypes, Locked, NEW t \in Threads, Ends(t)
  PROVE  /\ Ended(t)
         /\ conn' # None /\ pc[t] # "ensure" => down' = Take(down, cur) /\ down[cur] # <<>>
         /\ \/ down' = down
            \/ /\ pc[t] \in {"greet", "await"} /\ down[cur] # <<>> /\ cur \in Links /\ down' = Take(down, cur)
<1> USE DEF Ended, Busy
<1>1. Degraded \in Answers
  BY DegradedType
<1>2. pc[t] \in {"greet", "await"} => cur \in Links
  BY Names DEF Locked, Busy, ClientTypes
<1>3. CASE Unconnected(t)
  <2>1. Return(t, Degraded) /\ pc[t] = "ensure"
        /\ UNCHANGED <<conn, near, closed, stop, started, kind, calls, opened, up, down,
                     wpc, wreq, cache, accepted, raced, said, alive, used, frames>>
    BY <1>3 DEF Unconnected, wireVars, serverVars
  <2> QED
    BY <2>1, <1>1, ReturnDoes DEF ClientTypes
<1>4. CASE Ungreeted(t) \/ Unsent(t) \/ Timeout(t)
  <2>1. Return(t, Degraded) /\ pc[t] \in {"greet", "send", "await"} /\ conn' = None /\ near' = near \ {cur}
        /\ UNCHANGED <<closed, stop, started, kind, calls, opened, up, down,
                     wpc, wreq, cache, accepted, raced, said, alive, used, frames>>
    BY <1>4 DEF Ungreeted, Unsent, Timeout, Drop, serverVars
  <2> QED
    BY <2>1, <1>1, ReturnDoes DEF ClientTypes
<1>5. CASE Receive(t)
  <2>1. /\ pc[t] = "await" /\ down[cur] # <<>> /\ down' = Take(down, cur)
        /\ UNCHANGED <<closed, stop, started, kind, calls, opened, up,
                     wpc, wreq, cache, accepted, raced, said, alive, used, frames>>
        /\ \/ Return(t, Evaluation(Head(down[cur]))) /\ UNCHANGED <<conn, near>>
           \/ conn' = None /\ near' = near \ {cur} /\ Return(t, Degraded)
    BY <1>5 DEF Receive, Drop, serverVars
  <2>2. Head(down[cur]) \in Answers
    <3>1. cur \in Conns
      BY <2>1, <1>2, Names
    <3>2. down[cur] \in Seq(Answers)
      BY <3>1 DEF WireTypes
    <3> QED
      BY <2>1, <3>2
  <2>3. Evaluation(Head(down[cur])) \in Answers
    BY <2>2, EvaluationType
  <2> QED
    BY <2>1, <2>3, <1>1, <1>2, ReturnDoes DEF ClientTypes
<1>6. CASE Greeted(t) /\ lock' = None
  <2>0. lock # None
    BY <1>6, Names DEF Greeted, Locked, Busy
  <2>1. /\ pc[t] = "greet" /\ down[cur] # <<>> /\ down' = Take(down, cur)
        /\ UNCHANGED <<closed, stop, kind, calls, opened, up,
                     wpc, wreq, cache, accepted, raced, said, alive, used, frames>>
        /\ \/ conn' = cur /\ near' = near /\ started' = TRUE /\ Return(t, Degraded)
           \/ conn' = None /\ near' = near \ {cur} /\ Return(t, Degraded) /\ started' = started
    BY <1>6, <2>0 DEF Greeted, Drop, serverVars
  <2> QED
    BY <2>1, <1>1, <1>2, ReturnDoes DEF ClientTypes
<1> QED
  BY <1>3, <1>4, <1>5, <1>6 DEF Ends

\* A step of a request that goes on.
Goes(t) == Reuse(t) \/ Connect(t) \/ (Greeted(t) /\ lock' # None) \/ Send(t)

\* What such a step changes, by the thread's position.
Going(t) ==
  /\ pc[t] \in Busy /\ pc' \in [Threads -> PcValues] /\ pc'[t] \in Busy \ {"ensure"}
  /\ \A u \in Threads : u # t => pc'[u] = pc[u]
  /\ \/ /\ pc[t] = "ensure" /\ pc'[t] = "send" /\ conn # None /\ cur' = conn /\ ~closed
        /\ UNCHANGED <<conn, near, opened, used, rid, up, down, wpc>>
     \/ /\ pc[t] = "ensure" /\ pc'[t] = "greet" /\ conn = None /\ ~closed
        /\ opened < MaxConns /\ opened' = opened + 1 /\ cur' = opened + 1 /\ near' = near \cup {opened + 1}
        /\ up' = Put(up, opened + 1, Request("HELLO", None)) /\ wpc' = [wpc EXCEPT ![opened + 1] = "hello"]
        /\ UNCHANGED <<conn, used, rid, down>>
     \/ /\ pc[t] = "greet" /\ pc'[t] = "send" /\ conn' = cur /\ down[cur] # <<>> /\ down' = Take(down, cur)
        /\ UNCHANGED <<cur, near, opened, used, rid, up, wpc>>
     \/ /\ pc[t] = "send" /\ pc'[t] = "await" /\ used < MaxIds /\ used' = used + 1 /\ rid' = used + 1
        /\ \/ wpc[cur] = "gone" /\ up' = up
           \/ wpc[cur] # "gone" /\ up' = Put(up, cur, Request(kind[t], used + 1))
        /\ UNCHANGED <<conn, cur, near, opened, down, wpc>>
  /\ UNCHANGED <<lock, closed, stop, started, kind, ret, calls, wreq, cache, accepted, raced, said, alive, frames>>

\* Each such step, in the terms of Going.
LEMMA GoesDo ==
  ASSUME ClientTypes, Locked, NEW t \in Threads, Goes(t)
  PROVE  Going(t)
<1>0. lock' # None /\ pc[t] = "greet" => cur # None
  BY Names DEF Locked, Busy
<1>1. CASE Reuse(t)
  <2>1. Goto(t, "send") /\ "send" \in PcValues
    BY <1>1 DEF Reuse, PcValues
  <2>2. pc' \in [Threads -> PcValues] /\ pc'[t] = "send" /\ \A u \in Threads : u # t => pc'[u] = pc[u]
    BY <2>1, GotoDoes
  <2> QED
    BY <1>1, <2>2 DEF Reuse, Going, Busy, wireVars, serverVars
<1>2. CASE Connect(t)
  <2>1. Goto(t, "greet") /\ "greet" \in PcValues
    BY <1>2 DEF Connect, PcValues
  <2>2. pc' \in [Threads -> PcValues] /\ pc'[t] = "greet" /\ \A u \in Threads : u # t => pc'[u] = pc[u]
    BY <2>1, GotoDoes
  <2> QED
    BY <1>2, <2>2 DEF Connect, Going, Busy
<1>3. CASE Greeted(t) /\ lock' # None
  <2>0. ~Return(t, Degraded)
    BY <1>3 DEF Return
  <2>1. Goto(t, "send") /\ "send" \in PcValues
    BY <1>3, <2>0 DEF Greeted, PcValues
  <2>2. pc' \in [Threads -> PcValues] /\ pc'[t] = "send" /\ \A u \in Threads : u # t => pc'[u] = pc[u]
    BY <2>1, GotoDoes
  <2> QED
    BY <1>3, <2>0, <2>2 DEF Greeted, Going, Busy, serverVars
<1>4. CASE Send(t)
  <2>1. Goto(t, "await") /\ "await" \in PcValues
    BY <1>4 DEF Send, PcValues
  <2>2. pc' \in [Threads -> PcValues] /\ pc'[t] = "await" /\ \A u \in Threads : u # t => pc'[u] = pc[u]
    BY <2>1, GotoDoes
  <2> QED
    BY <1>4, <2>2 DEF Send, Going, Busy, serverVars
<1> QED
  BY <1>1, <1>2, <1>3, <1>4 DEF Goes

\* The steps outside a request: taking the lock, and close().
Aside ==
  /\ \E t \in Threads :
       /\ \A u \in Threads : u # t => pc'[u] = pc[u]
       /\ \/ /\ lock = None /\ lock' = t /\ pc[t] \notin Busy \cup {"drop", "closed"} /\ pc'[t] = "ensure"
             /\ UNCHANGED <<conn, near, closed, stop>>
          \/ /\ lock' = lock /\ t = Owner /\ pc[t] \notin Busy /\ pc'[t] \in {"notify", "flag", "goodbye"}
             /\ UNCHANGED <<conn, near, closed>>
          \/ lock' = lock /\ t = Owner /\ pc[t] \notin Busy /\ pc'[t] = "drop" /\ closed' /\ UNCHANGED <<conn, near>>
          \/ /\ lock = None /\ lock' = lock /\ t = Owner /\ pc[t] = "drop" /\ pc'[t] = "closed" /\ conn' = None
             /\ near' = near \ {conn} /\ closed' = closed
          \/ UNCHANGED <<lock, pc, conn, near, closed>>
  /\ pc' \in [Threads -> PcValues] /\ kind' \in [Threads -> Kinds] /\ calls' \in [Threads -> 0 .. MaxCalls]
  /\ closed' \in BOOLEAN /\ stop' \in BOOLEAN
  /\ UNCHANGED <<started, cur, rid, ret, opened, up, down,
                     wpc, wreq, cache, accepted, raced, said, alive, used, frames>>

\* Each such step, in the terms of Aside.
LEMMA AsideSteps ==
  ASSUME ClientTypes,
         \/ \E t \in Threads, k \in {"CONNECT", "EVALUATE", "HEARTBEAT", "SESSION_END"} : Begin(t, k)
         \/ CloseBegin \/ CloseStep \/ Finished
  PROVE  Aside
<1> USE Names DEF Busy
<1>1. ASSUME NEW t \in Threads, NEW k \in {"CONNECT", "EVALUATE", "HEARTBEAT", "SESSION_END"}, Begin(t, k)
      PROVE  Aside
  <2>1. Goto(t, "ensure") /\ "ensure" \in PcValues
    BY <1>1 DEF Begin, PcValues
  <2>2. pc' \in [Threads -> PcValues] /\ pc'[t] = "ensure" /\ \A u \in Threads : u # t => pc'[u] = pc[u]
    BY <2>1, GotoDoes
  <2>3. lock = None /\ lock' = t /\ pc[t] \notin Busy \cup {"drop", "closed"}
    BY <1>1 DEF Begin
  <2>4. calls' \in [Threads -> 0 .. MaxCalls]
    BY <1>1, IpcClientAssumption DEF Begin, ClientTypes
  <2>5. kind' \in [Threads -> Kinds]
    BY <1>1 DEF Begin, ClientTypes, Kinds
  <2>6. UNCHANGED <<conn, closed, stop, started, cur, rid, ret, opened, near, up, down, wpc, wreq, cache, accepted,
                    raced, said, alive, used, frames>>
    BY <1>1 DEF Begin, wireVars, serverVars
  <2> QED
    BY <2>2, <2>3, <2>4, <2>5, <2>6 DEF Aside, ClientTypes
<1>2. CASE CloseBegin
  <2>1. Goto(Owner, "notify") /\ "notify" \in PcValues
    BY <1>2 DEF CloseBegin, PcValues
  <2>2. pc' \in [Threads -> PcValues] /\ pc'[Owner] = "notify" /\ \A u \in Threads : u # Owner => pc'[u] = pc[u]
    BY <2>1, GotoDoes
  <2> QED
    BY <1>2, <2>2 DEF Aside, ClientTypes, CloseBegin, wireVars, serverVars
<1>3. CASE CloseNotify
  <2>1. PICK to \in {"flag", "goodbye"} : Goto(Owner, to) /\ to \in PcValues
    BY <1>3 DEF CloseNotify, PcValues
  <2>2. pc' \in [Threads -> PcValues] /\ pc'[Owner] = to /\ \A u \in Threads : u # Owner => pc'[u] = pc[u]
    BY <2>1, GotoDoes
  <2> QED
    BY <1>3, <2>2 DEF Aside, ClientTypes, CloseNotify, clientVars, wireVars, serverVars
<1>4. CASE CloseFlag
  <2>1. Goto(Owner, "drop") /\ "drop" \in PcValues
    BY <1>4 DEF CloseFlag, PcValues
  <2>2. pc' \in [Threads -> PcValues] /\ pc'[Owner] = "drop" /\ \A u \in Threads : u # Owner => pc'[u] = pc[u]
    BY <2>1, GotoDoes
  <2> QED
    BY <1>4, <2>2 DEF Aside, ClientTypes, CloseFlag, wireVars, serverVars
<1>5. CASE CloseDrop
  <2>1. Goto(Owner, "closed") /\ "closed" \in PcValues
    BY <1>5 DEF CloseDrop, PcValues
  <2>2. pc' \in [Threads -> PcValues] /\ pc'[Owner] = "closed" /\ \A u \in Threads : u # Owner => pc'[u] = pc[u]
    BY <2>1, GotoDoes
  <2> QED
    BY <1>5, <2>2 DEF Aside, ClientTypes, CloseDrop, serverVars
<1>6. CASE Finished
  BY <1>6 DEF Finished, vars, clientVars, threadVars, wireVars, serverVars, Aside, ClientTypes
<1> QED
  BY <1>1, <1>2, <1>3, <1>4, <1>5, <1>6 DEF CloseStep

\* A frame has begun, or an abandoned connect() has opened one more connection,
\* on which nothing is ever sent.
Strays ==
  /\ UNCHANGED <<lock, conn, closed, stop, started, cur, rid, pc, kind, ret, calls, near, used, up, down,
                     wreq, cache, accepted, raced, said, alive, frames>>
  /\ \/ UNCHANGED <<opened, wpc>>
     \/ opened < MaxConns /\ opened' = opened + 1 /\ wpc' = [wpc EXCEPT ![opened + 1] = "hello"]

\* Each such step, in the terms of Strays.
LEMMA StraySteps ==
  ASSUME LateConnect \/ \E t \in Threads : Glimpse(t)
  PROVE  Strays
<1>1. CASE LateConnect
  BY <1>1 DEF LateConnect, Strays, clientVars, threadVars
<1>2. CASE \E t \in Threads : Glimpse(t)
  BY <1>2 DEF Glimpse, Strays, threadVars, wireVars, serverVars
<1> QED
  BY <1>1, <1>2

\* The new connection is the next one, and the others are left alone.
LEMMA StraysDo ==
  ASSUME ClientTypes, WireTypes, Strays
  PROVE  /\ opened' \in 0 .. MaxConns /\ opened <= opened'
         /\ wpc' \in [Conns -> {"none", "hello", "loop", "test", "insert", "dispatch", "gone"}]
         /\ \A d \in Conns :
              \/ wpc'[d] = wpc[d]
              \/ d \in Links /\ d = opened + 1 /\ opened' = opened + 1 /\ wpc'[d] = "hello"
<1> USE Names
<1>1. CASE UNCHANGED <<opened, wpc>>
  BY <1>1 DEF ClientTypes, WireTypes
<1>2. CASE opened < MaxConns /\ opened' = opened + 1 /\ wpc' = [wpc EXCEPT ![opened + 1] = "hello"]
  <2>1. opened + 1 \in Links /\ opened' \in 0 .. MaxConns /\ opened <= opened'
    BY <1>2 DEF ClientTypes, Links
  <2> QED
    BY <1>2, <2>1 DEF WireTypes
<1> QED
  BY <1>1, <1>2 DEF Strays

---------------------------------------------------------------------------
\* Die empties what was in transit to the daemon and ends every worker.
LEMMA DieDoes ==
  ASSUME WireTypes, Die
  PROVE  /\ WireTypes' /\ ClientRest /\ UNCHANGED <<cache, accepted, raced, said, frames>> /\ alive' = FALSE
         /\ \A d \in Conns : /\ up'[d] = <<>> /\ down'[d] = down[d]
                             /\ wpc'[d] \in {"none", "gone"} /\ (wpc'[d] = "none" <=> wpc[d] = "none")
<1>1. ClientRest /\ UNCHANGED <<cache, accepted, raced, said, frames, down>> /\ alive' = FALSE
  BY RestSame DEF Die
<1>2. /\ wpc' = [c \in Conns |-> IF wpc[c] = "none" THEN "none" ELSE "gone"]
      /\ wreq' = [c \in Conns |-> None] /\ up' = [c \in Conns |-> <<>>]
  BY DEF Die
<1>3. up' \in [Conns -> Seq(Frames)]
  BY <1>2, EmptySeq
<1> QED
  BY <1>1, <1>2, <1>3 DEF WireTypes

\* A step of the serving side.
ServerSide ==
  \/ \E c \in Conns : ServerStep(c)
  \/ \E c \in Peers : \E m \in PeerFrames : Present(c, m)
  \/ Die

\* Every step is of one of the five kinds.
LEMMA NextKinds ==
  ASSUME ClientTypes, WireTypes, Locked, Next
  PROVE  Aside \/ (\E t \in Threads : Ends(t)) \/ (\E t \in Threads : Goes(t)) \/ ServerSide \/ Strays
<1>1. CASE \E t \in Threads : ThreadStep(t)
  BY <1>1 DEF ThreadStep, Ends, Goes
<1>2. CASE ~\E t \in Threads : ThreadStep(t)
  BY <1>2, AsideSteps, StraySteps DEF Next, ServerSide
<1> QED
  BY <1>1, <1>2

\* The serving side never touches the client's variables.
LEMMA ServerSideRest ==
  ASSUME ServerSide
  PROVE  ClientRest
BY RestSame DEF ServerSide, ServerStep, Handshake, Read, Test, Insert, Dispatch, Hangup, Present, Die,
                ClientRest, clientVars, threadVars

\* The cache keeps to request ids and to its size.
LEMMA RememberType ==
  ASSUME ServerTypes, NEW id \in Ids
  PROVE  Remember(id) \in Seq(Ids) /\ Len(Remember(id)) <= CacheSize
<1>0. CacheSize \in Nat
  BY Names
<1>1. CASE InCache(id)
  BY <1>1 DEF Remember, ServerTypes
<1>2. CASE ~InCache(id) /\ Len(cache) + 1 > CacheSize
  <2>1. Remember(id) = Tail(Append(cache, id))
    BY <1>2 DEF Remember
  <2>2. Append(cache, id) \in Seq(Ids) /\ Len(Append(cache, id)) = Len(cache) + 1 /\ Append(cache, id) # <<>>
        /\ Len(cache) \in Nat /\ Len(cache) <= CacheSize
    <3>1. cache \in Seq(Ids) /\ Len(cache) <= CacheSize
      BY DEF ServerTypes
    <3> QED
      BY <3>1
  <2> QED
    BY <2>1, <2>2, <1>0
<1>3. CASE ~InCache(id) /\ ~(Len(cache) + 1 > CacheSize)
  BY <1>0, <1>3 DEF Remember, ServerTypes
<1> QED
  BY <1>1, <1>2, <1>3

\* An answer is read from one connection.
LEMMA TakeDownDoes ==
  ASSUME WireTypes, NEW c \in Conns, down[c] # <<>>, down' = Take(down, c)
  PROVE  /\ down' \in [Conns -> Seq(Answers)]
         /\ down'[c] = Tail(down[c]) /\ \A d \in Conns : d # c => down'[d] = down[d]
BY DEF WireTypes, Take

\* A frame is sent on one connection.
LEMMA PutUpDoes ==
  ASSUME WireTypes, NEW c \in Conns, NEW m \in Frames, up' = Put(up, c, m)
  PROVE  /\ up' \in [Conns -> Seq(Frames)]
         /\ up'[c] = Append(up[c], m) /\ \A d \in Conns : d # c => up'[d] = up[d]
BY DEF WireTypes, Put

\* Every step keeps the types.
LEMMA TypeNext ==
  ASSUME ClientTypes, ServerTypes, WireTypes, Locked, Lines, Next
  PROVE  ClientTypes' /\ ServerTypes' /\ WireTypes'
<1> USE Names
<1>1. CASE Aside
  <2>1. ClientTypes'
    BY <1>1 DEF Aside, ClientTypes
  <2>2. ServerTypes' /\ WireTypes'
    BY <1>1 DEF Aside, ServerTypes, WireTypes
  <2> QED
    BY <2>1, <2>2
<1>2. ASSUME NEW t \in Threads, Ends(t) PROVE ClientTypes' /\ ServerTypes' /\ WireTypes'
  <2>1. Ended(t)
    BY <1>2, EndsDo
  <2>2. ClientTypes' /\ ServerTypes'
    BY <2>1 DEF Ended, ClientTypes, ServerTypes
  <2>3. down' \in [Conns -> Seq(Answers)]
    BY <1>2, EndsDo, TakeDownDoes DEF WireTypes
  <2> QED
    BY <2>1, <2>2, <2>3 DEF Ended, WireTypes
<1>3. ASSUME NEW t \in Threads, Goes(t) PROVE ClientTypes' /\ ServerTypes' /\ WireTypes'
  <2>1. Going(t)
    BY <1>3, GoesDo
  <2>2. ServerTypes'
    BY <2>1 DEF Going, ServerTypes
  <2>3. used' \in 0 .. MaxIds /\ rid' \in Ids \cup {None}
    BY <2>1 DEF Going, ClientTypes, Ids
  <2>4. opened' \in 0 .. MaxConns /\ cur' \in Links \cup {None} /\ near' \subseteq Conns /\ conn' \in Links \cup {None}
    <3>1. opened < MaxConns => opened + 1 \in Links /\ opened + 1 \in 0 .. MaxConns
      BY DEF ClientTypes, Links
    <3>2. opened' \in 0 .. MaxConns
      BY <2>1, <3>1 DEF Going, ClientTypes
    <3>3. cur' \in Links \cup {None}
      BY <2>1, <3>1 DEF Going, ClientTypes
    <3>4. near' \subseteq Conns
      BY <2>1, <3>1 DEF Going, ClientTypes
    <3>5. conn' \in Links \cup {None}
      BY <2>1 DEF Going, ClientTypes
    <3> QED
      BY <3>2, <3>3, <3>4, <3>5
  <2>5. ClientTypes'
    BY <2>1, <2>3, <2>4 DEF Going, ClientTypes
  <2>6. pc[t] # "ensure" => cur \in Conns /\ cur \in Links
    BY <2>1 DEF Locked, Going, ClientTypes
  <2>7. down' \in [Conns -> Seq(Answers)]
    BY <2>1, <2>6, TakeDownDoes DEF Going, WireTypes
  <2>8. up' \in [Conns -> Seq(Frames)]
    <3>1. opened < MaxConns => opened + 1 \in Conns
      BY DEF ClientTypes, Links, Conns
    <3>2. Request("HELLO", None) \in Frames
      BY MadeRequest
    <3>3. used < MaxIds => Request(kind[t], used + 1) \in Frames
      <4>1. used < MaxIds => used + 1 \in Ids
        BY DEF ClientTypes, Ids
      <4>2. kind[t] \in Kinds
        BY DEF ClientTypes
      <4> QED
        BY <4>1, <4>2, MadeRequest
    <3> QED
      BY <2>1, <2>6, <3>1, <3>2, <3>3, PutUpDoes DEF Going, WireTypes
  <2>9. /\ wpc' \in [Conns -> {"none", "hello", "loop", "test", "insert", "dispatch", "gone"}]
        /\ wreq' \in [Conns -> Frames \cup {None}]
    BY <2>1 DEF Going, WireTypes
  <2> QED
    BY <2>2, <2>5, <2>7, <2>8, <2>9 DEF WireTypes
<1>4. CASE ServerSide
  <2>1. ClientTypes'
    BY <1>4, ServerSideRest DEF ClientRest, ClientTypes
  <2>2. ASSUME NEW c \in Conns, ServerStep(c) PROVE ServerTypes' /\ WireTypes'
    <3>1. CASE \E ok \in BOOLEAN : Handshake(c, ok)
      BY <3>1, HandshakeDoes DEF ServerTypes
    <3>2. CASE Read(c)
      BY <3>2, ReadDoes DEF ServerTypes
    <3>3. CASE Test(c)
      <4>0. wreq[c].id \in Ids /\ (raced' = raced \/ \E S : S \subseteq {wreq[c].id} /\ raced' = raced \cup S)
        <5>1. {i \in {wreq[c].id} : \E d \in Conns \ {c} : wpc[d] = "insert" /\ wreq[d].id = i} \subseteq {wreq[c].id}
          OBVIOUS
        <5>2. wreq[c].id \in Ids
          BY <3>3, TestDoes
        <5>3. \/ raced' = raced
              \/ raced' = raced \cup {i \in {wreq[c].id} : \E d \in Conns \ {c} : wpc[d] = "insert" /\ wreq[d].id = i}
          BY <3>3, TestDoes
        <5> QED
          BY <5>1, <5>2, <5>3
      <4>1. raced' \subseteq Ids
        BY <4>0 DEF ServerTypes
      <4> QED
        BY <3>3, <4>1, TestDoes DEF ServerTypes
    <3>4. CASE Insert(c)
      <4>1. wreq[c].id \in Ids /\ WireTypes' /\ UNCHANGED <<raced, said, alive, frames>>
            /\ cache' = Remember(wreq[c].id) /\ accepted' = Append(accepted, wreq[c].id)
        BY <3>4, InsertDoes
      <4> QED
        BY <4>1, RememberType DEF ServerTypes
    <3>5. CASE Hangup(c)
      BY <3>5, HangupDoes DEF ServerTypes
    <3>6. ASSUME NEW v \in Decisions \cup {"error", "silent"}, Dispatch(c, v) PROVE ServerTypes' /\ WireTypes'
      <4>1. /\ WireTypes' /\ UNCHANGED <<cache, accepted, raced, alive, frames>> /\ wreq[c].id \in Ids
            /\ \/ v \in Decisions /\ said' = [said EXCEPT ![wreq[c].id] = IF c \in Links THEN v ELSE @]
               \/ said' = said
        BY <3>6, DispatchDoes
      <4>2. said' \in [Ids -> Decisions \cup {"none"}]
        BY <4>1 DEF ServerTypes
      <4> QED
        BY <4>1, <4>2 DEF ServerTypes
    <3> QED
      BY <2>2, <3>1, <3>2, <3>3, <3>4, <3>5, <3>6 DEF ServerStep
  <2>3. ASSUME NEW c \in Peers, NEW m \in PeerFrames, Present(c, m) PROVE ServerTypes' /\ WireTypes'
    <3>1. frames' \in [Peers -> 0 .. MaxFrames]
      BY <2>3, IpcClientAssumption DEF Present, ServerTypes
    <3> QED
      BY <2>3, <3>1, PresentDoes DEF ServerTypes, ClientTypes
  <2>4. CASE Die
    <3>1. WireTypes' /\ UNCHANGED <<cache, accepted, raced, said, frames>> /\ alive' = FALSE
      BY <2>4, DieDoes
    <3>2. alive' \in BOOLEAN
      BY <3>1
    <3>3. UNCHANGED <<cache, accepted, raced, said, frames>>
      BY <3>1
    <3>4. ServerTypes'
      BY <3>2, <3>3 DEF ServerTypes
    <3> QED
      BY <2>1, <3>1, <3>4
  <2> QED
    BY <1>4, <2>1, <2>2, <2>3, <2>4 DEF ServerSide
<1>5. CASE Strays
  <2>1. /\ opened' \in 0 .. MaxConns
        /\ wpc' \in [Conns -> {"none", "hello", "loop", "test", "insert", "dispatch", "gone"}]
    BY <1>5, StraysDo
  <2> QED
    BY <1>5, <2>1 DEF Strays, ClientTypes, ServerTypes, WireTypes
<1> QED
  BY <1>1, <1>2, <1>3, <1>4, <1>5, NextKinds

\* Every step keeps Locked.
LEMMA LockedNext ==
  ASSUME ClientTypes, WireTypes, Locked, Next
  PROVE  Locked'
<1> USE Names DEF Busy
<1>1. CASE Aside
  BY <1>1 DEF Aside, Locked, ClientTypes
<1>2. ASSUME NEW t \in Threads, Ends(t) PROVE Locked'
  <2>1. Ended(t)
    BY <1>2, EndsDo
  <2>2. lock = t /\ lock # None
    BY <2>1 DEF Ended, Locked
  <2>3. near' = Peers \cup {c \in Links : c = conn' \/ c = cur'}
    BY <2>1, <2>2 DEF Ended, Locked, ClientTypes
  <2>4. conn' # None => conn' <= opened'
    BY <2>1, <2>2 DEF Ended, Locked
  <2> QED
    BY <2>1, <2>2, <2>3, <2>4 DEF Ended, Locked
<1>3. ASSUME NEW t \in Threads, Goes(t) PROVE Locked'
  <2>1. Going(t)
    BY <1>3, GoesDo
  <2>2. lock = t /\ lock # None /\ lock' = lock
    BY <2>1 DEF Going, Locked
  <2>3. near' = Peers \cup {c \in Links : c = conn' \/ c = cur'}
    BY <2>1, <2>2 DEF Going, Locked, ClientTypes, Links
  <2>4. (conn' # None => conn' <= opened') /\ (cur' # None => cur' <= opened')
    BY <2>1, <2>2 DEF Going, Locked, ClientTypes
  <2>5. cur' # None /\ (pc'[t] \in {"send", "await"} => conn' = cur') /\ (pc'[t] = "greet" => conn' = None)
    BY <2>1, <2>2 DEF Going, Locked, ClientTypes, Links
  <2> QED
    BY <2>1, <2>2, <2>3, <2>4, <2>5 DEF Going, Locked
<1>4. CASE ServerSide
  BY <1>4, ServerSideRest DEF ClientRest, Locked
<1>5. CASE Strays
  <2>1. opened' >= opened /\ opened \in Nat /\ opened' \in Nat
    BY <1>5, StraysDo DEF ClientTypes
  <2>2. (conn' # None => conn' <= opened') /\ (cur' # None => cur' <= opened')
    <3>1. conn' = conn /\ cur' = cur /\ (conn # None => conn \in Nat) /\ (cur # None => cur \in Nat)
      BY <1>5 DEF Strays, ClientTypes
    <3> QED
      BY <2>1, <3>1 DEF Locked
  <2> QED
    BY <1>5, <2>2 DEF Strays, Locked
<1> QED
  BY <1>1, <1>2, <1>3, <1>4, <1>5, NextKinds

\* Every step keeps Closing.
LEMMA ClosingNext ==
  ASSUME ClientTypes, WireTypes, Locked, Closing, Next
  PROVE  Closing'
<1> USE Names DEF Busy
<1>1. CASE Aside
  BY <1>1 DEF Aside, Locked, Closing
<1>2. ASSUME NEW t \in Threads, Ends(t) PROVE Closing'
  <2>1. Ended(t)
    BY <1>2, EndsDo
  <2> QED
    BY <2>1 DEF Ended, Locked, Closing
<1>3. ASSUME NEW t \in Threads, Goes(t) PROVE Closing'
  <2>1. Going(t)
    BY <1>3, GoesDo
  <2>2. lock = t
    BY <2>1 DEF Going, Locked
  <2> QED
    BY <2>1, <2>2 DEF Going, Locked, Closing
<1>4. CASE ServerSide
  BY <1>4, ServerSideRest DEF ClientRest, Closing
<1>5. CASE Strays
  BY <1>5 DEF Strays, Closing
<1> QED
  BY <1>1, <1>2, <1>3, <1>4, <1>5, NextKinds

---------------------------------------------------------------------------
\* A connection that is left alone keeps LineOf, also when others are opened.
LEMMA LineSame ==
  ASSUME NEW d \in Conns, LineOf(d), opened \in Nat, opened' \in Nat, opened <= opened', d \in Links => d \in Nat,
         up'[d] = up[d], wpc'[d] = wpc[d], wreq'[d] = wreq[d],
         d \in Links /\ opened < d => down'[d] = down[d]
  PROVE  LineOf(d)'
BY DEF LineOf

\* The serving side keeps Lines.
LEMMA LinesServe ==
  ASSUME ClientTypes, WireTypes, Lines, ServerSide
  PROVE  Lines'
<1> USE Names
<1>0. opened \in Nat /\ opened' = opened
  BY ServerSideRest DEF ClientRest, ClientTypes
<1>1. ASSUME NEW c \in Conns, Serves(c), LineOf(c)' PROVE Lines'
  <2>1. ASSUME NEW d \in Conns, d # c PROVE LineOf(d)'
    <3>1. up'[d] = up[d] /\ down'[d] = down[d] /\ wpc'[d] = wpc[d] /\ wreq'[d] = wreq[d]
      BY <1>1, <2>1 DEF Serves
    <3>2. LineOf(d) /\ opened' \in Nat /\ opened <= opened' /\ (d \in Links => d \in Nat)
      BY <1>0 DEF Lines
    <3> QED
      BY <3>1, <3>2, <1>0, LineSame
  <2> QED
    BY <1>1, <2>1 DEF Lines
<1>2. ASSUME NEW c \in Conns, ServerStep(c) PROVE Lines'
  <2>1. LineOf(c)
    BY DEF Lines
  <2>2. CASE \E ok \in BOOLEAN : Handshake(c, ok)
    <3>1. Serves(c) /\ wpc[c] = "hello" /\ wpc'[c] \in {"loop", "gone"} /\ up'[c] = <<>> /\ c \in Links
      BY <2>2, HandshakeDoes
    <3>2. LineOf(c)'
      BY <3>1, <2>1, <1>0 DEF LineOf, InHand
    <3> QED
      BY <1>1, <3>1, <3>2
  <2>3. CASE Read(c)
    <3>1. /\ Serves(c) /\ wpc[c] = "loop" /\ up'[c] = <<>>
          /\ \/ wpc'[c] = "test" /\ wreq'[c] = up[c][1] /\ up[c][1] \in Frames /\ up[c][1].id \in Ids
             \/ wpc'[c] \in {"loop", "gone"}
      BY <2>3, ReadDoes
    <3>2. LineOf(c)'
      BY <3>1, <2>1, <1>0 DEF LineOf, InHand
    <3> QED
      BY <1>1, <3>1, <3>2
  <2>4. CASE Test(c)
    <3>1. /\ Serves(c) /\ wpc[c] = "test" /\ up'[c] = <<>> /\ wreq[c] \in Frames /\ wreq[c].id \in Ids
          /\ wpc'[c] = "loop" \/ (wpc'[c] = "insert" /\ wreq'[c] = wreq[c])
      BY <2>4, TestDoes
    <3>2. LineOf(c)'
      BY <3>1, <2>1, <1>0 DEF LineOf, InHand
    <3> QED
      BY <1>1, <3>1, <3>2
  <2>5. CASE Insert(c)
    <3>1. /\ Serves(c) /\ wpc[c] = "insert" /\ up'[c] = <<>> /\ wreq[c] \in Frames /\ wreq[c].id \in Ids
          /\ wpc'[c] = "dispatch" /\ wreq'[c] = wreq[c]
      BY <2>5, InsertDoes
    <3>2. LineOf(c)'
      BY <3>1, <2>1, <1>0 DEF LineOf, InHand
    <3> QED
      BY <1>1, <3>1, <3>2
  <2>6. ASSUME NEW v \in Decisions \cup {"error", "silent"}, Dispatch(c, v) PROVE Lines'
    <3>1. Serves(c) /\ wpc[c] = "dispatch" /\ up'[c] = <<>> /\ wpc'[c] = "loop"
      BY <2>6, DispatchDoes
    <3>2. LineOf(c)'
      BY <3>1, <2>1, <1>0 DEF LineOf, InHand
    <3> QED
      BY <1>1, <3>1, <3>2
  <2>7. CASE Hangup(c)
    <3>1. Serves(c) /\ c \in Links /\ up'[c] = <<>> /\ wpc'[c] = "gone" /\ wpc[c] # "none"
      BY <2>7, HangupDoes
    <3>2. LineOf(c)'
      BY <3>1, <2>1, <1>0 DEF LineOf, InHand
    <3> QED
      BY <1>1, <3>1, <3>2
  <2> QED
    BY <1>2, <2>2, <2>3, <2>4, <2>5, <2>6, <2>7 DEF ServerStep
<1>3. ASSUME NEW c \in Peers, NEW m \in PeerFrames, Present(c, m) PROVE Lines'
  <2>1. /\ Serves(c) /\ m \in Frames /\ (m.form = "good" => m.id \in Ids) /\ wpc'[c] = "loop" /\ wpc[c] = "loop"
        /\ up'[c] = Append(<<>>, m)
    BY <1>3, PresentDoes DEF ClientTypes
  <2>2. up'[c] # <<>> /\ Len(up'[c]) = 1 /\ up'[c][1] = m
    BY <2>1, Single
  <2>3. LineOf(c)'
    BY <2>1, <2>2 DEF LineOf, InHand
  <2> QED
    BY <1>1, <2>1, <2>3
<1>4. CASE Die
  <2>1. \A d \in Conns : LineOf(d)'
    <3> TAKE d \in Conns
    <3>1. /\ up'[d] = <<>> /\ down'[d] = down[d]
          /\ wpc'[d] \in {"none", "gone"} /\ (wpc'[d] = "none" <=> wpc[d] = "none")
      BY <1>4, DieDoes
    <3>2. LineOf(d)
      BY DEF Lines
    <3> QED
      BY <3>1, <3>2, <1>0 DEF LineOf, InHand
  <2> QED
    BY <2>1 DEF Lines
<1> QED
  BY <1>2, <1>3, <1>4 DEF ServerSide

\* Every step keeps Lines; that the connection is at rest when a request is sent
\* is what makes it the only frame on it.
LEMMA LinesNext ==
  ASSUME ClientTypes, WireTypes, Locked, Lines, Talk, Next
  PROVE  Lines'
<1> USE Names
<1>0. opened \in Nat /\ \A d \in Links : d \in Nat
  BY DEF ClientTypes
<1>1. CASE Aside
  <2>1. opened' = opened /\ UNCHANGED <<up, down, wpc, wreq>>
    BY <1>1 DEF Aside
  <2>2. ASSUME NEW d \in Conns PROVE LineOf(d)'
    BY <2>1, <1>0, LineSame DEF Lines
  <2> QED
    BY <2>2 DEF Lines
<1>2. ASSUME NEW t \in Threads, Ends(t) PROVE Lines'
  <2>1. opened' = opened /\ UNCHANGED <<up, wpc, wreq>>
    BY <1>2, EndsDo DEF Ended
  <2>2. down' = down \/ (down[cur] # <<>> /\ cur \in Links /\ down' = Take(down, cur))
    BY <1>2, EndsDo
  <2>3. \A d \in Conns : d \in Links /\ opened < d => down'[d] = down[d]
    <3>1. CASE down' = down
      BY <3>1
    <3>2. CASE down[cur] # <<>> /\ cur \in Links /\ down' = Take(down, cur)
      <4>1. cur <= opened
        BY <3>2 DEF Locked
      <4>2. \A d \in Conns : d # cur => down'[d] = down[d]
        BY <3>2, TakeDownDoes
      <4> QED
        BY <4>1, <4>2, <1>0
    <3> QED
      BY <2>2, <3>1, <3>2
  <2>4. ASSUME NEW d \in Conns PROVE LineOf(d)'
    <3>1. LineOf(d) /\ opened' \in Nat /\ opened <= opened' /\ (d \in Links => d \in Nat)
      BY <2>1, <1>0 DEF Lines
    <3>2. up'[d] = up[d] /\ wpc'[d] = wpc[d] /\ wreq'[d] = wreq[d] /\ (d \in Links /\ opened < d => down'[d] = down[d])
      BY <2>1, <2>3
    <3> QED
      BY <3>1, <3>2, <1>0, LineSame
  <2> QED
    BY <2>4 DEF Lines
<1>3. ASSUME NEW t \in Threads, Goes(t) PROVE Lines'
  <2>1. Going(t)
    BY <1>3, GoesDo
  <2>2. lock = t /\ lock # None /\ wreq' = wreq
    BY <2>1 DEF Going, Locked
  <2>3. CASE pc[t] = "ensure" /\ pc'[t] = "send"
    <3>1. opened' = opened /\ UNCHANGED <<up, down, wpc, wreq>>
      BY <2>1, <2>3 DEF Going
    <3>2. ASSUME NEW d \in Conns PROVE LineOf(d)'
      BY <3>1, <1>0, LineSame DEF Lines
    <3> QED
      BY <3>2 DEF Lines
  <2>4. CASE pc[t] = "ensure" /\ pc'[t] = "greet"
    <3> DEFINE h == Request("HELLO", None)
    <3>0. PICK n : n = opened + 1
      OBVIOUS
    <3>1. /\ opened < MaxConns /\ opened' = n /\ down' = down
          /\ up' = Put(up, n, h) /\ wpc' = [wpc EXCEPT ![n] = "hello"]
      BY <2>1, <2>4, <3>0 DEF Going
    <3>2. n \in Links /\ n \in Conns
      BY <1>0, <3>0, <3>1 DEF Links
    <3>3. h \in Frames /\ h.form = "good"
      BY MadeRequest
    <3> HIDE DEF h
    <3>4. LineOf(n)
      BY <3>2 DEF Lines
    <3>5. up[n] = <<>>
      BY <3>0, <3>2, <3>4, <1>0 DEF LineOf
    <3>6. up'[n] = Append(<<>>, h) /\ \A d \in Conns : d # n => up'[d] = up[d]
      <4>1. up'[n] = Append(up[n], h) /\ \A d \in Conns : d # n => up'[d] = up[d]
        BY <3>1, <3>2, <3>3, PutUpDoes
      <4> QED
        BY <3>5, <4>1
    <3>7. wpc'[n] = "hello" /\ \A d \in Conns : d # n => wpc'[d] = wpc[d]
      BY <3>1, <3>2 DEF WireTypes
    <3>8. up'[n] # <<>> /\ Len(up'[n]) = 1 /\ up'[n][1] = h
      BY <3>3, <3>6, Single
    <3>9. LineOf(n)'
      <4>1. ~(opened' < n) /\ n \notin Peers
        BY <3>1, <3>2, <1>0
      <4> QED
        BY <3>2, <3>3, <3>7, <3>8, <4>1 DEF LineOf, InHand
    <3>10. ASSUME NEW d \in Conns, d # n PROVE LineOf(d)'
      <4>1. LineOf(d) /\ opened' \in Nat /\ opened <= opened' /\ (d \in Links => d \in Nat)
        BY <3>0, <3>1, <1>0 DEF Lines
      <4>2. up'[d] = up[d] /\ wpc'[d] = wpc[d] /\ wreq'[d] = wreq[d] /\ down'[d] = down[d]
        BY <3>1, <3>6, <3>7, <3>10, <2>2
      <4> QED
        BY <4>1, <4>2, <1>0, LineSame
    <3> QED
      BY <3>9, <3>10 DEF Lines
  <2>5. CASE pc[t] = "greet"
    <3>1. opened' = opened /\ UNCHANGED <<up, wpc, wreq>> /\ down[cur] # <<>> /\ down' = Take(down, cur)
      BY <2>1, <2>5 DEF Going
    <3>2. cur \in Links /\ cur <= opened
      BY <2>2, <2>5 DEF Locked, ClientTypes
    <3>3. \A d \in Conns : d # cur => down'[d] = down[d]
      BY <3>1, <3>2, TakeDownDoes
    <3>4. ASSUME NEW d \in Conns PROVE LineOf(d)'
      BY <3>1, <3>2, <3>3, <1>0, LineSame DEF Lines
    <3> QED
      BY <3>4 DEF Lines
  <2>6. CASE pc[t] = "send"
    <3> DEFINE q == Request(kind[t], used + 1)
    <3>1. /\ opened' = opened /\ UNCHANGED <<down, wpc, wreq>> /\ used < MaxIds
          /\ \/ wpc[cur] = "gone" /\ up' = up
             \/ wpc[cur] # "gone" /\ up' = Put(up, cur, q)
      BY <2>1, <2>6 DEF Going
    <3>2. cur \in Links /\ cur \in Conns /\ cur = conn /\ cur <= opened
      BY <2>2, <2>6 DEF Locked, ClientTypes
    <3>3. Rest(cur)
      BY <2>2, <2>6, <3>2 DEF Talk
    <3>4. q \in Frames /\ q.form = "good" /\ q.id = used + 1 /\ used + 1 \in Ids
      <4>1. used + 1 \in Ids
        BY <3>1 DEF ClientTypes, Ids
      <4>2. kind[t] \in Kinds
        BY DEF ClientTypes
      <4> QED
        BY <4>1, <4>2, MadeRequest
    <3>5. CASE up' = up
      <4>1. ASSUME NEW d \in Conns PROVE LineOf(d)'
        BY <3>1, <3>5, <1>0, LineSame DEF Lines
      <4> QED
        BY <4>1 DEF Lines
    <3>6. CASE wpc[cur] # "gone" /\ up' = Put(up, cur, q)
      <4>1. up'[cur] = Append(<<>>, q) /\ \A d \in Conns : d # cur => up'[d] = up[d]
        BY <3>2, <3>3, <3>4, <3>6, PutUpDoes DEF Rest
      <4>2. up'[cur] # <<>> /\ Len(up'[cur]) = 1 /\ up'[cur][1] = q
        BY <3>4, <4>1, Single
      <4>3. ASSUME NEW d \in Conns, d # cur PROVE LineOf(d)'
        BY <3>1, <4>1, <4>3, <1>0, LineSame DEF Lines
      <4>4. ASSUME NEW d \in Conns, d = cur PROVE LineOf(d)'
        <5>1. wpc'[d] = "loop"
          BY <3>1, <3>3, <3>6, <4>4 DEF Rest
        <5>2. ~(opened' < d) /\ d \notin Peers
          BY <3>1, <3>2, <4>4, <1>0
        <5> QED
          BY <3>4, <4>2, <4>4, <5>1, <5>2 DEF LineOf, InHand
      <4> QED
        BY <4>3, <4>4 DEF Lines
    <3> QED
      BY <3>1, <3>5, <3>6
  <2> QED
    BY <2>1, <2>3, <2>4, <2>5, <2>6 DEF Going
<1>4. CASE ServerSide
  BY <1>4, LinesServe
<1>5. CASE Strays
  <2>1. opened' \in Nat /\ opened <= opened' /\ UNCHANGED <<up, down, wreq>>
    BY <1>5, StraysDo DEF Strays, ClientTypes
  <2>2. ASSUME NEW d \in Conns PROVE LineOf(d)'
    <3>1. LineOf(d)
      BY DEF Lines
    <3>2. CASE wpc'[d] = wpc[d]
      BY <3>1, <3>2, <2>1, <1>0, LineSame
    <3>3. CASE d \in Links /\ d = opened + 1 /\ opened' = opened + 1 /\ wpc'[d] = "hello"
      <4>1. opened < d /\ ~(opened' < d) /\ d \notin Peers
        BY <3>3, <1>0
      <4>2. up'[d] = <<>>
        BY <3>1, <3>3, <4>1, <2>1 DEF LineOf
      <4> QED
        BY <3>3, <4>1, <4>2 DEF LineOf, InHand
    <3> QED
      BY <1>5, <3>2, <3>3, StraysDo
  <2> QED
    BY <2>2 DEF Lines
<1> QED
  BY <1>1, <1>2, <1>3, <1>4, <1>5, NextKinds


---------------------------------------------------------------------------
\* A connection that is left alone owes what it owed.
LEMMA OutstandingSame ==
  ASSUME NEW d \in Conns, up'[d] = up[d], wpc'[d] = wpc[d], wreq'[d] = wreq[d], NEW i
  PROVE  Outstanding(d, i)' <=> Outstanding(d, i)
BY DEF Outstanding

\* What a server step does to the requests it owes an answer: none is added, and
\* the one that is decided is over.
LEMMA ServerOwes ==
  ASSUME ClientTypes, ServerTypes, WireTypes, Lines, ServerSide
  PROVE  /\ \A d \in Links, i \in Ids : Outstanding(d, i)' => Outstanding(d, i)
         /\ \/ said' = said
            \/ \E c \in Links, j \in Ids, v \in Decisions :
                 Outstanding(c, j) /\ ~Outstanding(c, j)' /\ said' = [said EXCEPT ![j] = v]
<1> USE Names
<1>1. ASSUME NEW c \in Conns, Serves(c), c \in Links => \A i \in Ids : Outstanding(c, i)' => Outstanding(c, i)
      PROVE  \A d \in Links, i \in Ids : Outstanding(d, i)' => Outstanding(d, i)
  <2> TAKE d \in Links, i \in Ids
  <2>1. CASE d = c
    BY <1>1, <2>1
  <2>2. CASE d # c
    <3>1. up'[d] = up[d] /\ wpc'[d] = wpc[d] /\ wreq'[d] = wreq[d]
      BY <1>1, <2>2 DEF Serves
    <3> QED
      BY <3>1, OutstandingSame
  <2> QED
    BY <2>1, <2>2
<1>2. ASSUME NEW c \in Conns, \E ok \in BOOLEAN : Handshake(c, ok)
      PROVE  Serves(c) /\ said' = said /\ \A i \in Ids : ~Outstanding(c, i)'
  <2>1. Serves(c) /\ said' = said /\ wpc'[c] \in {"loop", "gone"} /\ up'[c] = <<>>
    BY <1>2, HandshakeDoes
  <2> QED
    BY <2>1 DEF Outstanding, InHand
<1>3. ASSUME NEW c \in Conns, Read(c)
      PROVE  Serves(c) /\ said' = said /\ \A i \in Ids : Outstanding(c, i)' => Outstanding(c, i)
  <2>1. /\ Serves(c) /\ said' = said /\ wpc[c] = "loop" /\ up[c] # <<>> /\ up'[c] = <<>>
        /\ (wpc'[c] = "test" /\ wreq'[c] = up[c][1]) \/ wpc'[c] \in {"loop", "gone"}
    BY <1>3, ReadDoes
  <2> QED
    BY <2>1 DEF Outstanding, InHand
<1>4. ASSUME NEW c \in Conns, Test(c)
      PROVE  Serves(c) /\ said' = said /\ \A i \in Ids : Outstanding(c, i)' => Outstanding(c, i)
  <2>1. /\ Serves(c) /\ said' = said /\ wpc[c] = "test" /\ up'[c] = <<>>
        /\ (wpc'[c] = "insert" /\ wreq'[c] = wreq[c]) \/ wpc'[c] = "loop"
    BY <1>4, TestDoes
  <2> QED
    BY <2>1 DEF Outstanding, InHand
<1>5. ASSUME NEW c \in Conns, Insert(c)
      PROVE  Serves(c) /\ said' = said /\ \A i \in Ids : Outstanding(c, i)' => Outstanding(c, i)
  <2>1. Serves(c) /\ said' = said /\ wpc[c] = "insert" /\ up'[c] = <<>> /\ wpc'[c] = "dispatch" /\ wreq'[c] = wreq[c]
    BY <1>5, InsertDoes
  <2> QED
    BY <2>1 DEF Outstanding, InHand
<1>6. ASSUME NEW c \in Conns, NEW v \in Decisions \cup {"error", "silent"}, Dispatch(c, v)
      PROVE  /\ Serves(c) /\ \A i \in Ids : ~Outstanding(c, i)'
             /\ \/ said' = said
                \/ /\ c \in Links /\ v \in Decisions /\ wreq[c].id \in Ids /\ Outstanding(c, wreq[c].id)
                   /\ said' = [said EXCEPT ![wreq[c].id] = v]
  <2>1. /\ Serves(c) /\ wpc[c] = "dispatch" /\ up'[c] = <<>> /\ wreq[c].id \in Ids /\ wpc'[c] = "loop"
        /\ \/ v \in Decisions /\ said' = [said EXCEPT ![wreq[c].id] = IF c \in Links THEN v ELSE @]
           \/ said' = said
    BY <1>6, DispatchDoes
  <2>2. \A i \in Ids : ~Outstanding(c, i)'
    BY <2>1 DEF Outstanding, InHand
  <2>3. Outstanding(c, wreq[c].id)
    BY <2>1 DEF Outstanding, InHand
  <2>4. c \notin Links => said' = said
    BY <2>1 DEF ServerTypes
  <2> QED
    BY <2>1, <2>2, <2>3, <2>4
<1>7. ASSUME NEW c \in Conns, Hangup(c)
      PROVE  Serves(c) /\ said' = said /\ \A i \in Ids : ~Outstanding(c, i)'
  <2>1. Serves(c) /\ said' = said /\ wpc'[c] = "gone"
    BY <1>7, HangupDoes
  <2> QED
    BY <2>1 DEF Outstanding, InHand
<1>8. ASSUME NEW c \in Peers, NEW m \in PeerFrames, Present(c, m)
      PROVE  Serves(c) /\ said' = said /\ c \notin Links
  BY <1>8, PresentDoes DEF ClientTypes
<1>9. CASE Die
  <2>1. said' = said /\ \A d \in Conns : up'[d] = <<>> /\ wpc'[d] \in {"none", "gone"}
    BY <1>9, DieDoes
  <2>2. \A d \in Links, i \in Ids : ~Outstanding(d, i)'
    BY <2>1 DEF Outstanding, InHand
  <2> QED
    BY <2>1, <2>2
<1>10. ASSUME NEW c \in Conns, ServerStep(c), ~\E v \in Decisions \cup {"error", "silent"} : Dispatch(c, v)
       PROVE  Serves(c) /\ said' = said /\ \A i \in Ids : Outstanding(c, i)' => Outstanding(c, i)
  BY <1>2, <1>3, <1>4, <1>5, <1>7, <1>10 DEF ServerStep
<1>11. ASSUME NEW c \in Conns, ServerStep(c), ~\E v \in Decisions \cup {"error", "silent"} : Dispatch(c, v)
       PROVE  said' = said /\ \A d \in Links, i \in Ids : Outstanding(d, i)' => Outstanding(d, i)
  BY <1>1, <1>10, <1>11
<1>12. ASSUME NEW c \in Conns, NEW v \in Decisions \cup {"error", "silent"}, Dispatch(c, v)
       PROVE  /\ \A d \in Links, i \in Ids : Outstanding(d, i)' => Outstanding(d, i)
              /\ \/ said' = said
                 \/ \E e \in Links, j \in Ids, w \in Decisions :
                      Outstanding(e, j) /\ ~Outstanding(e, j)' /\ said' = [said EXCEPT ![j] = w]
  <2>1. \A d \in Links, i \in Ids : Outstanding(d, i)' => Outstanding(d, i)
    BY <1>1, <1>6, <1>12
  <2>2. CASE said' = said
    BY <2>1, <2>2
  <2>3. CASE said' # said
    <3>1. /\ c \in Links /\ v \in Decisions /\ wreq[c].id \in Ids /\ Outstanding(c, wreq[c].id)
          /\ said' = [said EXCEPT ![wreq[c].id] = v] /\ \A i \in Ids : ~Outstanding(c, i)'
      BY <1>6, <1>12, <2>3
    <3>2. PICK j \in Ids : j = wreq[c].id
      BY <3>1
    <3>3. Outstanding(c, j) /\ ~Outstanding(c, j)' /\ said' = [said EXCEPT ![j] = v]
      BY <3>1, <3>2
    <3> QED
      BY <2>1, <3>1, <3>3
  <2> QED
    BY <2>2, <2>3
<1>13. ASSUME NEW c \in Peers, NEW m \in PeerFrames, Present(c, m)
       PROVE  said' = said /\ \A d \in Links, i \in Ids : Outstanding(d, i)' => Outstanding(d, i)
  BY <1>1, <1>8, <1>13
<1> QED
  BY <1>9, <1>11, <1>12, <1>13 DEF ServerSide

\* Every step keeps Once; Send hands out an id that was never used.
LEMMA OnceNext ==
  ASSUME ClientTypes, ServerTypes, WireTypes, Locked, Lines, Talk, Once, Next
  PROVE  Once'
<1> USE Names
<1>0. used \in Nat /\ \A i \in Ids : i \in Nat
  BY DEF ClientTypes
<1>1. ASSUME UNCHANGED <<used, said>>, \A d \in Links, i \in Ids : Outstanding(d, i)' => Outstanding(d, i)
      PROVE  Once'
  BY <1>1 DEF Once
<1>2. CASE Aside
  <2>1. UNCHANGED <<used, said, up, wpc, wreq>>
    BY <1>2 DEF Aside
  <2>2. \A d \in Links, i \in Ids : Outstanding(d, i)' => Outstanding(d, i)
    BY <2>1, OutstandingSame
  <2> QED
    BY <1>1, <2>1, <2>2
<1>3. ASSUME NEW t \in Threads, Ends(t) PROVE Once'
  <2>1. UNCHANGED <<used, said, up, wpc, wreq>>
    BY <1>3, EndsDo DEF Ended
  <2>2. \A d \in Links, i \in Ids : Outstanding(d, i)' => Outstanding(d, i)
    BY <2>1, OutstandingSame
  <2> QED
    BY <1>1, <2>1, <2>2
<1>4. ASSUME NEW t \in Threads, Goes(t) PROVE Once'
  <2>1. Going(t)
    BY <1>4, GoesDo
  <2>2. lock = t /\ lock # None /\ wreq' = wreq /\ said' = said
    BY <2>1 DEF Going, Locked, Busy
  <2>3. CASE pc'[t] = "send"
    <3>1. UNCHANGED <<used, said, up, wpc, wreq>>
      BY <2>1, <2>2, <2>3 DEF Going
    <3>2. \A d \in Links, i \in Ids : Outstanding(d, i)' => Outstanding(d, i)
      BY <3>1, OutstandingSame
    <3> QED
      BY <1>1, <3>1, <3>2
  <2>4. CASE pc'[t] = "greet"
    <3> DEFINE h == Request("HELLO", None)
    <3>0. PICK n : n = opened + 1
      OBVIOUS
    <3>1. opened < MaxConns /\ used' = used /\ up' = Put(up, n, h) /\ wpc' = [wpc EXCEPT ![n] = "hello"]
      BY <2>1, <2>4, <3>0 DEF Going
    <3>2. n \in Links /\ n \in Conns
      BY <3>0, <3>1 DEF ClientTypes, Links
    <3>3. h \in Frames
      BY MadeRequest
    <3> HIDE DEF h
    <3>4. \A d \in Conns : d # n => up'[d] = up[d]
      BY <3>1, <3>2, <3>3, PutUpDoes
    <3>5. wpc'[n] = "hello" /\ \A d \in Conns : d # n => wpc'[d] = wpc[d]
      BY <3>1, <3>2 DEF WireTypes
    <3>6. \A i \in Ids : ~Outstanding(n, i)'
      BY <3>5 DEF Outstanding, InHand
    <3>7. \A d \in Links, i \in Ids : Outstanding(d, i)' => Outstanding(d, i)
      BY <2>2, <3>4, <3>5, <3>6, OutstandingSame
    <3> QED
      BY <1>1, <2>2, <3>1, <3>7
  <2>5. CASE pc'[t] = "await"
    <3> DEFINE q == Request(kind[t], used + 1)
    <3>1. /\ wpc' = wpc /\ cur' = cur /\ pc[t] = "send" /\ used < MaxIds /\ used' = used + 1
          /\ \/ up' = up
             \/ wpc[cur] # "gone" /\ up' = Put(up, cur, q)
      BY <2>1, <2>5 DEF Going
    <3>2. cur \in Links /\ cur \in Conns /\ cur = conn
      BY <2>2, <3>1 DEF Locked, ClientTypes
    <3>3. Rest(cur)
      BY <2>2, <3>1, <3>2 DEF Talk
    <3>4. q \in Frames /\ q.id = used + 1 /\ used + 1 \in Ids
      <4>1. used + 1 \in Ids
        BY <3>1 DEF ClientTypes, Ids
      <4>2. kind[t] \in Kinds
        BY DEF ClientTypes
      <4> QED
        BY <4>1, <4>2, MadeRequest
    <3> HIDE DEF q
    <3>5. ASSUME NEW d \in Links, NEW i \in Ids, Outstanding(d, i)'
          PROVE  Outstanding(d, i) \/ (d = cur /\ i = used + 1)
      <4>1. CASE up'[d] = up[d]
        BY <4>1, <3>1, <2>2, <3>5, OutstandingSame
      <4>2. CASE up'[d] # up[d]
        <5>1. up' = Put(up, cur, q)
          BY <3>1, <4>2
        <5>2. d = cur /\ up'[cur] = Append(<<>>, q)
          BY <5>1, <4>2, <3>2, <3>3, <3>4, PutUpDoes DEF Rest
        <5>3. up'[cur][1] = q
          BY <3>4, <5>2, Single
        <5>4. wpc'[d] = wpc[d] /\ wpc[d] \in {"loop", "gone"}
          BY <3>1, <3>3, <5>2 DEF Rest
        <5> QED
          BY <3>4, <3>5, <5>2, <5>3, <5>4 DEF Outstanding, InHand
      <4> QED
        BY <4>1, <4>2
    <3>6. said[used + 1] = "none"
      BY <3>4, <1>0 DEF Once
    <3>7. \A d \in Links : ~Outstanding(d, used + 1)
      BY <3>4, <1>0 DEF Once
    <3>8. \A d \in Links, i \in Ids : Outstanding(d, i)' => i <= used' /\ said'[i] = "none"
      BY <3>1, <3>5, <3>6, <2>2, <1>0 DEF Once
    <3>9. \A c, d \in Links, i \in Ids : Outstanding(c, i)' /\ Outstanding(d, i)' => c = d
      BY <3>5, <3>7 DEF Once
    <3>10. \A i \in Ids : used' < i => said'[i] = "none"
      BY <3>1, <2>2, <1>0 DEF Once
    <3> QED
      BY <3>8, <3>9, <3>10 DEF Once
  <2> QED
    BY <2>1, <2>3, <2>4, <2>5 DEF Going, Busy
<1>5. CASE ServerSide
  <2>1. used' = used
    BY <1>5, ServerSideRest DEF ClientRest
  <2>2. \A d \in Links, i \in Ids : Outstanding(d, i)' => Outstanding(d, i)
    BY <1>5, ServerOwes
  <2>3. CASE said' = said
    BY <1>1, <2>1, <2>2, <2>3
  <2>4. CASE said' # said
    <3>1. PICK c \in Links, j \in Ids, v \in Decisions :
            Outstanding(c, j) /\ ~Outstanding(c, j)' /\ said' = [said EXCEPT ![j] = v]
      BY <1>5, <2>4, ServerOwes
    <3>2. j <= used /\ \A i \in Ids : i # j => said'[i] = said[i]
      BY <3>1 DEF Once, ServerTypes
    <3>3. \A d \in Links, i \in Ids : Outstanding(d, i)' => i # j
      BY <2>2, <3>1 DEF Once
    <3>4. \A d \in Links, i \in Ids : Outstanding(d, i)' => i <= used' /\ said'[i] = "none"
      BY <2>1, <2>2, <3>2, <3>3 DEF Once
    <3>5. \A d, e \in Links, i \in Ids : Outstanding(d, i)' /\ Outstanding(e, i)' => d = e
      BY <2>2 DEF Once
    <3>6. \A i \in Ids : used' < i => said'[i] = "none"
      BY <2>1, <3>2, <1>0 DEF Once
    <3> QED
      BY <3>4, <3>5, <3>6 DEF Once
  <2> QED
    BY <2>3, <2>4
<1>6. CASE Strays
  <2>1. UNCHANGED <<used, said, up, wreq>>
    BY <1>6 DEF Strays
  <2>2. ASSUME NEW d \in Links, NEW i \in Ids, Outstanding(d, i)' PROVE Outstanding(d, i)
    <3>1. wpc'[d] # "hello"
      BY <2>2 DEF Outstanding, InHand
    <3>2. wpc'[d] = wpc[d]
      BY <1>6, <3>1, StraysDo
    <3> QED
      BY <2>1, <2>2, <3>2, OutstandingSame
  <2> QED
    BY <1>1, <2>1, <2>2
<1> QED
  BY <1>2, <1>3, <1>4, <1>5, <1>6, NextKinds


---------------------------------------------------------------------------
\* A server step on the connection a request is using: rest is kept, and a
\* greeting or a request is answered once, truthfully.
LEMMA ServesLink ==
  ASSUME ClientTypes, ServerTypes, WireTypes, Lines, Once, ServerSide, NEW d \in Links, d \in near
  PROVE  /\ Rest(d) => Rest(d)'
         /\ cur = d /\ Greeting => Greeting'
         /\ cur = d /\ Awaiting => Awaiting'
<1> USE Names
<1>0. cur' = cur /\ rid' = rid /\ near' = near /\ used' = used
  BY ServerSideRest DEF ClientRest
<1>1. \A i \in Ids : said[i] \in Decisions => said'[i] = said[i]
  <2>1. CASE said' = said
    BY <2>1
  <2>2. CASE said' # said
    <3>1. PICK c \in Links, j \in Ids, v \in Decisions : Outstanding(c, j) /\ said' = [said EXCEPT ![j] = v]
      BY <2>2, ServerOwes
    <3>2. said[j] = "none" /\ "none" \notin Decisions
      BY <3>1 DEF Once, Decisions
    <3> QED
      BY <3>1, <3>2 DEF ServerTypes
  <2> QED
    BY <2>1, <2>2
<1>2. ASSUME up'[d] = up[d], down'[d] = down[d], wpc'[d] = wpc[d], wreq'[d] = wreq[d]
      PROVE  /\ Rest(d) => Rest(d)'
             /\ cur = d /\ Greeting => Greeting'
             /\ cur = d /\ Awaiting => Awaiting'
  <2>1. Rest(d) => Rest(d)'
    BY <1>2 DEF Rest
  <2>2. cur = d /\ Greeting => Greeting'
    BY <1>0, <1>2 DEF Greeting
  <2>3. ASSUME cur = d, Awaiting PROVE Awaiting'
    <3>1. rid' \in Ids /\ rid' <= used'
      BY <1>0, <2>3 DEF Awaiting
    <3>2. CASE Outstanding(cur, rid) /\ down[cur] = <<>>
      <4>1. Outstanding(cur, rid)' /\ down'[cur'] = <<>>
        BY <3>2, <1>0, <1>2, <2>3 DEF Outstanding
      <4> QED
        BY <3>1, <4>1 DEF Awaiting
    <3>3. CASE /\ wpc[cur] \in {"loop", "gone"} /\ up[cur] = <<>>
               /\ down[cur] # <<>> => Len(down[cur]) = 1 /\ Truthful(down[cur][1], rid)
      <4>1. wpc'[cur'] \in {"loop", "gone"} /\ up'[cur'] = <<>>
        BY <3>3, <1>0, <1>2, <2>3
      <4>2. down'[cur'] # <<>> => Len(down'[cur']) = 1 /\ Truthful(down[cur][1], rid)'
        BY <3>3, <1>0, <1>1, <1>2, <2>3, <3>1 DEF Truthful
      <4> QED
        BY <3>1, <4>1, <4>2 DEF Awaiting
    <3> QED
      BY <2>3, <3>2, <3>3 DEF Awaiting
  <2> QED
    BY <2>1, <2>2, <2>3
<1>3. ASSUME NEW c \in Conns, Serves(c), c # d
      PROVE  /\ Rest(d) => Rest(d)'
             /\ cur = d /\ Greeting => Greeting'
             /\ cur = d /\ Awaiting => Awaiting'
  <2>1. up'[d] = up[d] /\ down'[d] = down[d] /\ wpc'[d] = wpc[d] /\ wreq'[d] = wreq[d]
    BY <1>3 DEF Serves
  <2> QED
    BY <2>1, <1>2
<1>4. ASSUME \E ok \in BOOLEAN : Handshake(d, ok)
      PROVE  ~Rest(d) /\ (cur = d => ~Awaiting) /\ (cur = d /\ Greeting => Greeting')
  <2>1. /\ wpc[d] = "hello" /\ wpc'[d] \in {"loop", "gone"} /\ up'[d] = <<>>
        /\ \E m \in Answers : Told(d, m)
    BY <1>4, HandshakeDoes
  <2>2. ~Rest(d) /\ (cur = d => ~Awaiting)
    BY <2>1 DEF Rest, Awaiting, Outstanding, InHand
  <2>3. ASSUME cur = d, Greeting PROVE Greeting'
    <3>1. down[d] = <<>>
      BY <2>1, <2>3 DEF Greeting
    <3>2. PICK m \in Answers : down'[d] = Append(<<>>, m)
      BY <2>1, <3>1 DEF Told
    <3>3. Len(down'[d]) = 1
      BY <3>2, Single
    <3> QED
      BY <2>1, <2>3, <3>3, <1>0 DEF Greeting
  <2> QED
    BY <2>2, <2>3
<1>5. ASSUME Read(d)
      PROVE  ~Rest(d) /\ (cur = d => ~Greeting) /\ (cur = d /\ Awaiting => Awaiting')
  <2>1. /\ wpc[d] = "loop" /\ up[d] # <<>> /\ up'[d] = <<>>
        /\ wpc'[d] = "test" /\ wreq'[d] = up[d][1] /\ down'[d] = down[d]
    BY <1>5, ReadDoes
  <2>2. ~Rest(d) /\ (cur = d => ~Greeting)
    BY <2>1 DEF Rest, Greeting
  <2>3. ASSUME cur = d, Awaiting PROVE Awaiting'
    <3>1. rid \in Ids /\ rid <= used /\ up[d][1].id = rid /\ down[d] = <<>>
      BY <2>1, <2>3 DEF Awaiting, Outstanding, InHand
    <3>2. Outstanding(cur, rid)'
      BY <2>1, <2>3, <3>1, <1>0 DEF Outstanding, InHand
    <3> QED
      BY <2>1, <2>3, <3>1, <3>2, <1>0 DEF Awaiting
  <2> QED
    BY <2>2, <2>3
<1>6. ASSUME wpc[d] \in InHand
      PROVE  /\ ~Rest(d) /\ (cur = d => ~Greeting)
             /\ cur = d /\ Awaiting => rid \in Ids /\ rid <= used /\ wreq[d].id = rid /\ down[d] = <<>>
  BY <1>6 DEF Rest, Greeting, Awaiting, Outstanding, InHand
<1>7. ASSUME cur = d, Awaiting, wpc'[d] = "loop", up'[d] = <<>>, down[d] = <<>>,
             NEW m \in Answers, Told(d, m), m.id = rid, m.ok => m.decision \in Decisions /\ said'[rid] = m.decision
      PROVE  Awaiting'
  <2>1. down'[d] = Append(<<>>, m)
    BY <1>7 DEF Told
  <2>2. Len(down'[d]) = 1 /\ down'[d][1] = m
    BY <2>1, Single
  <2>3. Truthful(m, rid)'
    BY <1>7, <1>0 DEF Truthful
  <2>4. Truthful(down[cur][1], rid)'
    BY <2>2, <2>3, <1>0, <1>7 DEF Truthful
  <2> QED
    BY <1>7, <2>2, <2>4, <1>0 DEF Awaiting
<1>8. ASSUME Test(d)
      PROVE  ~Rest(d) /\ (cur = d => ~Greeting) /\ (cur = d /\ Awaiting => Awaiting')
  <2>1. /\ wpc[d] = "test" /\ up'[d] = <<>>
        /\ \/ wpc'[d] = "loop" /\ \E m \in Answers : Told(d, m) /\ m.id = wreq[d].id /\ ~m.ok
           \/ wpc'[d] = "insert" /\ wreq'[d] = wreq[d] /\ down'[d] = down[d]
    BY <1>8, TestDoes
  <2>2. ASSUME cur = d, Awaiting PROVE Awaiting'
    <3>1. rid \in Ids /\ rid <= used /\ wreq[d].id = rid /\ down[d] = <<>>
      BY <1>6, <2>1, <2>2 DEF InHand
    <3>2. CASE wpc'[d] = "loop"
      BY <2>1, <2>2, <3>1, <3>2, <1>7
    <3>3. CASE wpc'[d] = "insert" /\ wreq'[d] = wreq[d] /\ down'[d] = down[d]
      <4>1. Outstanding(cur, rid)'
        BY <2>2, <3>1, <3>3, <1>0 DEF Outstanding, InHand
      <4> QED
        BY <2>2, <3>1, <3>3, <4>1, <1>0 DEF Awaiting
    <3> QED
      BY <2>1, <3>2, <3>3
  <2> QED
    BY <2>1, <2>2, <1>6 DEF InHand
<1>9. ASSUME Insert(d)
      PROVE  ~Rest(d) /\ (cur = d => ~Greeting) /\ (cur = d /\ Awaiting => Awaiting')
  <2>1. wpc[d] = "insert" /\ up'[d] = <<>> /\ wpc'[d] = "dispatch" /\ wreq'[d] = wreq[d] /\ down'[d] = down[d]
    BY <1>9, InsertDoes
  <2>2. ASSUME cur = d, Awaiting PROVE Awaiting'
    <3>1. rid \in Ids /\ rid <= used /\ wreq[d].id = rid /\ down[d] = <<>>
      BY <1>6, <2>1, <2>2 DEF InHand
    <3>2. Outstanding(cur, rid)'
      BY <2>1, <2>2, <3>1, <1>0 DEF Outstanding, InHand
    <3> QED
      BY <2>1, <2>2, <3>1, <3>2, <1>0 DEF Awaiting
  <2> QED
    BY <2>1, <2>2, <1>6 DEF InHand
<1>10. ASSUME NEW v \in Decisions \cup {"error", "silent"}, Dispatch(d, v)
      PROVE  ~Rest(d) /\ (cur = d => ~Greeting) /\ (cur = d /\ Awaiting => Awaiting')
  <2>1. /\ wpc[d] = "dispatch" /\ up'[d] = <<>> /\ wpc'[d] = "loop"
        /\ \/ /\ v \in Decisions /\ said' = [said EXCEPT ![wreq[d].id] = IF d \in Links THEN v ELSE @]
              /\ \E m \in Answers : Told(d, m) /\ m.id = wreq[d].id /\ m.decision = v
           \/ \E m \in Answers : Told(d, m) /\ m.id = wreq[d].id /\ ~m.ok
           \/ down'[d] = down[d]
    BY <1>10, DispatchDoes
  <2>2. ASSUME cur = d, Awaiting PROVE Awaiting'
    <3>1. rid \in Ids /\ rid <= used /\ wreq[d].id = rid /\ down[d] = <<>>
      BY <1>6, <2>1, <2>2 DEF InHand
    <3>2. CASE /\ v \in Decisions /\ said' = [said EXCEPT ![wreq[d].id] = IF d \in Links THEN v ELSE @]
               /\ \E m \in Answers : Told(d, m) /\ m.id = wreq[d].id /\ m.decision = v
      <4>1. said'[rid] = v
        BY <3>1, <3>2 DEF ServerTypes
      <4>2. PICK m \in Answers : Told(d, m) /\ m.id = wreq[d].id /\ m.decision = v
        BY <3>2
      <4> QED
        BY <2>1, <2>2, <3>1, <3>2, <4>1, <4>2, <1>7
    <3>3. CASE \E m \in Answers : Told(d, m) /\ m.id = wreq[d].id /\ ~m.ok
      BY <2>1, <2>2, <3>1, <3>3, <1>7
    <3>4. CASE down'[d] = down[d]
      BY <2>1, <2>2, <3>1, <3>4, <1>0 DEF Awaiting
    <3> QED
      BY <2>1, <3>2, <3>3, <3>4
  <2> QED
    BY <2>1, <2>2, <1>6 DEF InHand
<1>11. ~Hangup(d)
  BY HangupDoes
<1>12. ASSUME ServerStep(d)
       PROVE  /\ Rest(d) => Rest(d)'
              /\ cur = d /\ Greeting => Greeting'
              /\ cur = d /\ Awaiting => Awaiting'
  BY <1>4, <1>5, <1>8, <1>9, <1>10, <1>11, <1>12 DEF ServerStep
<1>13. ASSUME NEW c \in Conns, ServerStep(c), c # d
       PROVE  /\ Rest(d) => Rest(d)'
              /\ cur = d /\ Greeting => Greeting'
              /\ cur = d /\ Awaiting => Awaiting'
  <2>1. Serves(c)
    BY <1>13, HandshakeDoes, ReadDoes, TestDoes, InsertDoes, DispatchDoes, HangupDoes DEF ServerStep
  <2> QED
    BY <2>1, <1>3, <1>13
<1>14. ASSUME NEW c \in Peers, NEW m \in PeerFrames, Present(c, m)
       PROVE  /\ Rest(d) => Rest(d)'
              /\ cur = d /\ Greeting => Greeting'
              /\ cur = d /\ Awaiting => Awaiting'
  <2>1. Serves(c) /\ c # d
    BY <1>14, PresentDoes DEF ClientTypes
  <2> QED
    BY <2>1, <1>3
<1>15. CASE Die
  <2>1. said' = said /\ up'[d] = <<>> /\ down'[d] = down[d] /\ wpc'[d] \in {"none", "gone"}
        /\ (wpc'[d] = "none" <=> wpc[d] = "none")
    BY <1>15, DieDoes
  <2>2. Rest(d) => Rest(d)'
    BY <2>1 DEF Rest
  <2>3. cur = d /\ Greeting => Greeting'
    BY <2>1, <1>0 DEF Greeting
  <2>4. ASSUME cur = d, Awaiting PROVE Awaiting'
    <3>1. rid' \in Ids /\ rid' <= used' /\ wpc'[cur'] = "gone" /\ up'[cur'] = <<>>
      BY <2>1, <2>4, <1>0 DEF Awaiting, Outstanding, InHand
    <3>2. down'[cur'] # <<>> => Len(down'[cur']) = 1 /\ Truthful(down[cur][1], rid)'
      BY <2>1, <2>4, <1>0 DEF Awaiting, Truthful
    <3> QED
      BY <3>1, <3>2 DEF Awaiting
  <2> QED
    BY <2>2, <2>3, <2>4
<1> QED
  BY <1>12, <1>13, <1>14, <1>15 DEF ServerSide


---------------------------------------------------------------------------
\* Every step keeps Talk.
LEMMA TalkNext ==
  ASSUME ClientTypes, ServerTypes, WireTypes, Locked, Lines, Once, Talk, Next
  PROVE  Talk'
<1> USE Names
<1>1. CASE Aside
  <2>0. UNCHANGED <<cur, rid, up, down, wpc, wreq, said, used>>
    BY <1>1 DEF Aside
  <2>1. conn' # None /\ (lock' = None \/ pc'[lock'] \in {"ensure", "send"}) =>
          conn' = conn /\ (lock = None \/ pc[lock] \in {"ensure", "send"})
    BY <1>1 DEF Aside, Locked, Busy, ClientTypes
  <2>2. /\ lock' # None /\ pc'[lock'] = "greet" => lock # None /\ pc[lock] = "greet"
        /\ lock' # None /\ pc'[lock'] = "await" => lock # None /\ pc[lock] = "await"
    BY <1>1 DEF Aside, Locked, Busy, ClientTypes
  <2>3. /\ \A c \in Links : Rest(c)' <=> Rest(c)
        /\ Greeting' <=> Greeting
        /\ Awaiting' <=> Awaiting
    BY <2>0 DEF Rest, Greeting, Awaiting, Outstanding, Truthful
  <2>4. conn \in Links \cup {None}
    BY DEF ClientTypes
  <2>5. conn' # None /\ (lock' = None \/ pc'[lock'] \in {"ensure", "send"}) => Rest(conn)'
    BY <2>1, <2>3, <2>4 DEF Talk, Rest
  <2> QED
    BY <2>2, <2>3, <2>5 DEF Talk
<1>2. ASSUME NEW t \in Threads, Ends(t) PROVE Talk'
  <2>1. /\ Ended(t) /\ lock = t /\ lock # None /\ lock' = None
        /\ UNCHANGED <<up, wpc>>
    BY <1>2, EndsDo DEF Ended, Locked
  <2>2. ASSUME conn' # None PROVE Rest(conn)'
    <3>1. CASE pc[t] = "ensure"
      <4>1. conn' = conn /\ down' = down
        BY <1>2, <2>1, <2>2, <3>1, EndsDo DEF Ended
      <4>2. Rest(conn)
        BY <2>1, <2>2, <3>1, <4>1 DEF Talk
      <4> QED
        BY <4>1, <4>2, <2>1 DEF Rest
    <3>2. CASE pc[t] # "ensure"
      <4>1. /\ down' = Take(down, cur) /\ down[cur] # <<>> /\ pc[t] \in {"greet", "await"} /\ cur \in Links
        <5>1. pc[t] \in {"greet", "await"}
          BY <2>1, <2>2, <3>2 DEF Ended
        <5>2. cur \in Links
          BY <2>1, <5>1 DEF Locked, ClientTypes
        <5>3. down' = Take(down, cur) /\ down[cur] # <<>>
          BY <1>2, <2>2, <3>2, EndsDo
        <5> QED
          BY <5>1, <5>2, <5>3
      <4>2. conn' = cur
        BY <2>1, <2>2, <3>2, <4>1 DEF Ended, Locked
      <4>3. wpc[cur] \in {"loop", "gone"} /\ up[cur] = <<>> /\ Len(down[cur]) = 1
        BY <2>1, <4>1 DEF Talk, Greeting, Awaiting
      <4>4. down'[cur] = <<>>
        <5>1. down'[cur] = Tail(down[cur]) /\ down[cur] \in Seq(Answers)
          BY <4>1, TakeDownDoes DEF WireTypes
        <5> QED
          BY <4>3, <5>1, Lone
      <4> QED
        BY <2>1, <4>2, <4>3, <4>4 DEF Rest
    <3> QED
      BY <3>1, <3>2
  <2> QED
    BY <2>1, <2>2 DEF Talk
<1>3. ASSUME NEW t \in Threads, Goes(t) PROVE Talk'
  <2>1. Going(t)
    BY <1>3, GoesDo
  <2>2. lock = t /\ lock # None /\ wreq' = wreq /\ lock' = t /\ said' = said
    BY <2>1 DEF Going, Locked
  <2>3. CASE pc[t] = "ensure" /\ pc'[t] = "send"
    <3>1. UNCHANGED <<conn, up, down, wpc>> /\ conn # None
      BY <2>1, <2>3 DEF Going
    <3>2. Rest(conn)
      BY <2>2, <2>3, <3>1 DEF Talk
    <3>3. Rest(conn)'
      BY <3>1, <3>2 DEF Rest
    <3> QED
      BY <2>2, <2>3, <3>3 DEF Talk
  <2>4. CASE pc'[t] = "greet"
    <3>0. PICK n : n = opened + 1
      OBVIOUS
    <3>1. opened < MaxConns /\ cur' = n /\ down' = down /\ wpc' = [wpc EXCEPT ![n] = "hello"]
      BY <2>1, <2>4, <3>0 DEF Going
    <3>2. n \in Links /\ n \in Conns /\ opened < n
      BY <3>0, <3>1 DEF ClientTypes, Links
    <3>3. LineOf(n)
      BY <3>2 DEF Lines
    <3>4. down'[n] = <<>> /\ wpc'[n] = "hello"
      BY <3>1, <3>2, <3>3 DEF LineOf, WireTypes
    <3>5. Greeting'
      BY <3>1, <3>4 DEF Greeting
    <3> QED
      BY <2>2, <2>4, <3>5 DEF Talk
  <2>5. CASE pc[t] = "greet" /\ pc'[t] = "send"
    <3>1. conn' = cur /\ UNCHANGED <<up, wpc>> /\ down[cur] # <<>> /\ down' = Take(down, cur)
      BY <2>1, <2>5 DEF Going
    <3>2. cur \in Links
      BY <2>2, <2>5 DEF Locked, ClientTypes
    <3>3. wpc[cur] \in {"loop", "gone"} /\ up[cur] = <<>> /\ Len(down[cur]) = 1
      BY <2>2, <2>5, <3>1 DEF Talk, Greeting
    <3>4. down'[cur] = <<>>
      <4>1. down'[cur] = Tail(down[cur]) /\ down[cur] \in Seq(Answers)
        BY <3>1, <3>2, TakeDownDoes DEF WireTypes
      <4> QED
        BY <3>3, <4>1, Lone
    <3>5. Rest(conn)'
      <4>1. wpc'[conn'] \in {"loop", "gone"} /\ up'[conn'] = <<>> /\ down'[conn'] = <<>>
        BY <3>1, <3>3, <3>4
      <4> QED
        BY <4>1 DEF Rest
    <3> QED
      BY <2>2, <2>5, <3>5 DEF Talk
  <2>6. CASE pc'[t] = "await"
    <3> DEFINE q == Request(kind[t], used + 1)
    <3>1. /\ UNCHANGED <<wpc, cur, down>> /\ pc[t] = "send" /\ used < MaxIds /\ used' = used + 1 /\ rid' = used + 1
          /\ \/ wpc[cur] = "gone" /\ up' = up
             \/ wpc[cur] # "gone" /\ up' = Put(up, cur, q)
      BY <2>1, <2>6 DEF Going
    <3>2. cur \in Links /\ cur \in Conns /\ cur = conn
      BY <2>2, <3>1 DEF Locked, ClientTypes
    <3>3. Rest(cur)
      BY <2>2, <3>1, <3>2 DEF Talk
    <3>4. q \in Frames /\ q.id = used + 1 /\ used + 1 \in Ids
      <4>1. used + 1 \in Ids
        BY <3>1 DEF ClientTypes, Ids
      <4>2. kind[t] \in Kinds
        BY DEF ClientTypes
      <4> QED
        BY <4>1, <4>2, MadeRequest
    <3> HIDE DEF q
    <3>5. rid' \in Ids /\ rid' <= used' /\ down'[cur'] = <<>>
      <4>1. down[cur] = <<>>
        BY <3>3 DEF Rest
      <4>2. rid' \in Ids /\ rid' = used'
        BY <3>1, <3>4
      <4>3. used' \in Nat
        BY <3>1 DEF ClientTypes
      <4> QED
        BY <3>1, <4>1, <4>2, <4>3
    <3>6. CASE wpc[cur] = "gone" /\ up' = up
      <4>1. wpc'[cur'] = "gone" /\ up'[cur'] = <<>>
        BY <3>1, <3>3, <3>6 DEF Rest
      <4>2. Awaiting'
        BY <3>5, <4>1 DEF Awaiting
      <4> QED
        BY <2>2, <2>6, <4>2 DEF Talk
    <3>7. CASE wpc[cur] # "gone" /\ up' = Put(up, cur, q)
      <4>1. up'[cur] = Append(<<>>, q)
        <5>1. up'[cur] = Append(up[cur], q)
          BY <3>2, <3>4, <3>7, PutUpDoes
        <5> QED
          BY <3>3, <5>1 DEF Rest
      <4>2. up'[cur] # <<>> /\ up'[cur][1] = q
        BY <3>4, <4>1, Single
      <4>3. wpc'[cur'] = "loop"
        BY <3>1, <3>3, <3>7 DEF Rest
      <4>4. Outstanding(cur, rid)'
        BY <3>1, <3>4, <4>2, <4>3 DEF Outstanding
      <4>5. Awaiting'
        BY <3>5, <4>4 DEF Awaiting
      <4> QED
        BY <2>2, <2>6, <4>5 DEF Talk
    <3> QED
      BY <3>1, <3>6, <3>7
  <2> QED
    BY <2>1, <2>3, <2>4, <2>5, <2>6 DEF Going
<1>4. CASE ServerSide
  <2>1. UNCHANGED <<lock, pc, conn, cur>>
    BY <1>4, ServerSideRest DEF ClientRest
  <2>2. /\ conn # None => conn \in Links /\ conn \in near
        /\ cur # None => cur \in Links /\ cur \in near
    BY DEF Locked, ClientTypes
  <2>3. ASSUME conn # None, Rest(conn) PROVE Rest(conn)'
    <3>1. \E d \in Links : d = conn /\ Rest(d)'
      BY <1>4, <2>2, <2>3, ServesLink
    <3> QED
      BY <3>1, <2>1 DEF Rest
  <2>4. lock # None /\ pc[lock] \in {"greet", "await"} => cur # None
    BY DEF Locked
  <2>5. cur # None => (Greeting => Greeting') /\ (Awaiting => Awaiting')
    BY <1>4, <2>2, ServesLink
  <2> QED
    BY <2>1, <2>3, <2>4, <2>5 DEF Talk
<1>5. CASE Strays
  <2>1. UNCHANGED <<lock, pc, conn, cur, rid, up, down, wreq, said, used>>
    BY <1>5 DEF Strays
  <2>2. ASSUME NEW d \in Links, d <= opened PROVE wpc'[d] = wpc[d]
    BY <1>5, <2>2, StraysDo DEF ClientTypes
  <2>3. /\ conn # None => wpc'[conn] = wpc[conn]
        /\ cur # None => wpc'[cur] = wpc[cur]
    BY <2>2 DEF Locked, ClientTypes
  <2>4. conn # None /\ Rest(conn) => Rest(conn)'
    BY <2>1, <2>3 DEF Rest
  <2>5. cur # None => (Greeting => Greeting') /\ (Awaiting => Awaiting')
    BY <2>1, <2>3 DEF Greeting, Awaiting, Outstanding, Truthful
  <2>6. lock # None /\ pc[lock] \in {"greet", "await"} => cur # None
    BY DEF Locked
  <2> QED
    BY <2>1, <2>4, <2>5, <2>6 DEF Talk
<1> QED
  BY <1>1, <1>2, <1>3, <1>4, <1>5, NextKinds

\* What the thread whose request ends was told.
LEMMA EndsTell ==
  ASSUME ClientTypes, WireTypes, Locked, Talk, NEW t \in Threads, Ends(t)
  PROVE  \E e \in Answers :
           /\ Return(t, e)
           /\ ~FailOpen /\ e.decision = "ALLOW" => e.ok
           /\ e.ok => e.id \in Ids /\ e.decision \in Decisions /\ said[e.id] = e.decision
<1>1. Degraded \in Answers /\ ~Degraded.ok /\ (~FailOpen => Degraded.decision # "ALLOW")
  BY DegradedType
<1>2. CASE Return(t, Degraded)
  BY <1>1, <1>2
<1>3. CASE Receive(t) /\ ~Return(t, Degraded)
  <2>1. /\ pc[t] = "await" /\ down[cur] # <<>> /\ Return(t, Evaluation(Head(down[cur])))
    BY <1>3 DEF Receive
  <2>2. lock = t /\ lock # None /\ cur \in Links
    BY <2>1, Names DEF Locked, Busy, ClientTypes
  <2>3. Awaiting
    BY <2>1, <2>2 DEF Talk
  <2>4. down[cur] \in Seq(Answers) /\ Len(down[cur]) = 1 /\ Truthful(down[cur][1], rid) /\ rid \in Ids
    BY <2>1, <2>2, <2>3, Names DEF Awaiting, WireTypes
  <2>5. Head(down[cur]) = down[cur][1] /\ down[cur][1] \in Answers
    BY <2>4, Lone
  <2>6. PICK m \in Answers : m = Head(down[cur]) /\ Truthful(m, rid)
    BY <2>4, <2>5
  <2>7. Return(t, Evaluation(m))
    BY <2>1, <2>6
  <2>8. /\ Evaluation(m) \in Answers
        /\ Evaluation(m).ok => m.ok /\ Evaluation(m).id = rid /\ Evaluation(m).decision = m.decision
        /\ ~FailOpen /\ Evaluation(m).decision = "ALLOW" => Evaluation(m).ok
    BY EvaluationType
  <2>9. Evaluation(m).ok => /\ Evaluation(m).id \in Ids /\ Evaluation(m).decision \in Decisions
                            /\ said[Evaluation(m).id] = Evaluation(m).decision
    BY <2>4, <2>6, <2>8 DEF Truthful
  <2> QED
    BY <2>7, <2>8, <2>9
<1>4. CASE ~Receive(t)
  <2>1. lock' = None /\ pc[t] = "greet" => lock # None
    BY Names DEF Locked, Busy
  <2>2. Return(t, Degraded)
    BY <1>4, <2>1 DEF Ends, Unconnected, Greeted, Ungreeted, Unsent, Timeout
  <2> QED
    BY <1>2, <2>2
<1> QED
  BY <1>2, <1>3, <1>4

\* Every step keeps Heard: a decision once taken is not changed.
LEMMA HeardNext ==
  ASSUME ClientTypes, ServerTypes, WireTypes, Locked, Lines, Once, Talk, Heard, Next
  PROVE  Heard'
<1> USE Names
<1>1. CASE Aside
  <2>1. UNCHANGED <<ret, said>>
    BY <1>1 DEF Aside
  <2> QED
    BY <2>1 DEF Heard
<1>2. ASSUME NEW t \in Threads, Ends(t) PROVE Heard'
  <2>1. PICK e \in Answers :
           /\ Return(t, e)
           /\ ~FailOpen /\ e.decision = "ALLOW" => e.ok
           /\ e.ok => e.id \in Ids /\ e.decision \in Decisions /\ said[e.id] = e.decision
    BY <1>2, EndsTell
  <2>2. \A u \in Threads : ret'[u] = ret[u] \/ ret'[u] = e
    BY <2>1, ReturnDoes
  <2>3. said' = said
    BY <1>2, EndsDo DEF Ended
  <2> QED
    BY <2>1, <2>2, <2>3 DEF Heard
<1>3. ASSUME NEW t \in Threads, Goes(t) PROVE Heard'
  <2>1. UNCHANGED <<ret, said>>
    BY <1>3, GoesDo DEF Going
  <2> QED
    BY <2>1 DEF Heard
<1>4. CASE ServerSide
  <2>1. ret' = ret
    BY <1>4, ServerSideRest DEF ClientRest
  <2>2. \A i \in Ids : said[i] \in Decisions => said'[i] = said[i]
    <3>1. CASE said' = said
      BY <3>1
    <3>2. CASE said' # said
      <4>1. PICK c \in Links, j \in Ids, v \in Decisions : Outstanding(c, j) /\ said' = [said EXCEPT ![j] = v]
        BY <1>4, <3>2, ServerOwes
      <4>2. said[j] = "none" /\ "none" \notin Decisions
        BY <4>1 DEF Once, Decisions
      <4> QED
        BY <4>1, <4>2 DEF ServerTypes
    <3> QED
      BY <3>1, <3>2
  <2> QED
    BY <2>1, <2>2 DEF Heard
<1>5. CASE Strays
  BY <1>5 DEF Strays, Heard
<1> QED
  BY <1>1, <1>2, <1>3, <1>4, <1>5, NextKinds


---------------------------------------------------------------------------
\* Remember leaves the cache, extends it, or shifts it by one.
LEMMA RememberDoes ==
  ASSUME ServerTypes, NEW id \in Ids
  PROVE  \/ InCache(id) /\ Remember(id) = cache
         \/ /\ ~InCache(id) /\ Len(cache) + 1 <= CacheSize /\ Len(Remember(id)) = Len(cache) + 1
            /\ \A k \in DOMAIN cache : k \in DOMAIN Remember(id) /\ Remember(id)[k] = cache[k]
            /\ \A k \in DOMAIN Remember(id) : k \in DOMAIN cache \/ Remember(id)[k] = id
            /\ Len(cache) + 1 \in DOMAIN Remember(id) /\ Remember(id)[Len(cache) + 1] = id
         \/ /\ ~InCache(id) /\ Len(cache) = CacheSize /\ Len(Remember(id)) = Len(cache)
            /\ \A k \in DOMAIN cache : k # 1 => k - 1 \in DOMAIN Remember(id) /\ Remember(id)[k - 1] = cache[k]
            /\ \A k \in DOMAIN Remember(id) :
                 (k + 1 \in DOMAIN cache /\ Remember(id)[k] = cache[k + 1]) \/ Remember(id)[k] = id
            /\ CacheSize > 0 => Len(cache) \in DOMAIN Remember(id) /\ Remember(id)[Len(cache)] = id
<1>0. PICK n : n = Len(cache)
  OBVIOUS
<1>1. PICK a : a = Append(cache, id)
  OBVIOUS
<1>a. CacheSize \in Nat /\ cache \in Seq(Ids) /\ n \in Nat /\ n <= CacheSize /\ DOMAIN cache = 1 .. n
  BY <1>0, Names DEF ServerTypes
<1>b. a \in Seq(Ids) /\ Len(a) = n + 1 /\ a[n + 1] = id /\ \A k \in 1 .. n : a[k] = cache[k]
  BY <1>0, <1>1, <1>a
<1>c. DOMAIN a = 1 .. n + 1 /\ a # <<>>
  BY <1>a, <1>b
<1>2. CASE InCache(id)
  BY <1>2 DEF Remember
<1>3. CASE ~InCache(id) /\ ~(n + 1 > CacheSize)
  <2>1. Remember(id) = a
    BY <1>0, <1>1, <1>3 DEF Remember
  <2> QED
    BY <1>0, <1>a, <1>b, <1>c, <1>3, <2>1
<1>4. CASE ~InCache(id) /\ n + 1 > CacheSize
  <2>1. Remember(id) = Tail(a)
    BY <1>0, <1>1, <1>4 DEF Remember
  <2>2. Tail(a) \in Seq(Ids) /\ Len(Tail(a)) = n /\ DOMAIN Tail(a) = 1 .. n /\ \A k \in 1 .. n : Tail(a)[k] = a[k + 1]
    BY <1>a, <1>b, <1>c
  <2>3. n = CacheSize
    BY <1>a, <1>4
  <2>4. \A k \in 1 .. n : k # 1 => k - 1 \in 1 .. n /\ Tail(a)[k - 1] = cache[k]
    <3> TAKE k \in 1 .. n
    <3>1. CASE k # 1
      <4>1. k - 1 \in 1 .. n /\ (k - 1) + 1 = k
        BY <1>a, <3>1
      <4> QED
        BY <4>1, <2>2, <1>b, <1>c
    <3> QED
      BY <3>1
  <2>5. \A k \in 1 .. n : (k + 1 \in 1 .. n /\ Tail(a)[k] = cache[k + 1]) \/ Tail(a)[k] = id
    <3> TAKE k \in 1 .. n
    <3>1. k + 1 \in 1 .. n \/ k + 1 = n + 1
      BY <1>a
    <3> QED
      BY <3>1, <2>2, <1>b, <1>c
  <2>6. CacheSize > 0 => n \in 1 .. n /\ Tail(a)[n] = id
    BY <1>a, <1>b, <1>c, <2>2, <2>3
  <2> QED
    BY <1>0, <1>a, <1>4, <2>1, <2>2, <2>3, <2>4, <2>5, <2>6
<1> QED
  BY <1>2, <1>3, <1>4

\* Remember adds no id but the one it is given.
LEMMA RememberAdds ==
  ASSUME ServerTypes, NEW id \in Ids, NEW k \in DOMAIN Remember(id)
  PROVE  Remember(id)[k] = id \/ InCache(Remember(id)[k])
BY RememberDoes DEF InCache

\* The serving side keeps Tested.
LEMMA TestedServe ==
  ASSUME ServerTypes, WireTypes, Lines, Tested, ServerSide, ClientTypes
  PROVE  Tested'
<1> USE Names
<1>1. ASSUME NEW c \in Conns, Serves(c), wpc'[c] # "insert", UNCHANGED <<cache, raced>> PROVE Tested'
  <2>1. \A d \in Conns : wpc'[d] = "insert" => d # c /\ wpc[d] = "insert" /\ wreq'[d] = wreq[d]
    BY <1>1 DEF Serves
  <2>2. \A i \in Ids : InCache(i)' <=> InCache(i)
    BY <1>1 DEF InCache
  <2>3. \A d \in Conns : wpc[d] = "insert" => wreq[d].id \in Ids
    BY DEF Lines, LineOf, InHand
  <2>4. \A d \in Conns : wpc'[d] = "insert" => ~InCache(wreq[d].id)' \/ wreq[d].id \in raced
    <3> TAKE d \in Conns
    <3>1. CASE wpc'[d] = "insert"
      <4>1. wpc[d] = "insert" /\ wreq'[d] = wreq[d] /\ wreq[d].id \in Ids
        BY <2>1, <2>3, <3>1
      <4>2. ~InCache(wreq[d].id) \/ wreq[d].id \in raced
        BY <4>1 DEF Tested
      <4> QED
        BY <4>1, <4>2, <1>1 DEF InCache
    <3> QED
      BY <3>1
  <2> QED
    BY <2>1, <2>4, <1>1 DEF Tested, InCache
<1>2. ASSUME NEW c \in Conns, ServerStep(c), ~Test(c), ~Insert(c) PROVE Tested'
  <2>1. Serves(c) /\ wpc'[c] # "insert" /\ UNCHANGED <<cache, raced>>
    BY <1>2, HandshakeDoes, ReadDoes, DispatchDoes, HangupDoes DEF ServerStep
  <2> QED
    BY <1>1, <2>1
<1>3. ASSUME NEW c \in Peers, NEW m \in PeerFrames, Present(c, m) PROVE Tested'
  <2>1. Serves(c) /\ wpc'[c] = "loop" /\ UNCHANGED <<cache, raced>>
    BY <1>3, PresentDoes DEF ClientTypes
  <2> QED
    BY <1>1, <2>1
<1>4. CASE Die
  <2>1. \A d \in Conns : wpc'[d] # "insert"
    BY <1>4, DieDoes
  <2> QED
    BY <2>1 DEF Tested
<1>5. ASSUME NEW c \in Conns, Test(c) PROVE Tested'
  <2>1. CASE wpc'[c] = "loop" /\ raced' = raced
    BY <1>1, <1>5, <2>1, TestDoes
  <2>2. CASE /\ wpc'[c] = "insert" /\ wreq'[c] = wreq[c] /\ ~InCache(wreq[c].id)
             /\ raced' = raced \cup {i \in {wreq[c].id} : \E d \in Conns \ {c} : wpc[d] = "insert" /\ wreq[d].id = i}
    <3>1. /\ cache' = cache /\ raced \subseteq raced'
          /\ \A d \in Conns : d # c => wpc'[d] = wpc[d] /\ wreq'[d] = wreq[d]
      BY <1>5, <2>2, TestDoes DEF Serves
    <3>2. \A d \in Conns : d # c /\ wpc[d] = "insert" /\ wreq[d].id = wreq[c].id => wreq[c].id \in raced'
      BY <2>2
    <3>3. ASSUME NEW d \in Conns, NEW e \in Conns, d # e, wpc'[d] = "insert", wpc'[e] = "insert", wreq'[d].id = wreq'[e].id
          PROVE  wreq'[d].id \in raced'
      <4>1. CASE d # c /\ e # c
        BY <3>1, <3>3, <4>1 DEF Tested
      <4>2. CASE d = c \/ e = c
        BY <2>2, <3>1, <3>2, <3>3, <4>2
      <4> QED
        BY <4>1, <4>2
    <3>4. ASSUME NEW d \in Conns, wpc'[d] = "insert" PROVE ~InCache(wreq[d].id) \/ wreq[d].id \in raced'
      BY <2>2, <3>1, <3>4 DEF Tested
    <3>5. \A d \in Conns : wpc'[d] = "insert" => wreq'[d] = wreq[d]
      BY <2>2, <3>1
    <3> QED
      BY <3>1, <3>3, <3>4, <3>5 DEF Tested, InCache
  <2> QED
    BY <1>5, <2>1, <2>2, TestDoes
<1>6. ASSUME NEW c \in Conns, Insert(c) PROVE Tested'
  <2>1. /\ raced' = raced /\ wpc[c] = "insert" /\ wreq[c].id \in Ids /\ wpc'[c] = "dispatch"
        /\ cache' = Remember(wreq[c].id)
        /\ \A d \in Conns : d # c => wpc'[d] = wpc[d] /\ wreq'[d] = wreq[d]
    BY <1>6, InsertDoes DEF Serves
  <2>2. PICK id \in Ids : id = wreq[c].id
    BY <2>1
  <2>3. ASSUME NEW d \in Conns, wpc'[d] = "insert", NEW k \in DOMAIN cache', cache'[k] = wreq'[d].id
        PROVE  wreq'[d].id \in raced'
    <3>1. d # c /\ wpc[d] = "insert" /\ wreq'[d] = wreq[d]
      BY <2>1, <2>3
    <3>2. cache'[k] = id \/ InCache(cache'[k])
      BY <2>1, <2>2, <2>3, RememberAdds
    <3> QED
      BY <2>1, <2>2, <2>3, <3>1, <3>2 DEF Tested
  <2>4. \A d, e \in Conns : d # e /\ wpc'[d] = "insert" /\ wpc'[e] = "insert" /\ wreq'[d].id = wreq'[e].id
                            => wreq'[d].id \in raced'
    BY <2>1 DEF Tested
  <2> QED
    BY <2>3, <2>4 DEF Tested, InCache
<1> QED
  BY <1>2, <1>3, <1>4, <1>5, <1>6 DEF ServerSide

\* Every step keeps Tested.
LEMMA TestedNext ==
  ASSUME ClientTypes, ServerTypes, WireTypes, Locked, Lines, Tested, Next
  PROVE  Tested'
<1> USE Names
<1>1. ASSUME UNCHANGED <<cache, raced, wreq>>, \A d \in Conns : wpc'[d] = "insert" => wpc[d] = "insert"
      PROVE  Tested'
  BY <1>1 DEF Tested, InCache
<1>2. CASE Aside
  <2>1. UNCHANGED <<cache, raced, wpc, wreq>>
    BY <1>2 DEF Aside
  <2> QED
    BY <2>1, <1>1
<1>3. ASSUME NEW t \in Threads, Ends(t) PROVE Tested'
  <2>1. UNCHANGED <<cache, raced, wpc, wreq>>
    BY <1>3, EndsDo DEF Ended
  <2> QED
    BY <2>1, <1>1
<1>4. ASSUME NEW t \in Threads, Goes(t) PROVE Tested'
  <2>1. UNCHANGED <<cache, raced, wreq>> /\ (wpc' = wpc \/ wpc' = [wpc EXCEPT ![opened + 1] = "hello"])
    BY <1>4, GoesDo DEF Going
  <2>2. \A d \in Conns : wpc'[d] = "insert" => wpc[d] = "insert"
    BY <2>1 DEF WireTypes
  <2> QED
    BY <2>1, <2>2, <1>1
<1>5. CASE ServerSide
  BY <1>5, TestedServe
<1>6. CASE Strays
  <2>1. UNCHANGED <<cache, raced, wreq>>
    BY <1>6 DEF Strays
  <2>2. \A d \in Conns : wpc'[d] = "insert" => wpc[d] = "insert"
    BY <1>6, StraysDo
  <2> QED
    BY <2>1, <2>2, <1>1
<1> QED
  BY <1>2, <1>3, <1>4, <1>5, <1>6, NextKinds


---------------------------------------------------------------------------
\* Every step but Insert leaves the replay cache and the record of it alone.
LEMMA CacheKept ==
  ASSUME ClientTypes, WireTypes, Locked, Lines, Next, ~\E c \in Conns : Insert(c)
  PROVE  UNCHANGED <<cache, accepted>> /\ raced \subseteq raced'
<1>1. CASE Aside
  BY <1>1 DEF Aside
<1>2. ASSUME NEW t \in Threads, Ends(t) PROVE UNCHANGED <<cache, accepted, raced>>
  BY <1>2, EndsDo DEF Ended
<1>3. ASSUME NEW t \in Threads, Goes(t) PROVE UNCHANGED <<cache, accepted, raced>>
  BY <1>3, GoesDo DEF Going
<1>4. CASE ServerSide
  <2>1. ASSUME NEW c \in Conns, ServerStep(c) PROVE UNCHANGED <<cache, accepted>> /\ raced \subseteq raced'
    BY <2>1, HandshakeDoes, ReadDoes, TestDoes, DispatchDoes, HangupDoes DEF ServerStep
  <2>2. ASSUME NEW c \in Peers, NEW m \in PeerFrames, Present(c, m) PROVE UNCHANGED <<cache, accepted, raced>>
    BY <2>2, PresentDoes DEF ClientTypes
  <2>3. Die => UNCHANGED <<cache, accepted, raced>>
    BY DieDoes
  <2> QED
    BY <1>4, <2>1, <2>2, <2>3 DEF ServerSide
<1>5. CASE Strays
  BY <1>5 DEF Strays
<1> QED
  BY <1>1, <1>2, <1>3, <1>4, <1>5, NextKinds

\* Then both halves of the replay window are kept.
LEMMA WindowKept ==
  ASSUME UNCHANGED <<cache, accepted>>, raced \subseteq raced', Remembered, ReplayWindow
  PROVE  Remembered' /\ ReplayWindow'
BY DEF Remembered, ReplayWindow

\* Every step keeps the replay window: an id that is inserted anew has raced, or
\* was pushed out by replay_cache_size others.
LEMMA WindowNext ==
  ASSUME ClientTypes, ServerTypes, WireTypes, Locked, Lines, Tested, Remembered, ReplayWindow, Next
  PROVE  Remembered' /\ ReplayWindow'
<1> USE Names
<1>1. CASE ~\E c \in Conns : Insert(c)
  BY <1>1, CacheKept, WindowKept
<1>2. ASSUME NEW c \in Conns, Insert(c) PROVE Remembered' /\ ReplayWindow'
  <2>1. PICK id \in Ids : id = wreq[c].id
    BY <1>2, InsertDoes
  <2>2. PICK n : n = Len(accepted)
    OBVIOUS
  <2>3. PICK b : b = Remember(id)
    OBVIOUS
  <2>4. raced' = raced /\ wpc[c] = "insert" /\ cache' = b /\ accepted' = Append(accepted, id)
    BY <1>2, <2>1, <2>3, InsertDoes
  <2>5. accepted \in Seq(Ids) /\ n \in Nat /\ DOMAIN accepted = 1 .. n /\ CacheSize \in Nat
    BY <2>2 DEF ServerTypes
  <2>6. /\ Len(accepted') = n + 1 /\ DOMAIN accepted' = 1 .. n + 1 /\ accepted'[n + 1] = id
        /\ \A j \in 1 .. n : accepted'[j] = accepted[j]
    BY <2>2, <2>4, <2>5
  <2>7. PICK s : s = Len(cache)
    OBVIOUS
  <2>8. cache \in Seq(Ids) /\ s \in Nat /\ DOMAIN cache = 1 .. s /\ s <= CacheSize
    BY <2>7 DEF ServerTypes
  <2>9. InCache(id) => id \in raced
    BY <2>1, <2>4 DEF Tested
  <2>10. /\ b \in Seq(Ids)
         /\ \/ InCache(id) /\ b = cache
            \/ /\ s + 1 <= CacheSize /\ Len(b) = s + 1
               /\ \A k \in 1 .. s : k \in DOMAIN b /\ b[k] = cache[k]
               /\ s + 1 \in DOMAIN b /\ b[s + 1] = id
            \/ /\ s = CacheSize /\ Len(b) = s
               /\ \A k \in 1 .. s : k # 1 => k - 1 \in DOMAIN b /\ b[k - 1] = cache[k]
               /\ CacheSize > 0 => s \in DOMAIN b /\ b[s] = id
    <3>1. b \in Seq(Ids)
      BY <2>3, RememberType
    <3> QED
      BY <3>1, <2>3, <2>7, <2>8, RememberDoes
  <2>11. ASSUME NEW j \in 1 .. n + 1
         PROVE  \/ accepted'[j] \in raced
                \/ n + 1 - j >= CacheSize
                \/ \E k \in DOMAIN b : b[k] = accepted'[j] /\ Len(b) - k <= n + 1 - j
    <3>1. CASE j = n + 1
      <4>1. accepted'[j] = id /\ n + 1 - j = 0
        BY <2>5, <2>6, <3>1
      <4>2. CASE InCache(id)
        BY <2>9, <4>1, <4>2
      <4>3. CASE Len(b) = s + 1 /\ s + 1 \in DOMAIN b /\ b[s + 1] = id
        BY <2>8, <4>1, <4>3
      <4>4. CASE s = CacheSize /\ Len(b) = s /\ (CacheSize > 0 => s \in DOMAIN b /\ b[s] = id)
        BY <2>8, <4>1, <4>4
      <4> QED
        BY <2>10, <4>2, <4>3, <4>4
    <3>2. CASE j # n + 1
      <4>1. j \in 1 .. n /\ accepted'[j] = accepted[j]
        BY <2>5, <2>6, <3>2
      <4>2. CASE accepted[j] \in raced
        BY <4>1, <4>2
      <4>3. CASE n - j >= CacheSize
        BY <2>5, <4>1, <4>3
      <4>4. ASSUME NEW k \in 1 .. s, cache[k] = accepted[j], s - k <= n - j
            PROVE  \/ n + 1 - j >= CacheSize
                   \/ \E l \in DOMAIN b : b[l] = accepted[j] /\ Len(b) - l <= n + 1 - j
        <5>1. CASE b = cache
          <6>1. k \in DOMAIN b /\ b[k] = accepted[j] /\ Len(b) - k <= n + 1 - j
            BY <2>5, <2>7, <2>8, <4>1, <4>4, <5>1
          <6> QED
            BY <6>1
        <5>2. CASE Len(b) = s + 1 /\ \A l \in 1 .. s : l \in DOMAIN b /\ b[l] = cache[l]
          <6>1. k \in DOMAIN b /\ b[k] = accepted[j] /\ Len(b) - k <= n + 1 - j
            BY <2>5, <2>8, <4>1, <4>4, <5>2
          <6> QED
            BY <6>1
        <5>3. CASE /\ s = CacheSize /\ Len(b) = s
                   /\ \A l \in 1 .. s : l # 1 => l - 1 \in DOMAIN b /\ b[l - 1] = cache[l]
          <6>1. CASE k = 1
            BY <2>5, <2>8, <4>1, <4>4, <5>3, <6>1
          <6>2. CASE k # 1
            <7>1. k - 1 \in DOMAIN b /\ b[k - 1] = accepted[j] /\ Len(b) - (k - 1) <= n + 1 - j
              BY <2>5, <2>8, <4>1, <4>4, <5>3, <6>2
            <7> QED
              BY <7>1
          <6> QED
            BY <6>1, <6>2
        <5> QED
          BY <2>10, <5>1, <5>2, <5>3
      <4>5. \/ accepted[j] \in raced \/ n - j >= CacheSize
            \/ \E k \in 1 .. s : cache[k] = accepted[j] /\ s - k <= n - j
        BY <2>2, <2>5, <2>7, <2>8, <4>1 DEF Remembered
      <4> QED
        BY <4>1, <4>2, <4>3, <4>4, <4>5
    <3> QED
      BY <3>1, <3>2
  <2>12. Remembered'
    <3>1. ASSUME NEW j \in DOMAIN accepted'
          PROVE  \/ accepted'[j] \in raced'
                 \/ Len(accepted') - j >= CacheSize
                 \/ \E k \in DOMAIN cache' : cache'[k] = accepted'[j] /\ Len(cache') - k <= Len(accepted') - j
      <4>1. j \in 1 .. n + 1
        BY <2>6
      <4>2. raced' = raced /\ cache' = b /\ Len(accepted') = n + 1
        BY <2>4, <2>6
      <4>3. \/ accepted'[j] \in raced \/ n + 1 - j >= CacheSize
            \/ \E k \in DOMAIN b : b[k] = accepted'[j] /\ Len(b) - k <= n + 1 - j
        BY <2>11, <4>1
      <4>4. CASE accepted'[j] \in raced
        BY <4>2, <4>4
      <4>5. CASE n + 1 - j >= CacheSize
        BY <2>5, <4>1, <4>2, <4>5
      <4>6. ASSUME NEW k \in DOMAIN b, b[k] = accepted'[j], Len(b) - k <= n + 1 - j
            PROVE  k \in DOMAIN cache' /\ cache'[k] = accepted'[j] /\ Len(cache') - k <= Len(accepted') - j
        BY <2>5, <2>8, <2>10, <4>1, <4>2, <4>6
      <4> QED
        BY <4>3, <4>4, <4>5, <4>6
    <3> QED
      BY <3>1 DEF Remembered
  <2>13. ASSUME NEW i \in 1 .. n + 1, NEW j \in 1 .. n + 1, i < j, accepted'[i] = accepted'[j]
         PROVE  j - i > CacheSize \/ accepted'[i] \in raced
    <3>1. CASE j # n + 1
      <4>1. i \in 1 .. n /\ j \in 1 .. n /\ accepted[i] = accepted[j] /\ accepted'[i] = accepted[i]
        BY <2>5, <2>6, <2>13, <3>1
      <4> QED
        BY <2>5, <2>13, <4>1 DEF ReplayWindow
    <3>2. CASE j = n + 1
      <4>1. i \in 1 .. n /\ accepted[i] = id /\ accepted'[i] = id
        BY <2>5, <2>6, <2>13, <3>2
      <4>2. \/ id \in raced \/ n - i >= CacheSize
            \/ InCache(id)
        BY <2>2, <2>5, <4>1 DEF Remembered, InCache
      <4> QED
        BY <2>5, <2>9, <3>2, <4>1, <4>2
    <3> QED
      BY <3>1, <3>2
  <2>14. ReplayWindow'
    BY <2>4, <2>6, <2>13 DEF ReplayWindow
  <2> QED
    BY <2>12, <2>14
<1> QED
  BY <1>1, <1>2

---------------------------------------------------------------------------
\* The initial states satisfy the invariant.
LEMMA InitInv == Init => Inv
<1> SUFFICES ASSUME Init PROVE Inv
  OBVIOUS
<1> USE Names, IpcClientAssumption
<1>0. <<>> \in Seq(Frames) /\ <<>> \in Seq(Answers) /\ <<>> \in Seq(Ids) /\ Len(<<>>) = 0 /\ DOMAIN <<>> = {}
  BY EmptySeq
<1>1. TypeOK
  <2>1. NoEvaluation \in Answers
    BY DEF NoEvaluation, Answers
  <2>2. 0 \in 0 .. MaxConns /\ 0 \in 0 .. MaxIds /\ MaxCalls \in 0 .. MaxCalls /\ MaxFrames \in 0 .. MaxFrames
    OBVIOUS
  <2>3. ClientTypes
    BY <2>1, <2>2 DEF Init, ClientTypes, PcValues, Kinds
  <2>4. ServerTypes
    BY <1>0, <2>2 DEF Init, ServerTypes
  <2>5. WireTypes
    BY <1>0 DEF Init, WireTypes
  <2>6. StrayTypes
    BY DEF Init, StrayTypes
  <2> QED
    BY <2>3, <2>4, <2>5, <2>6, TypeParts
<1>2. Locked /\ Closing
  BY DEF Init, Locked, Closing, Busy
<1>3. Lines
  BY DEF Init, Lines, LineOf, InHand
<1>4. \A c \in Links, i \in Ids : ~Outstanding(c, i)
  BY DEF Init, Outstanding, InHand
<1>5. Once
  BY <1>4 DEF Init, Once
<1>6. Talk
  BY DEF Init, Talk
<1>7. Heard
  BY DEF Init, Heard, NoEvaluation
<1>8. Tested
  BY DEF Init, Tested
<1>9. Remembered /\ ReplayWindow
  BY <1>0 DEF Init, Remembered, ReplayWindow
<1> QED
  BY <1>1, <1>2, <1>3, <1>5, <1>6, <1>7, <1>8, <1>9 DEF Inv

\* So does a step that changes nothing.
LEMMA StutterInv == Inv /\ UNCHANGED vars => Inv'
BY DEF Inv, TypeOK, Locked, Closing, Lines, LineOf, Once, Outstanding, Talk, Rest, Greeting, Awaiting, Truthful,
       Heard, Tested, InCache, Remembered, ReplayWindow, vars, clientVars, threadVars, wireVars, serverVars

\* So does every step.
LEMMA NextInv == Inv /\ Next => Inv'
<1> SUFFICES ASSUME Inv, Next PROVE Inv'
  OBVIOUS
<1>1. ClientTypes /\ ServerTypes /\ WireTypes /\ StrayTypes
  BY TypeParts DEF Inv
<1>2. TypeOK'
  <2>1. ClientTypes' /\ ServerTypes' /\ WireTypes' /\ StrayTypes'
    BY <1>1, TypeNext, StrayNext DEF Inv
  <2> QED
    BY <2>1 DEF TypeOK, ClientTypes, ServerTypes, WireTypes, StrayTypes, PcValues
<1>3. Locked' /\ Closing'
  BY <1>1, LockedNext, ClosingNext DEF Inv
<1>4. Lines'
  BY <1>1, LinesNext DEF Inv
<1>5. Once' /\ Talk' /\ Heard'
  BY <1>1, OnceNext, TalkNext, HeardNext DEF Inv
<1>6. Tested'
  BY <1>1, TestedNext DEF Inv
<1>7. Remembered' /\ ReplayWindow'
  BY <1>1, WindowNext DEF Inv
<1> QED
  BY <1>2, <1>3, <1>4, <1>5, <1>6, <1>7 DEF Inv

\* The inductive invariant holds in every reachable state.
THEOREM Safety == Spec => []Inv
<1>1. Inv /\ [Next]_vars => Inv'
  BY NextInv, StutterInv
<1> QED
  BY <1>1, InitInv, PTL DEF Spec

\* Every field of the client, of the wire and of the server keeps its type, and
\* the replay cache keeps to replay_cache_size.
THEOREM TypeCorrect == Spec => []TypeOK
<1>1. Inv => TypeOK
  BY DEF Inv
<1> QED
  BY <1>1, Safety, PTL

\* evaluate() reports ALLOW as the daemon's only when the daemon allowed that very
\* request; with FAIL_CLOSED it reports ALLOW in no other case.
THEOREM AllowedTheorem == Spec => []AllowedByDaemon
<1>1. Inv => AllowedByDaemon
  BY DEF Inv, Heard, AllowedByDaemon
<1> QED
  BY <1>1, Safety, PTL

\* Between requests the connection in use carries no frame either way, so no late
\* answer can be read as the next one's.
THEOREM InStepTheorem == Spec => []InStep
<1>1. Inv => InStep
  BY DEF Inv, Talk, Rest, InStep
<1> QED
  BY <1>1, Safety, PTL

\* Once close() has returned the client holds no connection, although a thread
\* that connect() abandoned may still open one for a moment.
THEOREM ClosedTheorem == Spec => []ClosedForGood
<1>1. Inv => ClosedForGood
  <2> SUFFICES ASSUME Inv, pc[Owner] = "closed" PROVE near \subseteq Peers /\ conn = None
    BY DEF ClosedForGood
  <2>1. conn = None /\ cur = None
    BY DEF Inv, Closing
  <2>2. near = Peers \cup {c \in Links : c = conn \/ c = cur}
    BY DEF Inv, Locked
  <2> QED
    BY <2>1, <2>2, Names
<1> QED
  BY <1>1, Safety, PTL

\* _remember_request serves an id again only after replay_cache_size others, or
\* when two workers tested it together.
THEOREM ReplayTheorem == Spec => []ReplayWindow
<1>1. Inv => ReplayWindow
  BY DEF Inv
<1> QED
  BY <1>1, Safety, PTL

=============================================================================
