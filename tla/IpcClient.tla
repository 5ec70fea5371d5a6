------------------------------ MODULE IpcClient ------------------------------
(***************************************************************************)
(* WatcherClient (ipc/client.py) over its transport (ipc/transport.py),    *)
(* and the serving side of a connection (ipc/server.py: _handshake,        *)
(* _serve_one and the replay cache), which may be slow, refuse, fall       *)
(* silent or die.                                                          *)
(*                                                                         *)
(* Threads share one client: the Owner constructs it and closes it,        *)
(* Callers ask it to evaluate, Heart is its heartbeat thread.  Peers are   *)
(* further authenticated connections of the same session, whose frames may *)
(* repeat a request id, be malformed, or exceed max_message_bytes.         *)
(***************************************************************************)
EXTENDS Naturals, Sequences, FiniteSets

CONSTANTS
  Owner, Heart, Callers,  \* threads
  Peers,                  \* connections that are not the client's
  FailOpen,               \* fail_mode is FAIL_OPEN
  MaxConns,               \* bound: connections the client opens
  MaxIds,                 \* bound: requests the client sends
  MaxCalls,               \* bound: calls of one thread
  MaxFrames,              \* bound: frames of one peer
  CacheSize,              \* limits.replay_cache_size
  None                    \* no thread, no connection, no request id

Threads == Callers \cup {Owner, Heart}
Links   == 1 .. MaxConns          \* the client's connections, in order
Conns   == Links \cup Peers
Ids     == 1 .. MaxIds

ASSUME IpcClientAssumption ==
  /\ FailOpen \in BOOLEAN
  /\ {MaxConns, MaxIds, MaxCalls, MaxFrames, CacheSize} \subseteq Nat
  /\ Owner # Heart /\ {Owner, Heart} \cap Callers = {}
  /\ Links \cap Peers = {}
  /\ None \notin Threads \cup Conns \cup Ids

VARIABLES
  lock,      \* _lock: its holder
  conn,      \* _connection
  closed,    \* _closed
  stop,      \* _heartbeat_stop
  started,   \* _heartbeat_thread was started
  pc, kind,  \* each thread: position, and the request it is making
  cur, rid,  \* the lock holder's connection and request id
  torn,      \* the lock holder reads a frame the daemon has not finished
  ret,       \* what a thread's last evaluation said
  calls,     \* calls a thread has left
  opened,    \* connections opened so far
  near,      \* connections whose client end is open
  up, down,  \* frames in transit
  late,      \* connect() threads that were abandoned and are still trying
  wpc, wreq, \* each server worker: position, and the frame in hand
  cache,     \* _replay_cache, oldest first
  accepted,  \* request ids that passed _remember_request, in order
  raced,     \* ids two workers tested before either inserted
  said,      \* what the daemon decided of each request of the client
  used,      \* request ids handed out
  frames,    \* frames a peer has left
  alive      \* the daemon runs

clientVars == <<lock, conn, closed, stop, started, cur, rid, torn>>
threadVars == <<pc, kind, ret, calls>>
wireVars   == <<opened, near, up, down, late>>
serverVars == <<wpc, wreq, cache, accepted, raced, said, alive>>
vars == <<clientVars, threadVars, wireVars, serverVars, used, frames>>

Decisions == {"ALLOW", "DENY"}
Kinds   == {"none", "CONNECT", "EVALUATE", "HEARTBEAT", "SESSION_END"}
Frames  == [type : Kinds \cup {"HELLO", "EVENT"}, id : Ids \cup {None},
            form : {"good", "malformed", "oversized"}]
Answers == [id : Ids \cup {None}, ok : BOOLEAN, decision : Decisions \cup {"none"}]
NoEvaluation == [id |-> None, decision |-> "none", ok |-> FALSE]

Init ==
  /\ lock = None /\ conn = None /\ closed = FALSE /\ stop = FALSE /\ started = FALSE
  /\ cur = None /\ rid = None /\ torn = FALSE
  /\ pc = [t \in Threads |-> IF t = Owner THEN "construct" ELSE "idle"]
  /\ kind = [t \in Threads |-> "none"]
  /\ ret = [t \in Threads |-> NoEvaluation]
  /\ calls = [t \in Threads |-> MaxCalls]
  /\ opened = 0 /\ near = Peers /\ late = 0
  /\ up = [c \in Conns |-> <<>>] /\ down = [c \in Conns |-> <<>>]
  /\ wpc = [c \in Conns |-> IF c \in Peers THEN "loop" ELSE "none"]
  /\ wreq = [c \in Conns |-> None]
  /\ cache = <<>> /\ accepted = <<>> /\ raced = {}
  /\ said = [i \in Ids |-> "none"]
  /\ used = 0
  /\ frames = [c \in Peers |-> MaxFrames]
  /\ alive = TRUE

Goto(t, to) == pc' = [pc EXCEPT ![t] = to]
Take(q, c) == [q EXCEPT ![c] = Tail(@)]
Put(q, c, m) == [q EXCEPT ![c] = Append(@, m)]

\* build_request, build_response and build_error.
Request(type, id)      == [type |-> type, id |-> id, form |-> "good"]
Response(id, decision) == [id |-> id, ok |-> TRUE, decision |-> decision]
Error(id)              == [id |-> id, ok |-> FALSE, decision |-> "none"]

(***************************************************************************)
(* The client.  _request holds the lock from the first step to the last.   *)
(***************************************************************************)
\* Where a thread goes on when its request has ended.
After(t) == IF kind[t] = "SESSION_END" THEN "flag" ELSE "idle"

\* Faulty variant: an unreachable daemon is taken for consent.
DegradedOpen == [id |-> rid, decision |-> "ALLOW", ok |-> FALSE]

\* _degraded.
Degraded == [id |-> rid, decision |-> IF FailOpen THEN "ALLOW" ELSE "DENY", ok |-> FALSE]

\* The request is over and the lock is let go; evaluate() keeps the answer,
\* the other calls only report failure.
Return(t, e) ==
  /\ lock' = None /\ cur' = None /\ rid' = None /\ torn' = FALSE
  /\ Goto(t, After(t))
  /\ ret' = IF kind[t] = "EVALUATE" THEN [ret EXCEPT ![t] = e] ELSE ret

\* _drop_connection, and the close of a connection that never got that far.
Drop == conn' = None /\ near' = near \ {cur}

\* A thread asks for the lock: the constructor, evaluate(), a heartbeat.
Begin(t, k) ==
  /\ lock = None
  /\ \/ k = "CONNECT" /\ t = Owner /\ pc[t] = "construct"
     \/ k = "EVALUATE" /\ t \in Callers /\ pc[t] = "idle" /\ pc[Owner] # "construct"
     \/ k = "HEARTBEAT" /\ t = Heart /\ pc[t] = "idle" /\ started /\ ~stop
     \/ k = "SESSION_END" /\ t = Owner /\ pc[t] = "goodbye"
  /\ k = "SESSION_END" \/ calls[t] > 0
  /\ calls' = IF k = "SESSION_END" THEN calls ELSE [calls EXCEPT ![t] = @ - 1]
  /\ lock' = t /\ kind' = [kind EXCEPT ![t] = k]
  /\ Goto(t, "ensure")
  /\ UNCHANGED <<conn, closed, stop, started, cur, rid, torn, ret, wireVars, serverVars, used, frames>>

\* _ensure_connection finds a usable connection.
Reuse(t) ==
  /\ pc[t] = "ensure" /\ ~closed /\ conn # None
  /\ cur' = conn
  /\ Goto(t, "send")
  /\ UNCHANGED <<lock, conn, closed, stop, started, rid, torn, kind, ret, calls, wireVars,
                 serverVars, used, frames>>

\* connect() has returned, and HELLO, the first and small frame of a fresh
\* connection, is sent.
Connect(t) ==
  /\ pc[t] = "ensure" /\ ~closed /\ conn = None
  /\ alive /\ opened < MaxConns
  /\ opened' = opened + 1 /\ cur' = opened + 1
  /\ near' = near \cup {opened + 1}
  /\ up' = Put(up, opened + 1, Request("HELLO", None))
  /\ wpc' = [wpc EXCEPT ![opened + 1] = "hello"]
  /\ Goto(t, "greet")
  /\ UNCHANGED <<lock, conn, closed, stop, started, rid, torn, kind, ret, calls, down, late, wreq,
                 cache, accepted, raced, said, alive, used, frames>>

\* The client is closed, or connect() fails, or it times out and abandons the
\* thread that connects.
Unconnected(t) ==
  /\ pc[t] = "ensure" /\ (closed \/ conn = None)
  /\ Return(t, Degraded)
  /\ late' \in {late} \cup (IF closed THEN {} ELSE {late + 1})
  /\ UNCHANGED <<conn, closed, stop, started, kind, calls, opened, near, up, down, serverVars,
                 used, frames>>

\* An abandoned thread connects after all; nobody keeps the connection, so its
\* end is closed as soon as it is open.
LateConnect ==
  /\ late > 0 /\ alive /\ opened < MaxConns
  /\ late' = late - 1
  /\ opened' = opened + 1
  /\ wpc' = [wpc EXCEPT ![opened + 1] = "hello"]
  /\ UNCHANGED <<clientVars, threadVars, near, up, down, wreq, cache, accepted, raced, said, alive,
                 used, frames>>

\* What the daemon is about to answer on connection c.
Answering(c) == wpc[c] \in {"hello", "test", "dispatch"}

\* poll() has found the first bytes of an answer: recv_bytes() waits for the rest
\* of the frame, without a timeout.
Glimpse(t) ==
  /\ pc[t] \in {"greet", "await"} /\ ~torn /\ down[cur] = <<>> /\ Answering(cur)
  /\ torn' = TRUE
  /\ UNCHANGED <<lock, conn, closed, stop, started, cur, rid, threadVars, wireVars, serverVars,
                 used, frames>>

\* poll() ends empty-handed, or a frame that was begun ends with its connection.
Unanswered == torn => wpc[cur] = "gone" /\ down[cur] = <<>>

\* The daemon has answered HELLO.  Only the constructor starts heartbeats.
Greeted(t) ==
  /\ pc[t] = "greet" /\ down[cur] # <<>>
  /\ down' = Take(down, cur)
  /\ IF Head(down[cur]).ok
       THEN /\ conn' = cur /\ UNCHANGED near
            /\ IF kind[t] = "CONNECT"
                 THEN started' = TRUE /\ Return(t, Degraded)
                 ELSE /\ Goto(t, "send") /\ torn' = FALSE
                      /\ UNCHANGED <<started, lock, cur, rid, ret>>
       ELSE Drop /\ Return(t, Degraded) /\ UNCHANGED started
  /\ UNCHANGED <<closed, stop, kind, calls, opened, up, late, serverVars, used, frames>>

\* Nothing to read within the timeout, or the peer has gone.
Ungreeted(t) ==
  /\ pc[t] = "greet" /\ Unanswered
  /\ Drop /\ Return(t, Degraded)
  /\ UNCHANGED <<closed, stop, started, kind, calls, opened, up, down, late, serverVars, used, frames>>

\* A fresh request id, and the frame on its way (or into a dead socket).
\* send_bytes() has no timeout: Fairness does not promise that it returns.
Send(t) ==
  /\ pc[t] = "send" /\ used < MaxIds
  /\ used' = used + 1 /\ rid' = used + 1
  /\ up' = IF wpc[cur] = "gone" THEN up ELSE Put(up, cur, Request(kind[t], used + 1))
  /\ Goto(t, "await")
  /\ UNCHANGED <<lock, conn, closed, stop, started, cur, torn, kind, ret, calls, opened, near, down,
                 late, serverVars, frames>>

\* The send fails, or the message is too large to be sent.
Unsent(t) ==
  /\ pc[t] = "send"
  /\ Drop /\ Return(t, Degraded)
  /\ UNCHANGED <<closed, stop, started, kind, calls, opened, up, down, late, serverVars, used, frames>>

\* evaluate(): an answer that is not ok, or says no decision, degrades.
Evaluation(m) ==
  IF m.ok /\ m.decision \in Decisions
    THEN [id |-> rid, decision |-> m.decision, ok |-> TRUE]
    ELSE Degraded

\* The next frame is read as the answer if its id is ours, or none.
Receive(t) ==
  /\ pc[t] = "await" /\ down[cur] # <<>>
  /\ down' = Take(down, cur)
  /\ LET m == Head(down[cur])
     IN IF m.id \in {None, rid}
          THEN Return(t, Evaluation(m)) /\ UNCHANGED <<conn, near>>
          ELSE Drop /\ Return(t, Degraded)
  /\ UNCHANGED <<closed, stop, started, kind, calls, opened, up, late, serverVars, used, frames>>

\* Faulty variant: the connection survives a request that timed out.
TimeoutKeeps(t) ==
  /\ pc[t] = "await" /\ Unanswered
  /\ Return(t, Degraded)
  /\ UNCHANGED <<conn, near, closed, stop, started, kind, calls, opened, up, down, late, serverVars,
                 used, frames>>

\* Faulty variant: poll() without a timeout, so only an end of file ends it.
TimeoutNever(t) ==
  /\ pc[t] = "await" /\ wpc[cur] = "gone" /\ down[cur] = <<>>
  /\ Drop /\ Return(t, Degraded)
  /\ UNCHANGED <<closed, stop, started, kind, calls, opened, up, down, late, serverVars, used, frames>>

\* No answer within the timeout, or the peer has gone.
Timeout(t) ==
  /\ pc[t] = "await" /\ Unanswered
  /\ Drop /\ Return(t, Degraded)
  /\ UNCHANGED <<closed, stop, started, kind, calls, opened, up, down, late, serverVars, used, frames>>

(***************************************************************************)
(* close(), by the owner.                                                  *)
(***************************************************************************)
\* Heartbeats are told to stop; the join is bounded, so the thread may run on.
CloseBegin ==
  /\ pc[Owner] = "idle"
  /\ stop' = TRUE
  /\ Goto(Owner, "notify")
  /\ UNCHANGED <<lock, conn, closed, started, cur, rid, torn, kind, ret, calls, wireVars, serverVars,
                 used, frames>>

\* `connected` is read under the lock, and the session_end() it permits
\* takes the lock anew; the caller may also have asked for no notification.
CloseNotify ==
  /\ pc[Owner] = "notify" /\ lock = None
  /\ Goto(Owner, "flag") \/ (conn # None /\ Goto(Owner, "goodbye"))
  /\ UNCHANGED <<clientVars, kind, ret, calls, wireVars, serverVars, used, frames>>

\* Faulty variant: stopping the heartbeats is thought to be enough.
CloseUnflagged ==
  /\ pc[Owner] = "flag"
  /\ Goto(Owner, "drop")
  /\ UNCHANGED <<clientVars, kind, ret, calls, wireVars, serverVars, used, frames>>

\* _closed is set without the lock.
CloseFlag ==
  /\ pc[Owner] = "flag"
  /\ closed' = TRUE
  /\ Goto(Owner, "drop")
  /\ UNCHANGED <<lock, conn, stop, started, cur, rid, torn, kind, ret, calls, wireVars, serverVars,
                 used, frames>>

CloseDrop ==
  /\ pc[Owner] = "drop" /\ lock = None
  /\ conn' = None /\ near' = near \ {conn}
  /\ Goto(Owner, "closed")
  /\ UNCHANGED <<lock, closed, stop, started, cur, rid, torn, kind, ret, calls, opened, up, down,
                 late, serverVars, used, frames>>

(***************************************************************************)
(* The serving side.                                                       *)
(***************************************************************************)
Work(c, to, frame) ==
  /\ wpc' = [wpc EXCEPT ![c] = to]
  /\ wreq' = [wreq EXCEPT ![c] = frame]

\* A frame to a client that has closed its end is lost.
Tell(c, m) == down' = IF c \in near /\ c \in Links THEN Put(down, c, m) ELSE down

serverRest == <<clientVars, threadVars, opened, near, late, used, frames>>

\* _handshake accepts HELLO; or the server is full, or rejects it, and closes.
Handshake(c, ok) ==
  /\ wpc[c] = "hello" /\ up[c] # <<>>
  /\ up' = Take(up, c)
  /\ Tell(c, IF ok THEN Response(None, "none") ELSE Error(None))
  /\ Work(c, IF ok THEN "loop" ELSE "gone", None)
  /\ UNCHANGED <<cache, accepted, raced, said, alive, serverRest>>

\* receive() and decode_message: a frame too large leaves the stream out of
\* step, so the connection is closed; a malformed one is only refused.
Read(c) ==
  /\ wpc[c] = "loop" /\ up[c] # <<>>
  /\ up' = Take(up, c)
  /\ LET m == Head(up[c])
     IN CASE m.form = "oversized" -> Tell(c, Error(None)) /\ Work(c, "gone", None)
          [] m.form = "malformed" -> Tell(c, Error(None)) /\ Work(c, "loop", None)
          [] OTHER -> Work(c, "test", m) /\ UNCHANGED down
  /\ UNCHANGED <<cache, accepted, raced, said, alive, serverRest>>

InCache(id) == \E i \in DOMAIN cache : cache[i] = id

\* _remember_request, first half: a known id is answered REPLAYED_REQUEST.
\* Nothing is locked: another worker may be between the two halves.
Test(c) ==
  /\ wpc[c] = "test"
  /\ LET id == wreq[c].id
     IN IF InCache(id)
          THEN Tell(c, Error(id)) /\ Work(c, "loop", None) /\ UNCHANGED raced
          ELSE /\ Work(c, "insert", wreq[c]) /\ UNCHANGED down
               /\ raced' = raced \cup {i \in {id} : \E d \in Conns \ {c} :
                                                   wpc[d] = "insert" /\ wreq[d].id = i}
  /\ UNCHANGED <<up, cache, accepted, said, alive, serverRest>>

\* Faulty variant: the newest id is dropped from a full cache.
RememberEvictsNewest(id) ==
  IF InCache(id) \/ Len(cache) >= CacheSize THEN cache ELSE Append(cache, id)

\* Second half: insert, then drop the oldest ids above the limit.
Remember(id) ==
  IF InCache(id) THEN cache
  ELSE IF Len(cache) + 1 > CacheSize THEN Tail(Append(cache, id)) ELSE Append(cache, id)

Insert(c) ==
  /\ wpc[c] = "insert"
  /\ cache' = Remember(wreq[c].id)
  /\ accepted' = Append(accepted, wreq[c].id)
  /\ Work(c, "dispatch", wreq[c])
  /\ UNCHANGED <<up, down, raced, said, alive, serverRest>>

\* The handler decides, or raises (said stays as it was); a draining server
\* refuses, or says nothing at all.  An answer once begun is finished.
Dispatch(c, verdict) ==
  /\ wpc[c] = "dispatch" /\ (torn /\ cur = c => verdict # "silent")
  /\ LET id == wreq[c].id
     IN CASE verdict \in Decisions -> /\ said' = [said EXCEPT ![id] = IF c \in Links THEN verdict ELSE @]
                                      /\ Tell(c, Response(id, verdict))
          [] verdict = "error" -> Tell(c, Error(id)) /\ UNCHANGED said
          [] verdict = "silent" -> UNCHANGED <<down, said>>
  /\ Work(c, "loop", None)
  /\ UNCHANGED <<up, cache, accepted, raced, alive, serverRest>>

\* The client's end is closed and nothing is left to read.
Hangup(c) ==
  /\ wpc[c] \in {"hello", "loop"} /\ c \in Links \ near /\ up[c] = <<>>
  /\ Work(c, "gone", None)
  /\ UNCHANGED <<up, down, cache, accepted, raced, said, alive, serverRest>>

\* The daemon dies.
Die ==
  /\ alive /\ alive' = FALSE
  /\ wpc' = [c \in Conns |-> IF wpc[c] = "none" THEN "none" ELSE "gone"]
  /\ wreq' = [c \in Conns |-> None]
  /\ up' = [c \in Conns |-> <<>>]
  /\ UNCHANGED <<down, cache, accepted, raced, said, serverRest>>

\* A peer presents a frame: a request id already used, or a bad frame.
Present(c, m) ==
  /\ frames[c] > 0 /\ wpc[c] = "loop" /\ up[c] = <<>>
  /\ frames' = [frames EXCEPT ![c] = @ - 1]
  /\ up' = Put(up, c, m)
  /\ UNCHANGED <<clientVars, threadVars, opened, near, down, late, serverVars, used>>

PeerFrames ==
  {Request("EVENT", i) : i \in 1 .. used}
    \cup {[type |-> "EVENT", id |-> None, form |-> f] : f \in {"malformed", "oversized"}}

(***************************************************************************)
ThreadStep(t) ==
  \/ Reuse(t) \/ Connect(t) \/ Unconnected(t) \/ Greeted(t) \/ Ungreeted(t)
  \/ Send(t) \/ Unsent(t) \/ Receive(t) \/ Timeout(t)

\* The steps that end: connect() is joined and poll() waits with a timeout, and
\* what is written or read on a connection the daemon has left fails at once.
Bounded(t) ==
  \/ Reuse(t) \/ Connect(t) \/ Unconnected(t) \/ Greeted(t) \/ Ungreeted(t)
  \/ Receive(t) \/ Timeout(t)
  \/ (Send(t) \/ Unsent(t)) /\ wpc[cur] = "gone"

CloseStep == CloseNotify \/ CloseFlag \/ CloseDrop

ServerStep(c) ==
  \/ \E ok \in BOOLEAN : Handshake(c, ok)
  \/ Read(c) \/ Test(c) \/ Insert(c) \/ Hangup(c)
  \/ \E v \in Decisions \cup {"error", "silent"} : Dispatch(c, v)

\* Every call is made and the client is closed: nothing more has to happen.
Finished == pc[Owner] = "closed" /\ lock = None /\ UNCHANGED vars

Next ==
  \/ \E t \in Threads, k \in {"CONNECT", "EVALUATE", "HEARTBEAT", "SESSION_END"} : Begin(t, k)
  \/ \E t \in Threads : ThreadStep(t)
  \/ LateConnect
  \/ \E t \in Threads : Glimpse(t)
  \/ CloseBegin \/ CloseStep
  \/ \E c \in Conns : ServerStep(c)
  \/ \E c \in Peers : \E m \in PeerFrames : Present(c, m)
  \/ Die
  \/ Finished

\* The client's threads are scheduled and its timeouts expire; the daemon owes
\* nothing, not even the rest of a frame or room for one, and no thread has to
\* make a call.
Fairness ==
  /\ \A t \in Threads : WF_vars(Bounded(t))
  /\ WF_vars(CloseStep \/ Begin(Owner, "SESSION_END"))

Spec == Init /\ [][Next]_vars /\ Fairness

(***************************************************************************)
(* Properties.                                                             *)
(***************************************************************************)
\* Every variable holds a value the client's and server's fields can hold;
\* the replay cache keeps to its size.
TypeOK ==
  /\ lock \in Threads \cup {None} /\ conn \in Links \cup {None}
  /\ closed \in BOOLEAN /\ stop \in BOOLEAN /\ started \in BOOLEAN /\ alive \in BOOLEAN
  /\ pc \in [Threads -> {"construct", "idle", "ensure", "greet", "send", "await", "notify",
                         "goodbye", "flag", "drop", "closed"}]
  /\ kind \in [Threads -> Kinds]
  /\ cur \in Links \cup {None} /\ rid \in Ids \cup {None} /\ torn \in BOOLEAN
  /\ ret \in [Threads -> Answers]
  /\ calls \in [Threads -> 0 .. MaxCalls]
  /\ opened \in 0 .. MaxConns /\ near \subseteq Conns /\ late \in Nat
  /\ up \in [Conns -> Seq(Frames)] /\ down \in [Conns -> Seq(Answers)]
  /\ wpc \in [Conns -> {"none", "hello", "loop", "test", "insert", "dispatch", "gone"}]
  /\ wreq \in [Conns -> Frames \cup {None}]
  /\ cache \in Seq(Ids) /\ Len(cache) <= CacheSize
  /\ accepted \in Seq(Ids) /\ raced \subseteq Ids
  /\ said \in [Ids -> Decisions \cup {"none"}]
  /\ used \in 0 .. MaxIds /\ frames \in [Peers -> 0 .. MaxFrames]

\* An action goes ahead only if the daemon allowed that very request: an
\* answer that is lost, late, refused or another's is never read as consent.
AllowedByDaemon ==
  \A t \in Threads :
    /\ ret[t].decision = "ALLOW" /\ ~FailOpen => ret[t].ok
    /\ ret[t].ok => said[ret[t].id] = ret[t].decision

\* Between requests the connection in use is in step: no frame is in transit
\* on it and no answer is owed, so the next frame read is the next answer.
InStep ==
  lock = None /\ conn # None /\ wpc[conn] # "gone" =>
    /\ up[conn] = <<>> /\ down[conn] = <<>> /\ wpc[conn] = "loop"

\* When close() has returned the client holds no connection and will open none,
\* although heartbeats and callers may still be running.  (A thread connect()
\* abandoned before may still open one, which nobody then uses: LateConnect.)
ClosedForGood == pc[Owner] = "closed" => near \subseteq Peers /\ conn = None

\* A request id is served again only if replay_cache_size other ids were
\* served in between, or two workers tested it together.
ReplayWindow ==
  \A i, j \in DOMAIN accepted :
    i < j /\ accepted[i] = accepted[j] => j - i > CacheSize \/ accepted[i] \in raced

\* A thread holds the lock in one of the two calls the code gives no timeout:
\* send_bytes() to a daemon that does not read, and recv_bytes() of a frame the
\* daemon has begun and does not finish.
Stuck(t) ==
  /\ lock = t /\ cur # None /\ wpc[cur] # "gone"
  /\ pc[t] = "send" \/ (torn /\ down[cur] = <<>>)

\* Those two calls are the only places where a request can stay for ever, and
\* keep the other threads and close() from the client: whatever else the daemon
\* does, dead, silent or slow, every request ends and close() returns.
CallsReturn ==
  /\ \A t \in Threads : <>[]Stuck(t) \/ (lock = t ~> lock # t)
  /\ (\E t \in Threads : <>[]Stuck(t)) \/ (pc[Owner] = "notify" ~> pc[Owner] = "closed")
=============================================================================
