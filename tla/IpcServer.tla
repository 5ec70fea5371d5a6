------------------------------ MODULE IpcServer ------------------------------
(***************************************************************************)
(* IpcServer (ipc/server.py): the accept loop, one worker thread per       *)
(* connection, the writer and response claims, and the drain that must     *)
(* stop all of them before the trace may be sealed.                        *)
(*                                                                         *)
(* The handler behind dispatch is abstract: it may take forever.  A        *)
(* connection carries at most MaxRequests requests.  `expired` is the      *)
(* drain's deadline having passed.                                         *)
(***************************************************************************)
EXTENDS Naturals, FiniteSets

CONSTANTS
  Conns,             \* connections a client may open
  MaxConnections,    \* limits.max_connections_per_session
  MaxRequests,       \* bound: requests sent on one connection
  MaxDrains,         \* bound: calls of drain()
  AcceptMayStall     \* the accept thread may outlast its bounded join

ASSUME IpcServerAssumption ==
  /\ IsFiniteSet(Conns)
  /\ MaxConnections \in Nat /\ MaxRequests \in Nat /\ MaxDrains \in Nat
  /\ AcceptMayStall \in BOOLEAN

\* (No proof needs it.)
ASSUME ConnsAreNumbered == Conns \subseteq Nat

VARIABLES
  sstate,       \* _state: RUNNING, DRAINING or STOPPED
  apc, acur,    \* the accept thread: position and connection in hand
  connections,  \* _connections: registered and not yet cleared or popped
  workers,      \* _workers: threads the next drain will join
  open,         \* transports the server has not closed
  wpc,          \* each worker's position
  left,         \* requests the client of a connection may still send
  fate,         \* what the last request on a connection got
  writers, responses, \* _writers, _responses
  claimsClosed, \* _claims_closed
  drained,      \* the _drained event
  dpc,          \* the draining thread's position
  mine, shut,   \* drain()'s local lists: workers to join, transports to close
  drains,       \* calls of drain() still to come
  expired       \* the running drain's deadline has passed

acceptVars == <<apc, acur>>
listVars   == <<connections, workers>>
workVars   == <<wpc, left, fate>>
claimVars  == <<writers, responses, claimsClosed>>
drainVars  == <<dpc, mine, shut, drains, expired>>
vars == <<sstate, acceptVars, listVars, open, workVars, claimVars, drained, drainVars>>

WorkerPcs == {"none", "appended", "hook", "handshake", "loop", "claim", "dispatch",
              "reply", "refuse", "refusing", "rejecting", "close", "unregister", "bye", "exited"}
DrainPcs  == {"idle", "wake", "snapshot", "writers", "window", "responses", "close",
              "join", "rewait", "force", "done"}
Fates     == {"none", "answered", "refused", "dropped", "truncated", "rejected", "cut"}

Init ==
  /\ sstate = "RUNNING"
  /\ apc = "accept" /\ acur \in Conns
  /\ connections = {} /\ workers = {} /\ open = {}
  /\ wpc = [c \in Conns |-> "none"]
  /\ left = [c \in Conns |-> MaxRequests]
  /\ fate = [c \in Conns |-> "none"]
  /\ writers = 0 /\ responses = 0 /\ claimsClosed = FALSE
  /\ drained = FALSE
  /\ dpc = "idle" /\ mine = {} /\ shut = {} /\ drains = MaxDrains /\ expired = FALSE

Stopping == sstate # "RUNNING"

\* Threads that have been started and have not returned: is_alive().
Live(c) == wpc[c] \notin {"none", "appended", "exited"}

(***************************************************************************)
(* The accept loop.                                                        *)
(***************************************************************************)
\* accept() returned a connection and _stopping was not set.  Connections are
\* numbered in the order in which they are accepted.
AcceptOne(c) ==
  /\ apc = "accept" /\ ~Stopping
  /\ wpc[c] = "none" /\ c \notin open /\ \A d \in Conns : d < c => wpc[d] # "none"
  /\ apc' = "got" /\ acur' = c
  /\ open' = open \cup {c}
  /\ UNCHANGED <<sstate, listVars, workVars, claimVars, drained, drainVars>>

\* Under the lock: a free slot is taken, or the connection is rejected.
Register ==
  /\ apc = "got"
  /\ IF Cardinality(connections) >= MaxConnections
       THEN /\ open' = open \ {acur} /\ wpc' = [wpc EXCEPT ![acur] = "exited"]
            /\ apc' = "accept" /\ UNCHANGED connections
       ELSE /\ connections' = connections \cup {acur}
            /\ apc' = "registered" /\ UNCHANGED <<open, wpc>>
  /\ UNCHANGED <<sstate, acur, workers, left, fate, claimVars, drained, drainVars>>

AppendWorker ==
  /\ apc = "registered"
  /\ workers' = workers \cup {acur}
  /\ wpc' = [wpc EXCEPT ![acur] = "appended"]
  /\ apc' = "appended"
  /\ UNCHANGED <<sstate, acur, connections, open, left, fate, claimVars, drained, drainVars>>

StartWorker ==
  /\ apc = "appended"
  /\ wpc' = [wpc EXCEPT ![acur] = "hook"]
  /\ apc' = "accept"
  /\ UNCHANGED <<sstate, acur, listVars, open, left, fate, claimVars, drained, drainVars>>

\* The loop's condition, or the check after a (wake-up) accept.
AcceptExits ==
  /\ apc = "accept" /\ Stopping
  /\ apc' = "exited"
  /\ UNCHANGED <<sstate, acur, listVars, open, workVars, claimVars, drained, drainVars>>

(***************************************************************************)
(* A worker: _serve_connection, _handshake and _serve_one.                 *)
(***************************************************************************)
Goto(c, pc) == wpc' = [wpc EXCEPT ![c] = pc]

\* on_client_connected has run.
Connected(c) ==
  /\ wpc[c] = "hook" /\ Goto(c, "handshake")
  /\ UNCHANGED <<sstate, acceptVars, listVars, open, left, fate, claimVars, drained, drainVars>>

\* HELLO accepted, with on_client_authenticated; not gated by the drain.
Handshake(c) ==
  /\ wpc[c] = "handshake" /\ c \in open /\ Goto(c, "loop")
  /\ UNCHANGED <<sstate, acceptVars, listVars, open, left, fate, claimVars, drained, drainVars>>

\* A request is read while the loop runs.
Read(c) ==
  /\ wpc[c] = "loop" /\ ~drained /\ c \in open /\ left[c] > 0
  /\ left' = [left EXCEPT ![c] = @ - 1]
  /\ fate' = [fate EXCEPT ![c] = "none"]
  /\ Goto(c, "claim")
  /\ UNCHANGED <<sstate, acceptVars, listVars, open, claimVars, drained, drainVars>>

\* A frame turned down before any claim: malformed, of another session, a
\* second HELLO or a replayed id.
Reject(c) ==
  /\ wpc[c] = "loop" /\ ~drained /\ c \in open /\ left[c] > 0
  /\ left' = [left EXCEPT ![c] = @ - 1]
  /\ fate' = [fate EXCEPT ![c] = "none"]
  /\ Goto(c, "rejecting")
  /\ UNCHANGED <<sstate, acceptVars, listVars, open, claimVars, drained, drainVars>>

\* Its error frame is sent without a claim; a fatal violation or a failed
\* send ends the connection.
EndReject(c) ==
  /\ wpc[c] = "rejecting"
  /\ fate' = [fate EXCEPT ![c] = IF c \in open THEN "rejected" ELSE "cut"]
  /\ Goto(c, "loop") \/ Goto(c, "close")
  /\ UNCHANGED <<sstate, acceptVars, listVars, open, left, claimVars, drained, drainVars>>

\* _begin_write: both claims, or none.
BeginWrite(c) ==
  /\ wpc[c] = "claim"
  /\ IF sstate = "RUNNING" /\ ~claimsClosed
       THEN /\ writers' = writers + 1 /\ responses' = responses + 1
            /\ Goto(c, "dispatch")
       ELSE Goto(c, "refuse") /\ UNCHANGED <<writers, responses>>
  /\ UNCHANGED <<sstate, acceptVars, listVars, open, left, fate, claimsClosed, drained, drainVars>>

\* The handler has returned and the reply is being sent.
Dispatched(c) ==
  /\ wpc[c] = "dispatch" /\ Goto(c, "reply")
  /\ UNCHANGED <<sstate, acceptVars, listVars, open, left, fate, claimVars, drained, drainVars>>

\* A frame goes out whole only over a transport that is still open.
Sent(c, how) == fate' = [fate EXCEPT ![c] = IF c \in open THEN how ELSE "truncated"]

\* The reply is out or has failed, and _end_write releases both claims.
EndWrite(c) ==
  /\ wpc[c] = "reply"
  /\ Sent(c, "answered")
  /\ writers' = writers - 1 /\ responses' = responses - 1
  /\ Goto(c, IF c \in open THEN "loop" ELSE "close")
  /\ UNCHANGED <<sstate, acceptVars, listVars, open, left, claimsClosed, drained, drainVars>>

\* _send_refusal: a response claim, unless the window is closed.
BeginRefusal(c) ==
  /\ wpc[c] = "refuse"
  /\ IF claimsClosed
       THEN /\ fate' = [fate EXCEPT ![c] = "dropped"]
            /\ Goto(c, "loop") /\ UNCHANGED responses
       ELSE /\ responses' = responses + 1
            /\ Goto(c, "refusing") /\ UNCHANGED fate
  /\ UNCHANGED <<sstate, acceptVars, listVars, open, left, writers, claimsClosed, drained, drainVars>>

EndRefusal(c) ==
  /\ wpc[c] = "refusing"
  /\ Sent(c, "refused")
  /\ responses' = responses - 1
  /\ Goto(c, "loop")
  /\ UNCHANGED <<sstate, acceptVars, listVars, open, left, writers, claimsClosed, drained, drainVars>>

\* Faulty variant: the slot is given up with the transport still open.
LeaveLoopUnclosed(c) ==
  /\ wpc[c] \in {"loop", "handshake"}
  /\ Goto(c, "unregister")
  /\ UNCHANGED <<sstate, acceptVars, listVars, open, left, fate, claimVars, drained, drainVars>>

\* The loop ends when the drain is over; a read from a closed transport, a
\* client's close or a failed handshake ends it at any time.
LeaveLoop(c) ==
  /\ wpc[c] \in {"loop", "handshake"}
  /\ Goto(c, "close")
  /\ UNCHANGED <<sstate, acceptVars, listVars, open, left, fate, claimVars, drained, drainVars>>

CloseOwn(c) ==
  /\ wpc[c] = "close"
  /\ open' = open \ {c}
  /\ Goto(c, "unregister")
  /\ UNCHANGED <<sstate, acceptVars, listVars, left, fate, claimVars, drained, drainVars>>

Unregister(c) ==
  /\ wpc[c] = "unregister"
  /\ connections' = connections \ {c}
  /\ Goto(c, "bye")
  /\ UNCHANGED <<sstate, acceptVars, workers, open, left, fate, claimVars, drained, drainVars>>

\* on_client_disconnected has run and the thread returns.
Exit(c) ==
  /\ wpc[c] = "bye" /\ Goto(c, "exited")
  /\ UNCHANGED <<sstate, acceptVars, listVars, open, left, fate, claimVars, drained, drainVars>>

\* The steps a scheduled worker takes without a client or handler.
WorkerStep(c) ==
  \/ Connected(c) \/ BeginWrite(c) \/ EndWrite(c) \/ BeginRefusal(c) \/ EndRefusal(c)
  \/ EndReject(c) \/ CloseOwn(c) \/ Unregister(c) \/ Exit(c)

(***************************************************************************)
(* drain().                                                                *)
(***************************************************************************)
DrainStep(from, to) == dpc = from /\ dpc' = to

\* Step 1, under the condition; a stopped server is done at once.
BeginDrain ==
  /\ dpc \in {"idle", "done"} /\ drains > 0
  /\ drains' = drains - 1
  /\ IF sstate = "STOPPED"
       THEN /\ drained' = TRUE /\ dpc' = "done"
            /\ UNCHANGED <<sstate, connections, mine, shut, expired>>
       ELSE /\ sstate' = "DRAINING" /\ dpc' = "wake"
            /\ shut' = connections /\ connections' = {} /\ mine' = {}
            /\ expired' = FALSE /\ UNCHANGED drained
  /\ UNCHANGED <<acceptVars, workers, open, workVars, claimVars>>

\* The monotonic clock passes the deadline while drain() is running.
DeadlinePasses ==
  /\ dpc \notin {"idle", "done"} /\ ~expired
  /\ expired' = TRUE
  /\ UNCHANGED <<sstate, acceptVars, listVars, open, workVars, claimVars, drained,
                 dpc, mine, shut, drains>>

\* Step 2: the accept loop is woken and joined, for two seconds at most.
JoinAccept ==
  /\ DrainStep("wake", "snapshot")
  /\ apc = "exited" \/ AcceptMayStall
  /\ UNCHANGED <<sstate, acceptVars, listVars, open, workVars, claimVars, drained,
                 mine, shut, drains, expired>>

SnapshotWorkers ==
  /\ DrainStep("snapshot", "writers")
  /\ mine' = workers /\ workers' = {}
  /\ shut' = shut \cup connections /\ connections' = {}
  /\ UNCHANGED <<sstate, acceptVars, open, workVars, claimVars, drained, drains, expired>>

\* Faulty variant: writers are awaited without a deadline.
AwaitWritersForever ==
  /\ DrainStep("writers", "window")
  /\ writers = 0
  /\ UNCHANGED <<sstate, acceptVars, listVars, open, workVars, claimVars, drained,
                 mine, shut, drains, expired>>

\* Step 3.
AwaitWriters ==
  /\ DrainStep("writers", "window")
  /\ writers = 0 \/ expired
  /\ UNCHANGED <<sstate, acceptVars, listVars, open, workVars, claimVars, drained,
                 mine, shut, drains, expired>>

\* Step 4: the window closes, then the claimed responses are awaited.
CloseWindow ==
  /\ DrainStep("window", "responses")
  /\ claimsClosed' = TRUE
  /\ UNCHANGED <<sstate, acceptVars, listVars, open, workVars, writers, responses, drained,
                 mine, shut, drains, expired>>

\* Faulty variant: the responses in flight are not awaited.
AwaitNoResponses ==
  /\ DrainStep("responses", "close")
  /\ drained' = TRUE
  /\ UNCHANGED <<sstate, acceptVars, listVars, open, workVars, claimVars,
                 mine, shut, drains, expired>>

AwaitResponses ==
  /\ DrainStep("responses", "close")
  /\ responses = 0 \/ expired
  /\ drained' = TRUE
  /\ UNCHANGED <<sstate, acceptVars, listVars, open, workVars, claimVars,
                 mine, shut, drains, expired>>

\* Step 5.
CloseTransports ==
  /\ DrainStep("close", "join")
  /\ open' = open \ shut
  /\ UNCHANGED <<sstate, acceptVars, listVars, workVars, claimVars, drained,
                 mine, shut, drains, expired>>

\* Step 6.
JoinWorkers ==
  /\ DrainStep("join", "rewait")
  /\ (\A c \in mine : ~Live(c)) \/ expired
  /\ UNCHANGED <<sstate, acceptVars, listVars, open, workVars, claimVars, drained,
                 mine, shut, drains, expired>>

\* Step 7, and the forced close when something is left.
Rewait ==
  /\ DrainStep("rewait", "force")
  /\ writers = 0 \/ expired
  /\ open' = IF writers = 0 /\ \A c \in mine : ~Live(c) THEN open ELSE open \ shut
  /\ UNCHANGED <<sstate, acceptVars, listVars, workVars, claimVars, drained,
                 mine, shut, drains, expired>>

\* Faulty variant: no writer means stopped, whatever threads are alive.
FinishByWriters ==
  /\ DrainStep("force", "done")
  /\ sstate' = IF writers = 0 THEN "STOPPED" ELSE sstate
  /\ UNCHANGED <<acceptVars, listVars, open, workVars, claimVars, drained,
                 mine, shut, drains, expired>>

\* The outcome: STOPPED only if nothing is left.
FinishDrain ==
  /\ DrainStep("force", "done")
  /\ sstate' = IF writers = 0 /\ \A c \in mine : ~Live(c) THEN "STOPPED" ELSE sstate
  /\ UNCHANGED <<acceptVars, listVars, open, workVars, claimVars, drained,
                 mine, shut, drains, expired>>

Drain == JoinAccept \/ SnapshotWorkers \/ AwaitWriters \/ CloseWindow \/ AwaitResponses
         \/ CloseTransports \/ JoinWorkers \/ Rewait \/ FinishDrain

AcceptStep == Register \/ AppendWorker \/ StartWorker \/ AcceptExits

Finished == dpc = "done" /\ UNCHANGED vars

Next ==
  \/ \E c \in Conns : AcceptOne(c)
  \/ AcceptStep
  \/ \E c \in Conns : WorkerStep(c) \/ Handshake(c) \/ Read(c) \/ Reject(c) \/ Dispatched(c)
                    \/ LeaveLoop(c)
  \/ BeginDrain \/ Drain \/ DeadlinePasses
  \/ Finished

(***************************************************************************)
(* The server's own threads are scheduled and the clock advances; handlers *)
(* and clients may take forever.                                           *)
(***************************************************************************)
Fairness ==
  /\ WF_vars(AcceptStep) /\ WF_vars(Drain) /\ WF_vars(DeadlinePasses)
  /\ \A c \in Conns : WF_vars(WorkerStep(c))

Spec == Init /\ [][Next]_vars /\ Fairness

(***************************************************************************)
(* Properties.                                                             *)
(***************************************************************************)
\* Every variable holds a value the server's fields can hold.
TypeOK ==
  /\ sstate \in {"RUNNING", "DRAINING", "STOPPED"}
  /\ apc \in {"accept", "got", "registered", "appended", "exited"} /\ acur \in Conns
  /\ connections \in SUBSET Conns /\ workers \in SUBSET Conns /\ open \in SUBSET Conns
  /\ wpc \in [Conns -> WorkerPcs]
  /\ left \in [Conns -> 0 .. MaxRequests]
  /\ fate \in [Conns -> Fates]
  /\ writers \in Nat /\ responses \in Nat /\ claimsClosed \in BOOLEAN
  /\ drained \in BOOLEAN
  /\ dpc \in DrainPcs /\ mine \in SUBSET Conns /\ shut \in SUBSET Conns
  /\ drains \in 0 .. MaxDrains /\ expired \in BOOLEAN

Writing == {c \in Conns : wpc[c] \in {"dispatch", "reply"}}
Responding == {c \in Conns : wpc[c] \in {"dispatch", "reply", "refusing"}}

\* The two counters are exactly the workers inside a claim, so the zero the
\* drain waits for means what it is taken to mean.
ClaimsExact == writers = Cardinality(Writing) /\ responses = Cardinality(Responding)

\* Admission is decided in one place: no handler starts once DRAINING began.
NoDispatchOnceDraining ==
  [][sstate # "RUNNING" => \A c \in Conns : wpc'[c] = "dispatch" => wpc[c] = "dispatch"]_vars

\* The teardown never cuts a frame, an admitted reply or a refusal: only a
\* passed deadline does.
NoFrameCut == (\E c \in Conns : fate[c] = "truncated") => expired

\* When the server says STOPPED no worker thread is alive and no claim is
\* held: the trace may be sealed.
StoppedIsQuiet ==
  sstate = "STOPPED" => writers = 0 /\ responses = 0 /\ \A c \in Conns : ~Live(c)

\* A drain that beat its deadline is a clean one.
CleanUnlessExpired == dpc = "done" /\ ~expired => sstate = "STOPPED"

\* The transports the server holds open, but for the one the accept loop has
\* just been given.
Serving == open \ {c \in {acur} : apc = "got"}

\* A slot is given up only when its transport is closed, so until a drain begins
\* no more clients are served at a time than max_connections_per_session.  (The
\* drain clears _connections while their workers still serve; a connection that
\* was accepted before it is then counted from zero.)
ServedWithinCapacity == sstate = "RUNNING" => Cardinality(Serving) <= MaxConnections

\* drain() returns, however handlers and clients behave.
DrainReturns == dpc = "wake" ~> dpc = "done"
=============================================================================
