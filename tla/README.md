# The Watcher in TLA+

The Watcher runs a command (an agent, "the workload") under supervision: a
supervisor process starts it, answers its requests over local IPC, decides
ALLOW / DENY / QUARANTINE / KILL, terminates it when it must, and leaves a
sealed, hash-chained trace of what happened ("proof of execution"). This
directory holds TLA+ models of the parts of `the_watcher/` whose correctness
depends on the order in which threads, clients, signals, processes and file
operations act, and of the rules by which a request is judged; the TLC
configurations that check them, and TLAPS proofs of the main results.

Line numbers refer to files below `the_watcher/`.

## 1. Inventory

| component | state it keeps | operations | depends on |
|---|---|---|---|
| supervisor daemon (`supervisor/daemon.py`) | session state, `_quit`, `_shutting_down`, process and unit handles, kill accounting flags, heartbeat clock, client flags | `run`, `stop`, `request_shutdown`, request handlers, connection hooks, `_finalize` | everything below |
| session state machine (`supervisor/session.py`) | one state | `transition`, `transition_quiet` | |
| process supervisor, workload process (`supervisor/process_supervisor.py`, `runtime/process.py`) | the child and its tree | start, poll, terminate_tree | OS |
| session storage (`supervisor/storage.py`) | trace.json, metadata.json per session | create, atomic write, read | file system |
| IPC server (`ipc/server.py`) | server state, connections, workers, writer and response counts, replay cache | accept, serve, `drain`, `stop` | transport, the daemon as handler |
| IPC client (`ipc/client.py`) | one connection, degraded flag | connect, evaluate, heartbeat, close | transport, protocol |
| transport, protocol (`ipc/transport.py`, `ipc/protocol.py`) | framing, endpoint | send, receive, decode, strip authoritative fields | OS |
| watcher core (`watcher/watcher.py`) | trace recorder, quarantine flag, kill event flag, attached process | evaluate, observe, report_*, kill, quarantine, inline Session | kill switch, policy, trace |
| kill switch (`watcher/kill_switch.py`) | ARMED / ENGAGED, one record | engage, assert_armed | process |
| policy, tripwires, decisions, matching, authority (`watcher/*.py`) | none, pure | evaluate, worst-of, escalate, resolve_fact | |
| policy v1 (`policy_v1.py`, `policy_v1_runtime.py`) | none, pure | parse, glob match, project | |
| execution trace (`poe/*.py`) | list of hash-linked events, sealed flag | append, seal, relink, verify | canonical form |
| enforcement (`enforcement/`) | a containment unit, its identity | prepare, launch, inspect, terminate, verify_empty | kernel |
| command line (`cli.py`) | none | run, status, verify, signal handlers | daemon |

How they interact: `run()` owns the main thread. It creates the watcher and
the storage, starts the IPC server (one accept thread, one worker thread per
connection), spawns the workload, and polls it. Workers call back into the
daemon: `dispatch` for requests, `on_client_*` and `on_protocol_violation` for
connection events. A signal handler and a caller of `stop()` only set flags,
except that `stop()` kills first. The daemon's RLock serialises the handlers,
the hooks, the watchdogs and `stop()`; finalisation takes it only to claim the
session, and everything after the claim runs without it.

What is hard here, and what makes each part correct:

* **A kill is long, and finalisation runs beside it.** A kill is engaged,
  waits for processes, records, destroys a unit, records again. Correct means:
  accounted exactly once, on every path, and in the trace before the seal.
* **Sealing.** Nothing may be appended between counting the events and
  sealing, and nothing may change afterwards. That rests on the drain.
* **The drain** must stop an unknown number of workers with a deadline, cut
  no answer it promised, admit nothing new, and report STOPPED only when no
  worker is left.
* **Knowing that the workload is gone.** Processes ignore signals, outlive
  their root, exit with 0 when terminated, or start between two looks. The
  trace must never claim more than was observed.
* **Progress.** Hung clients and handlers must not keep `run()` or `drain()`
  from returning.
* **The inline watcher has no lock.** An embedding program's threads share one
  `PoEWatcher`: a verdict is being reached while another thread kills, and the
  session is being started or finalised meanwhile. Correct means: nothing is
  authorised once a kill has begun, a kill leaves its record and its event,
  and a session that ends leaves no process.
* **The chain.** A trace must verify whatever the clock does, and must stop
  verifying under its published hash whatever is done to the stored copy.
* **Answers and questions.** The client's threads share one connection; a
  request that timed out is still answered, the daemon may die in between, and
  another connection may repeat a request id. Correct means: an answer is only
  ever read as the answer to its own question, and silence is no permission.
* **Emptiness.** That a containment unit is empty is concluded from `/proc`,
  read pid by pid while the workload forks, moves and exits and pids are used
  again. The kill aims at pids from such a reading.
* **The rules.** A document is recognised, validated, projected onto the older
  rules and asked about resources named by the recorded request, by the
  client's claims and by the supervisor's own measurements. Correct means: what
  was accepted is enforced, and a claim only ever adds restriction. The code
  keeps the second but for the claims that section 6 lists.
* **The artefacts.** The supervisor dies or the power fails between two calls
  on a file, and `watcher status` reads while they are written.

`PROJECT.json` lists these as hazards with the line where each one bites.

## 2. Modules

| module | models | content |
|---|---|---|
| `SessionState` | `supervisor/session.py` | states, transition table, `Accepts`, `Quiet` |
| `SupervisedSession` | nothing: an abstract specification | what a session promises, without threads |
| `Daemon` | `supervisor/daemon.py`, with what it calls in `watcher.py`, `kill_switch.py`, `process.py` | all threads of one session |
| `IpcServer` | `ipc/server.py` | accept loop, workers, claims, drain |
| `Trace` | `poe/trace.py`, `recorder.py`, `event.py`, `verifier.py` | recording, sealing, storing, altering, verifying |
| `Watcher` | `watcher/watcher.py`, `watcher/kill_switch.py` | the inline watcher and its `Session`, called by several threads |
| `IpcClient` | `ipc/client.py`, `transport.py`, `protocol.py`, and of `server.py` the handshake, the replay cache and the answers | threads of one client, a second peer, a daemon that may die |
| `Sandbox` | `enforcement/backends/namespaces.py`, `linux/exec_guard.py`, `procfs.py`, `runtime/process.py` | one unit from launch to terminate, over a table of processes |
| `PathPattern` | `policy_v1.py`: `compile_pattern`, `_segment_matches`, `_segments_match` | the path matcher, step by step |
| `PolicyDocument` | `policy_v1.py`, `policy_v1_runtime.py`, `Policy.from_dict` | documents: validation and projection |
| `PolicyEngine` | `watcher/policy.py`, `tripwire.py`, `matching.py`, `authority.py`, `decision.py`; the daemon's sanitising of a payload | the verdict on one request |
| `Rules` | `cli.py` (`_load_policy_source`), `Watcher.evaluate` | a policy file from the command line to a verdict |
| `Storage` | `supervisor/storage.py`, the ends of `_prepare` and `_finalize`, `trace.export`, `cmd_status` | the artefacts of a session, with crashes |
| `MCDaemon`, `MCIpcServer`, `MCTrace`, `MCWatcher`, `MCIpcClient`, `MCSandbox`, `MCRules`, `MCStorage` | | model values, instances and symmetry for TLC |
| `DaemonProofs`, `IpcServerProofs`, `TraceProofs`, `WatcherProofs`, `StorageProofs`, `SandboxProofs`, `IpcClientProofs`, `RulesProofs` | | theorems |

`Rules` extends `PolicyEngine`, which extends `PolicyDocument`, which extends
`PathPattern`: the verdict uses the rules a document was projected to, and
those use the patterns.

Definitions called "Faulty variant" or "Mutant" in a comment are plausible
mistakes in the code that follows them. Nothing uses them; substituting one for
the definition it precedes makes TLC find a violation, which shows that the
property concerned depends on that piece of code.

### Daemon

State corresponds to fields of `WatcherDaemon` and of the watcher it owns (the
comment at each variable names the field). Three things are abstracted:

* *The trace* is, per tracked kind of event, whether it was recorded never,
  once or more (`cnt`); how many events followed the reading of the length
  that TRACE_SEALED declares (`tail`); and whether it is sealed.
* *The workload* is `tree`, the running processes, and `code`, the root's
  status. Every termination may leave any subset running, and a root that is
  terminated may exit with 0 or not.
* *A policy decision* is a nondeterministic choice among pass, quarantine and
  kill.

An enforced launch may fail before anything runs (`SpawnFails`) or after the
guard's exec (`LaunchFails`); what the second leaves running is in `tree` but in
no handle the daemon has.

A thread's critical section is one atomic step unless it contains a kill. A
kill is a sequence of steps (`KillEngage`, `KillTerminate`, `KillEvent`,
`KillDestroy`, `KillDestroying`, `KillAccount`) with the lock held, so that
main's lock-free finalisation interleaves with it. `dispatch` makes its checks
in one step and the handler runs in another, because the code checks before
locking. Main has one action per piece of `_prepare`, `_serve`,
`_watch_process` and `_finalize` between two points where another thread can
be noticed. The IPC server appears as its admission gate (`open`, `draining`,
`drained`, `timedout`); `IpcServer` justifies that abstraction: a clean drain
leaves no worker alive (`StoppedIsQuiet`).

### IpcServer

One action per step of the accept loop, of a worker and of `drain()` between
two points where another thread can be noticed. The handler behind `dispatch`
may take forever. `fate` says what became of the last request on a
connection: answered, refused (during a drain), dropped (after the response
window closed), rejected (before any claim), or cut by the teardown
(`truncated` for a frame with a claim, `cut` for one without).

### Trace

`Digest` stands for SHA-256 over the canonical encoding and is injective: that
no two payloads share a digest is the one cryptographic assumption. What an
event says is one element of `Data`; its sequence, time, clock-regression
evidence and two hashes are told apart. `Record`, `Seal` and `Store` are the
recorder and the export. From then on `copy`, what `from_dict` reads back, may
be altered: contents, times and hashes edited, events removed, repeated or
swapped, hashes recomputed, the chain rebuilt with `relink`, the declared hash
dropped or made to fit. `original` and `published` remember what was stored.

A trace without its published hash is only as good as its chain: who rebuilds
all of it and reseals it has a valid trace. `AlterationDetected` therefore
speaks of a copy with the published hash, and `ChainFixesPrefix` says what
remains without it: one event known to be intact vouches for all before it.

### Watcher

Callers run `evaluate`, `report_signal`, `report_process`, `kill`,
`quarantine` and `export_trace`; the owner drives the `Session`. Nothing is
locked but the recorder, so a step ends wherever another thread can be
noticed: between the test of the switch and the tripwires, between a verdict
and its application, between each assignment of `engage()` and `kill()`. The
verdict of policy and tripwires is a choice. The trace is whether it holds a
KILL_SWITCH event and whether it is sealed; recording on a sealed trace raises
through the call, and a call with `record=False` does not record.
`call[t].late` and `call[t].chastened` remember what was true when a call
began, `stopped` and `survived` what happened to the process.

### IpcClient

One action per point where a thread of the client, a worker of the server or
the daemon's death can be noticed. A caller takes `_lock`, connects and greets
if there is no connection, sends, and waits for an answer or its timeout;
`close()` says goodbye under the lock and then flags and drops without it, as
the code does. `connect()` may time out and leave its thread behind, which may
connect later (`LateConnect`). A frame may be begun and not finished: then
`torn` holds the reader in `recv_bytes` (`Glimpse`). `up` and `down` hold the
frames in transit. On the server's side a worker reads, tests the id against `_replay_cache`, inserts it (a
separate step: nothing is locked) and answers. A second peer repeats ids and
sends frames that are malformed or too large. `said` and `accepted` remember
what the daemon decided and which ids it let through, `raced` the ids two
workers tested before either inserted.

### Sandbox

The kernel is a table of processes with parent, process group, PID and user
namespace and start time. The workload forks, moves to a group of its own,
enters nested namespaces, exits, and may hang in the kernel; strangers start
on any free pid, in the middle of a scan too. The supervisor launches, reads
the guard's report, records the identity of the sandbox in two looks, inspects,
freezes, and terminates: the signal rounds to the launcher's group, then the
hunt (scan, kill by pid) until a scan finds nothing or the deadline passes,
then the scan that decides. A scan samples one pid per step. The layers by
which the code recognises a member (`Survivors`) are ancestry, PID namespace,
user namespace, each re-checked against recorded start times.

### PathPattern, PolicyDocument, PolicyEngine, Rules

Strings are sequences of characters from the classes the code tells apart, and
a path is how many slashes it starts with and what stands between slashes.
`_segments_match` is a small state machine with saved positions, one action
per branch; `_segment_matches` is a calculation. Both are compared with
`PathMeans`, what the grammar of the documents says a pattern means. A
document is a record of fields, each absent, null, of another type, or a
value; `LoadsPolicy` and `Project` return the rules or a refusal. `Evaluate`
has one operator per check of `Policy.evaluate`, in its order, since the first
verdict that matches ends some checks. `Rules` chooses a format, applies or
refuses the flags, loads, and then asks: `Sanitize` puts the supervisor's facts
over what the client wrote. Commands are searched with regular expressions in
the code; here a request carries the signs they found. `verdict` is what was
decided, tripwires included, and `bare` what would have been with nothing
claimed.

### Storage

`kept` is the session directory's two artefacts with the run that wrote them
and how much of their text is there; `temps` the temporary files. `_atomic_write`
is four steps (open, write, sync, replace) and each call may fail or be the last
before a kill. `images` holds the states of the directory a power failure may
leave: those after each operation so far, because the directory is never
synced. That operations reach the disk in their order is an assumption about
the file system, stated there. `IsOutside` compares paths by their text, as
`abspath` does. A workload writes whatever lies below its working directory; `exposed` remembers whether a run was let in that could
reach the store in spite of the check.

## 3. Runs

| run | question | bounds |
|---|---|---|
| `daemon_threads` | supervised session, all interleavings: seal count, kill accounting, COMPLETED, lost clients | 2 connections, 1 request of any kind, heartbeat action quarantine, IPC-loss action kill |
| `daemon_enforced` | with a containment unit and a descendant: no process is left running unreported; the refinement of `SupervisedSession` | 1 connection, 1 request |
| `daemon_progress` | `run()` returns after a stop request or the exit of the workload (`RunReturns`); a clean seal freezes the session; the kills of a session timeout are accounted once | 1 connection, 1 request, session timeout on, heartbeat action kill |
| `ipc_drain` | frames cut, the clients served at a time, teardown, the meaning of STOPPED, and that `drain()` returns | 3 connections on 2 slots, 1 request each, 1 drain |
| `trace` | an honest trace verifies under every clock; an altered copy does not under the published hash | 3 events, 2 contents, 2 times, 2 alterations in a row |
| `watcher` | a kill authorises nothing more and is on record; quarantine escalates; COMPLETED; clean-up | 2 callers with one call each, beside a session that may be used for ever |
| `ipc_client` | an answer belongs to its question, silence is no permission, close() is final, an id is not served twice within the window, every call returns unless it waits in one of the two calls without a timeout | owner, heartbeat, 1 caller, 1 peer, 2 connections, 2 ids, cache of 1 |
| `sandbox` | TERMINATED means empty, the hunt spares strangers, terminate() returns | 3 pids, 4 processes ever, nested namespaces, hanging processes |
| `rules` | the matcher against its meaning; documents enforced; claims lift nothing they do not take the place of; measured facts decide | matcher: patterns of up to 4 characters and of up to 3 segments; documents that differ from the minimal one in any 2 fields, 18 other sources, 3 sets of flags, 45 requests, 10 sets of claims; `MaxSegments` 3, `MaxRules` 2 |
| `storage` | nothing truncated, metadata never without its trace, no error means stored, the store out of reach | 2 runs under one id, 1 power failure, 1 deletion, 4 working directories |
| `watcher_leak` | violation, see section 6 | smallest instance that shows it |
| `rules_claims` | violation, see section 6 | as `rules` |

`TypeOK`, `ClaimsExact` and the steps that hold by a single guard are
proved (section 5) rather than repeated in the runs, but for the `TypeOK` of
`sandbox`, which says that no zombie is left behind. Each can be added to a
configuration as an INVARIANT.

Why the bounds are enough: the connection threads of the daemon interact only
through the lock, the gate and the shared flags, and two of them are needed
for the only pairwise hazard (both leaving, one of them with a kill). One
request reaches each handler in every phase of the session; a second one
repeats a state already reached, because every handler returns to `ready`.
Three connections on two slots put the capacity check at its limit. A swap
with a neighbour on either side needs three events, two times give a clock
that stands, advances and steps back, and two alterations let a rebuilt chain
follow an edit. Two callers beside the owner put three threads into `kill()`
at once, one more than any test-and-set there needs to go wrong. A second
connection of the client is the one opened after a timeout, where a late answer
could be misread; a cache of one evicts with the second id. Three pids and four
processes give a launcher, a sandbox, a task and one reuse of a pid. Two fields
that differ are enough for every pair of settings that interact in the
projection. A second run is the one that finds the files of the first, whole
or left over. What section 5 lists is proved without these bounds.

Deadlock is checked in every run but `sandbox` and `rules`, where a unit that
is gone and a request that is decided end the behaviour; `Returned` and
`Finished` are the only stuttering steps elsewhere, after `run()` or `drain()`
has returned. `Trace`, `Watcher` and `Storage` have none: sealing again,
closing again and asking for the status again are calls of the code.

## 4. Fairness

`Daemon`: weak fairness of main, of the thread holding the lock during a kill
(all its waits have timeouts), and of the end of a `stop()` call. Clients,
workload, clock, and workers outside a kill get none: a worker may hang inside
a handler. The lock is then free or held by a kill that goes on; that the
short critical sections end is part of their being one step.

`IpcServer`: weak fairness of the accept thread, the draining thread, the
clock (the deadline passes eventually), and of each worker's steps that wait
for neither client nor handler. Handlers and clients get none.

`IpcClient`: weak fairness of `close()` and of those steps of a thread that the
code bounds (`Bounded`): `connect()` is joined and `poll()` waits with a timeout,
and a write or a read on a connection the daemon has left fails at once.
`send_bytes` and, once the first bytes of a frame are there, `recv_bytes` have no
timeout (transport.py:192, 209); nothing is assumed of them, nor of the daemon,
its workers and the peers. `CallsReturn` therefore says that these two calls,
made with `_lock` held, are the only places where a request, and with it
`close()`, can stay for ever (`Stuck`).

`Sandbox`: weak fairness of the supervisor's steps in `terminate()` and of its
clock. Processes get none: the workload may fork or hang for ever.

## 5. Theorems

Proved with TLAPS, for every set of connections, every number of requests and
descendants, and every configuration the `ASSUME`s allow. TLC evaluates the
assumptions in each run. The assumptions are the types of the constants, and
that the names `root`, `main`, `stopper`, `free` and `None` are not reused. Those
of `Rules` say what the decoders and argparse hand over: a number is an integer
or, where nothing converts it, of a wrong type.

**IpcServerProofs.** `ClaimsExact` is inductive with the type invariant and
the finiteness of the connections (`CInv`): each step moves at most one
worker in or out of a claim, and two cardinality lemmas turn this into the
counters. `NoDispatchOnceDraining` follows from single steps.
`ServedWithinCapacity` is about the open transports, while the code's guard
counts `_connections`: `Slots` says that until a drain begins every transport
that is served has a slot, so the bound on the one is a bound on the other. The
results about the drain hold under `OneCleanDrain` (one drain, and
an accept thread that ends within its join): `StoppedIsQuiet`, `NoFrameCut`
and `CleanUnlessExpired` need `QInv`, which adds that a drain past the
snapshot has every live worker in its list (`AllCollected`), that what each
wait waited for stays true unless the deadline has passed (`WaitsMet`), and
that a frame is cut only then (`FramesWhole`). Both conditions of
`OneCleanDrain` are needed: section 6.

**DaemonProofs.** `TypeOK`; then `OrderInv`: the lock is held exactly while a
kill is in progress (`LockHeld`), main's position determines which flags and
which gate are possible (`Phased`, `Gated`), after a clean drain no worker and
no kill is left (`Alone`), and sealed means done (`SealedLast`). From it follow
`StopKillsBeforeFinalisation`, `SealedCountExact` (with `CleanTail`),
`LostClientRecorded` (with `LostKept`) and the action property
`FrozenAfterSeal`.

In the same module, `KillInv` relates the kill in progress to the switch, the
two accounting flags and the recorded events, which gives `KillAccountedOnce`.
`WorkInv` says what each phase of `_ensure_workload_stopped` means for the
processes while main walks from one decision to the next, which gives
`NoUnflaggedSurvivor` and `ExitWasObserved`. The former is about workloads that
were handed to the daemon (`known`); what a failed enforced launch leaves is
not: `NothingLeftRunning` in section 6. `StateInv` bounds the session state
by main's position, which gives `CompletedIsVoluntary` and, with the others,
`DaemonImplementsSession`: every step of the daemon is a step or a stutter of
`SupervisedSession`.

**TraceProofs.** `ChainInv` (sequence, link, hash, time and evidence of every
recorded event) is inductive and gives `HonestVerifies` and `EvidenceExact`.
`FileInv` adds that what is stored is such a chain, and that every alteration
leaves a sequence of events. A chain that agrees with the original at one
position agrees at all earlier ones: were it not so, the last disagreement
before it would put the same hash on two different payloads. "The last
disagreement" is found with `LeastElement`, a well-founded minimum of a set of
naturals, in place of an induction. That gives `ChainFixesPrefix`; and since
the published hash fixes the length and the last hash, `AlterationDetected`.

**WatcherProofs.** `JudgeInv`: a thread past the flip, or a record, means that
the switch is engaged; a call that began late is still at its check or on its
way through `kill()` with the verdict KILL; a blocked action of a quarantined
session is on the same way. A step of one thread ends no call of another
(`OthersStay`), so both action properties follow from the step that ends the
call. `LogInv` says that from the flip on somebody is on the way to leave the
next mark (record, flag, event) or it is left, which gives `KillOnRecord`.
`SessInv` ties the session to its process: it is started at most once and not
after it was finalised, a collected code is the code it ended with, only an
engaged switch or the clean-up stops it; from this follow
`CompletedIsVoluntary` and `NothingLeft`.

**SandboxProofs.** For any set of pids, any number of processes and any nesting
of namespaces. `Inv` has a part for each of those who hold a view of the table:
`Kin` (where a process sits follows from what it is, and nothing inside outlives
the init), `Positions` (what the supervisor's position says about its child),
`Identity` (the start times single out launcher and init, unless the look at
launch was stale), `Scanning` and `Faithful` (what a half-done scan has read is
still true of whoever holds the pid, unless a listed pid was reused). A step
that only ends processes is a `Fades` of the table, which keeps each part by one
lemma; the four births are proved one by one. `EmptyIsEmpty` holds because a live
process of the unit leaves its launcher or its init alive, and a finished scan
has both under the identity recorded at launch; `HuntSparesStrangers` because the
layers of the scan never leave the unit's namespaces.

**IpcClientProofs.** For any number of callers, connections, request ids, peers
and frames, failing open or closed. `AllowedByDaemon` and `InStep` need each
other: an answer is truthful because the connection carries no other (`Lines`),
and a connection is at rest between requests because every way out of one either
takes its answer or drops the connection (`Talk`). In between, a request id is
owed one answer on one connection and is undecided until then (`Once`), the lock
has one holder and the open ends are its own (`Locked`), `close()` sets its flag
before it drops (`Closing`), which gives `ClosedForGood`. For the replay cache,
`Remembered` says at which depth an accepted id is found and `Tested` what a
worker between the two halves of `_remember_request` knows: together
`ReplayWindow`.

**RulesProofs.** For every policy file, every set of flags, every request and
every claim. `Inv` says where the rules come from: those of a file that is
accepted, of either format, are sound, and those of a Policy V1 document are
its own (`InForce`: paths, tripwires, ceilings, no network); and that what was
decided was decided by them. Without `InForce` nothing ties a verdict to the
text of the document, which the engine never sees. On top of it:

* `ClaimsNeverUnblock`: each of the eleven checks that refuses a request with
  nothing claimed refuses it with anything claimed (`NoCheckIsUndone`), because a
  recorded value stays a candidate and a measured number is never lowered, and a
  tripwire that was touched stays so (`NoTripwireIsUndone`); the first check with
  a verdict decides, so one refusal is enough (`RefusedByACheck`). It excepts the
  claims that are judged in the place of what is recorded (`Displaced`) and the
  rules that answer ALLOW for an unknown host or tool, which end the checks
  (`ChecksGoOn`): for both it would be false, section 6. `ObservedDecides`, with
  the second condition alone, is the same for what is measured.
* `DeclaredIsEnforced` holds whatever is claimed but for a claimed path, which
  hides the recorded one from the tripwires, and from the rules where the
  recorded one does not look like a path (`PathStands`). A path that the request
  names is normalised by the rules
  of `os.path.normpath`, the pattern by those of the document. Both leave
  segments that lead nowhere and not back (`WalkIsPlain`), on which the two
  agree (`WalkKeeps`); a tripwire, which has no wildcard, means a prefix
  (`LiteralPath`), which is what the registry compares.
* `MatchIsExact`: what a pattern means is defined by a recursion (`Denotes`) that
  no prover unfolds. It is first shown to be the existence of a placement
  (`Place`): where each prefix of the pattern ends in the text (`SegmentPlaced`,
  `PathPlaced`). `_segment_matches` then searches for one: each way of finding a
  block, the bit-parallel scan included, returns its leftmost place
  (`FindBlockFinds`); blocks that were found make a placement (`GreedyPlaces`),
  and any placement has every block no earlier than it was found, so that none
  is missed (`PlacesGreedy`). This is the docstring's "Greedy-earliest is
  optimal", and gives `SegmentExact`. The loop of `_segments_match` keeps `Going`:
  what it has consumed fits, since the last `**` only single segments were taken,
  and no placement of the whole lies before where it stands. The last part is
  why only the last `**` is reconsidered: where the next segment does not match,
  no placement ends that `**` at `mark` (`StuckHere`), so all end it later.
* `StepsBounded`: `Phi`, a weighted sum of what is left of pattern and path,
  falls with every iteration of `_segments_match` that goes on (`PotentialFalls`)
  and pays for the iterations (`Paid`), for every length.

Much of this is about what recursive functions compute. An induction theorem
cannot be instantiated here, so each is shown with the set of the positions that
are right so far (`Upward`), and that a recursive function satisfies its own
equation by building one that does, position by position (`RowsExist`,
`PositionExists`).

**StorageProofs.** For any number of runs, kills, power failures and
deletions, and for any paths. `SyncInv`: what the rename puts in place was
synced, which gives `NeverTruncated`. `ReachInv`: a directory that holds an
artefact's path ends above the root or below it (`AboveOrBelow`), and neither
is let in without `exposed`, which gives `OutOfReach`. `OrderInv` with
`WritersInv` (no file is of a run to come): the trace is in place before the
run turns to the metadata, and what the reader holds is matched by what is
kept; this gives `MetadataHasTrace`. `RunsInv` and `TidyInv` follow the
temporary files and the export of the run under way, which gives
`CleanIsStored`.

Only model-checked: the liveness properties `RunReturns`, `DrainReturns`,
`CallsReturn` and `TerminateReturns`, since fairness is outside what the proof
system handles.

## 6. Where the code and its comments disagree

`watcher_leak` is a run that TLC ends with a counterexample: a `kill()` between
`_assert_armed` and `_attach_process` finds no process to terminate, and
`_finalise` skips its clean-up for a killed session, so the process runs on
(watcher.py:127-131, 170-173).

`rules_claims` likewise: claims that lift a refusal, although "a client assertion
may only ever add restriction, never remove it" (authority.py:24-25, 402). A
tripwire takes the claimed path instead of the recorded one (tripwire.py:101):
a recorded path within a tripwire kills, and with a harmless path claimed it is
allowed, if no rule denies it. The check of environment variables takes the
claimed name instead of the recorded one (policy.py:362-364), and so do the
tripwires (tripwire.py:92).

These are stated as definitions, and TLC refutes each when it is added to the
configuration named:

* `NothingLeftRunning` (`MCDaemonEnforced.cfg`): `launch()` gives up after the
  guard may have exec'd the workload (namespaces.py:388-405), `_force_kill`
  verifies nothing (1212-1216), and the daemon, which was handed no unit
  (daemon.py:708-709), says `not_started` and seals a trace that mentions nothing
  of what still runs. daemon.py:1914-1917 says that "the final record describes a
  machine state in which nothing from the sandbox is still running".
* `TripwiresStand` (`MCRules.cfg`): a recorded path within a tripwire of an
  accepted document no longer kills when another path is claimed, although "a
  forged `metadata.path` can therefore point the check at a harmless file all it
  likes; the recorded `resource` is still checked" (authority.py:27-29).
* `QuarantineReflected` (`MCDaemon.cfg`): a QUARANTINE decided while the
  session is STARTING is refused by the state machine and never repeated; the
  session then becomes RUNNING with the watcher quarantined
  (daemon.py:1265-1267).
* `UnverifiedIsFailed` (`MCDaemonEnforced.cfg`): a session already KILLED cannot
  become FAILED when its workload cannot be verified gone (daemon.py:1887-1890).
  The event is recorded.
* `SurvivorsNeverComplete` (`MCDaemonEnforced.cfg`): the state is decided before
  the unit is destroyed, so a session can be COMPLETED with KILL_FAILED in its
  trace (daemon.py:874, 1918).
* `StoppedIsQuiet` with `MaxDrains = 2` (`MCIpcServer.cfg`): a second `drain()`
  after one that timed out reports STOPPED with a worker alive, because the
  first one emptied the list (server.py:362, 466).
* `FrozenIsStill` (`MCSandbox.cfg`): "the whole unit is frozen", but the signal
  goes to one process group, and a process that left it runs on
  (namespaces.py:948-950, 971).
* `RefusedNeverRuns` (`MCSandbox.cfg`): a step of the guard that notes a problem
  without raising (a mount, a limit, a capability left over) is reported and
  followed by the exec all the same, so a launch refused for it has begun to run
  the workload (exec_guard.py:387; 12-13 say "exits without exec'ing").

Met in the models, without a definition of their own:

* `kill_request` is exempt from the `_shutting_down` check, so a kill is
  engaged beside finalisation, although "once it is set no new authoritative
  write can begin" (daemon.py:254, 1192). It is still accounted before a clean
  seal: `KillAccountedOnce` holds.
* Main tests `_containment_termination` without the lock, so it and a worker's
  kill may both destroy the unit of an "idempotent" `_destroy_unit`
  (daemon.py:819-822).
* Answers to malformed, replayed or foreign requests hold no claim, so the
  teardown may cut them (server.py:556, 701). With `AcceptMayStall = TRUE` the
  accept thread outlasts its two-second join (server.py:356), registers a worker
  after the snapshot, and `StoppedIsQuiet` fails.
* `drain()` clears `_connections` (server.py:349-350) while their workers serve,
  and an accept that got past its test of the state (490) before the drain
  registers a connection counted from zero (494-500): `ServedWithinCapacity`
  speaks of the time before a drain.
* `send_bytes` and `recv_bytes` have no timeout and run under the client's
  `_lock` (transport.py:192, 209): the client's calls are bounded as far as
  section 4 says.
* Two connections that test one request id before either inserts it are both
  served (server.py:823); `ReplayWindow` excepts exactly these ids (`raced`).
* Two threads that engage the switch at once both write a record, and the later
  reason replaces the first (kill_switch.py:111, "the first reason wins").
* The client's heartbeat thread is started only when the first connection
  succeeds; a client that connects later has none.
* A recorded identity without a start time matches whatever process has the
  pid. The branch of `_terminate_posix` that reaps after the last round is
  never reached, and `launch()` closes its write end twice on one path.
* A Version 1 document that allows nothing and denies some paths lets a path
  through that cannot be parsed (`_FilesystemRules._matches` is false for it),
  and `path_is_within` accepts for the parent "/" only "/" itself.
* A recorded resource that does not look like a path ("a/b") is no candidate
  once a path is claimed (authority.py:359-363), nor one that does not look like
  a host once a domain is (367-369), so the rules are asked about the claim
  alone. A claimed tool takes the place of an empty resource only.
* The checks of `Policy.evaluate` stop at the first with a verdict, ALLOW
  included (policy.py:223-238). A Version 0 file with `unknown_domain` or
  `unknown_tool` ALLOW therefore never compares the runtime with its ceiling for
  a request it allows that way (472-478, 514-520), and a claim of an unknown host
  or tool can bring that about. `ObservedDecides` and `ClaimsNeverUnblock` except
  these files (`ChecksGoOn`).
* Tripwires and checks stop at the first match, so the order of the candidate
  values, of which a claim may be one, can decide between DENY and KILL
  (authority.py:23-31). `ClaimsNeverUnblock` does not tell the two apart.
* `--max-processes 0` is dropped with a Version 1 document (cli.py:509), and
  `watcher run` reads a policy without the size limit of `load_policy`.
* A working directory at or below the storage root passes `assert_outside`,
  which only looks for the root below the working directory
  (storage.py:9-11, 227-233). `exposed` excepts such runs from `OutOfReach`.
* A second run under the same session id that dies after `write_trace` leaves
  its trace beside the metadata of the first, and `watcher status` reports the
  two together. Temporary files of a killed run are never removed. The directory
  is not synced, so a power failure may undo the artefacts of a run that
  returned (`CleanIsStored` speaks of `losses = 0`); the copy for `trace_out` is
  neither written atomically nor synced.

## 7. Not modelled

* Parsing and printing of policy files, arguments and events, redaction, and
  the field checks of decoded frames: a value is of the right kind or it is not.
* What only the kernel does: the seccomp filter, the Landlock rules and the
  resource limits, which are generated tables and system calls; the guard's
  order of applying them is modelled, their effect is not.
* The Docker backend: its state is the Docker daemon's, and the code passes
  commands to it. `prepare` of the namespaces backend, the profile presets, the
  detection of capabilities and the enforcement report (`enforcement/declared.py`,
  `profile.py`, `capabilities.py`) are tables over a fixed host.
* The remaining subcommands of the command line (demonstrations, host reports,
  `verify`, which is `TraceVerifier` on a file), `list_sessions`, the endpoint
  files of the transport, the Windows branches.
* Links in the file system: a working directory that reaches the storage root
  through one is apart from it for `is_outside` and for the model.
* Exceptions other than those the code handles explicitly (a MemoryError, say)
  and failures to start a thread.

`PROJECT.json` gives the status of every component.

## 8. What is left

1. `Daemon` composed with `IpcServer` in place of its gate. `StoppedIsQuiet`
   is what the gate assumes, so the composition would add interleavings but no
   new assumption; its state space needs a smaller daemon.
2. The command line's remaining paths to the daemon (`run` with each backend),
   once the backends other than namespaces have a state worth following.
