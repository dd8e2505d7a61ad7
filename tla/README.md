# Verification of the EVM debugger

TLA+ specifications of the EVM debugger in `src/`, model-checked with TLC and, for their
safety, proved with TLAPS. Paths such as `session.rs` are those under `src/src/`.

## 1. The system

A client posts a transaction hash and an RPC URL and gets a session. The server replays the
transaction in `revm`, records a snapshot before every opcode, and from then on lets the
client move a cursor through the recorded trace.

| component | state it keeps | operations | hard behaviour |
|---|---|---|---|
| Debug session (`session.rs`) | `SessionData`, the receiver `snap_rx`, `abort_flag`, last access | `new`, `from_cache`, `wait_for_snapshots`, `step_into`, `step_over`, `continue_exec`, `abort`, `snapshots_for_cache`, `current_state` | methods of HTTP handlers and of the background task meet at one lock; the abort flag is outside of it |
| EVM executor (`executor.rs`) | a thread and its snapshot buffer | `spawn_evm_thread` | many early returns, RPC failures in the middle of a replay, panics, requests that are never answered |
| Step inspector (`inspector.rs`) | call stack, logs, storage changes, step number, initial gas | revm's callbacks `step`, `call`, `call_end`, `create`, `create_end`, `log_full` | must stay in step with the frames of the EVM, also for frames that never run, revert or are halted |
| Session service (`session_service.rs`) | semaphore, background tasks | `create_session` | tasks queue for permits, end in many ways, save to one cache |
| Trace cache (`trace_cache.rs`, `fs_utils.rs`) | `cache/trace_*.json` | load, save (temporary file and rename) | several writers of one file, clean-up, crashes |
| Process, garbage collector (`main.rs`) | session map | start, removal of idle sessions and of old files every minute or ten | removes what a handler may be using |
| HTTP server (`server.rs`) | none of its own | one handler per route | concurrent requests for one session |
| Transaction fetcher (`fetcher.rs`) | `cache/<hash>.json` | `fetch_tx_info` | timeouts, partial failure |
| RPC URL validation (`rpc_url.rs`) | none | `validate_rpc_url` | none: a pure function |
| Frontend (`static/index.html`) | current session, opcode list, what is shown | load, poll, commands, abort | answers out of order, keys pressed while a request runs |

How they interact: a handler calls the service; the service calls the fetcher and the cache,
makes a session, puts it in the session map and spawns a task; the task acquires a permit,
spawns the EVM thread, and blocks in `wait_for_snapshots` on a channel of capacity one, on
which the EVM thread sends its whole trace at the end; then the task copies the trace, saves it
and drops the permit. Handlers reach the session through the map and its data lock. The only
way from a handler to the EVM thread is `abort_flag`, which the inspector reads before every
opcode.

What makes each part correct:

- session: shows what its transaction did; an abort is final; commands only move forwards
  inside the trace; does not stay in Loading;
- navigation: `step_over` stops at the next opcode that is not inside a call made by this one;
- service: no more replays than permits, no permit lost, every session served, the cache holds
  the traces of its own transactions, completely;
- cache directory: under its final name a file is whole or not there, whoever writes, fails, crashes
  or cleans up; only old files go, and all of them; a request for a session is always answered;
- inspector: the call stack mirrors the frames of the EVM, writes are shown under the contract
  they change, storage, logs and gas are those of the EVM up to what was reverted;
- registry: an idle session goes, one in use stays, a removed one never comes back;
- frontend: what is shown is never ahead of the session, and is the server's state of the current one
  once a command has had the page to itself; the opcode list is that of the current session; buttons that a
  command has disabled come back; and a load ends when its session has done loading.

`PROJECT.json` lists under "hazards" where in the code each of these could go wrong.

## 2. The modules

| module | models | extends |
|---|---|---|
| `Navigation` | the three commands and `state_at` as functions of a trace and a position | |
| `StepOverLoop` | the loop of `step_over`, iteration by iteration | `Navigation` |
| `SessionLifecycle` | abstract: the session a client of the HTTP API is promised | |
| `DebugSession` | `session.rs` with the EVM thread of `executor.rs`; implements `SessionLifecycle` | `Navigation` |
| `ReplayService` | `session_service.rs`, `trace_cache.rs`, restart of `main.rs`; composes the sessions of `DebugSession` with tasks, semaphore and cache | `DebugSession` |
| `TraceStore` | abstract: the trace cache of one transaction, as a value with atomic steps | |
| `CacheDir` | `fetcher.rs`, `trace_cache.rs`, `fs_utils.rs`, `cleanup_cache_dir` of `main.rs`, call by call into the file system; implements `TraceStore` | |
| `ReplayInspector` | `inspector.rs` driven by the frames of revm | `Navigation` |
| `ReplayEffects` | storage, logs and gas of `inspector.rs` beside the journal of revm | `ReplayInspector` |
| `SessionRegistry` | the session map between the handlers of `server.rs` and the collector of `main.rs` | |
| `Frontend` | the script of `static/index.html` and what the handlers of `server.rs` answer it; its server is `SessionLifecycle` | |
| `MCDebugSession`, `MCReplayService`, `MCReplayEffects` | constants and symmetries of the runs | the above |
| `*_proofs` | theorems | the above |

`SessionLifecycle` and `TraceStore` are abstract specifications: they say what a client, or the rest of
the program, may rely on, and translate no code. `DebugSession` implements the first, under
`ReplayService` too, and `Frontend` is built on it. `CacheDir` implements the second, and the cache that
`ReplayService` keeps for each transaction is of this form: looked up, replaced and removed in one
step each. So the layers meet in what has been checked of each. What a user of these two may conclude is
stated once, of the abstract specification, and proved of what implements it: `SessionLifecycle!NeverBack`
(no session goes back to an earlier stage or position) and `TraceStore!ServedByMisses` (who is served from
the cache is served what another request replayed).

### Correspondence with the code

**Traces.** A trace is the sequence of its snapshots' `call_depth`: no command looks at anything
else in a snapshot. A position is 0-based as in the code, so snapshot `i` is `trace[i + 1]`.

**DebugSession.** `data[s]` is `SessionData` of session `s`, `waiting[s]` says that `snap_rx` has
not been consumed, `channel[s]` is the content of the channel, `evm[s]` the thread, `steps[s]` how
many snapshots the inspector has recorded. A method that works under the data lock is one action
(`WaitForSnapshots`, `StepInto`, `StepOver`, `Continue`). `abort` is two, `AbortSignal` and
`AbortMark`, since it stores the flag before it takes the lock. `WaitForSnapshots` joins `take`,
`recv` and the update: nobody else ever looks at the receiver. On the side of the EVM thread,
`EvmStep` is one call of `Inspector::step`; `EvmHalt`, `EvmComplete`, `ReplayFails` and `ReplayPanics`
are the ways in which the thread ends, each with its message, or with the disconnection that
`recv` turns into an error. `ReplayHangs` is a request that is never answered. `Faults` selects
which of these may happen. `Restart` ends the process; a session is then gone.

**ReplayService.** `task[s]` is where the background task is: `spawned`, `queued` for a permit, `replaying`
(blocked in `wait_for_snapshots`), `received`, `saving`, `finishing`, `done`. `permits` and `queue` are
the semaphore, which is fair (first in, first out). Every action that touches a session is
conjoined with the action of `DebugSession` that says what happens to it. `cache[t]` is the file of
transaction `t`, as a set of at most one recording; `SaveTrace` is the rename, `SavesFail` allows it to
fail, and `EvictTrace` is the clean-up.

**ReplayInspector.** `frames` is revm's stack of frames, `call_stack` the inspector's. `phase = "ended"` is
the time between a frame and the callback after it, which is also where revm goes when it
refuses to enter a frame. A snapshot carries its depth, as in the code, and for the properties
which frame ran it and which frames were waiting. STATICCALL behaves like CALL, and CALLCODE
like DELEGATECALL, for everything that is modelled here, so each pair is one kind.

**ReplayEffects.** `journal` is what revm holds, the write in the slot of each contract and the logs, and
`checkpoints` one entry per frame; `Commit` and `Undo` are the two ways in which revm ends a frame.
Beside them stand `shown_storage`, `logs`, `gas_initial` and `gas_of`, which are what `inspector.rs` keeps and
shows. A write or a log is known by the number of its opcode. Each action is an action of
`ReplayInspector` with its effects. `undone` and `constructed` are history variables: the properties need
them to say what may differ.

**CacheDir.** Two or more calls of `create_session` for one transaction. `pc[r]` is the call into the
file system, or to the node, that is next; `kind[r]` says whether for the transaction's file or for
the trace. `files` is the directory: each name holds nothing, a part or the whole of what its
writer meant to write, with its age. A temporary name carries the id of its write. The clean-up reads
the clock, visits the names one by one, reads an age and removes by name, each in a step of its
own. `rewritten`, `robbed` and `moved` (the names that renames have filled since the clean-up read the clock)
are history variables.

**Frontend.** The page runs no two functions at the same time, but each of them pauses at its
`fetch`. A running call of `loadTx`, `stepInto`, `stepOver`, `continueExec` or `abortSession` is an
element of `Calls` and is `sent`, `answered` or `waiting` (for the next poll). `Serve` is the handler of the
server, `Receive` what the page does with the answer up to its next pause, `Lose` a request or an
answer that never arrives. `Settles`, `Collects` and `Vanish` are what sessions do without the page: a replay ends, the
collector removes one session, the process ends and takes all of them. `view` is what is displayed, `work` a history variable that says whether
the last function had the page to itself and was answered.

**SessionRegistry.** `sessions` is the `DashMap`, `unused` the ids not drawn yet. `get_session` and
`get_trace_steps` answer under the map's guard and are one action, `Query`; the other handlers
copy the `Arc` and let the guard go, so they are `BeginCommand` and `EndCommand`, with the collector
free to remove the session in between. `gc` is where `session_gc_task` is; it reads the clock
(`GcWake`), visits the sessions one by one (`GcLook`), and removes in a second pass (`GcRemove`).
`touched` is a history variable: what has been used since the clock was read. The clock may go
forwards by a second or be set back to any earlier time.

### Abstractions, and what they could hide

- The relaxed store of `abort_flag` is seen at once. A later view of it is a later `AbortSignal`, as
  far as the EVM thread is concerned; that `AbortMark` may then come first is harmless, because
  the late message finds `Aborted` under the lock.
- An abort that overlaps another one is merged with it: the second would store the same flag
  and write the same state.
- `create_session` is one action. Before its only `await`, on the fetcher, it has changed nothing.
- In `ReplayService` loading a cache file is one step and does not fail. That this is sound is what
  `CacheDir` shows: a file that vanishes between `exists` and `read_to_string` makes `create_session` fail without
  effect, and nothing else does.
- In `CacheDir` removing a file does not fail, `read_dir` reports no error, and a file that `rename` has put
  in place survives a restart: power failures, against which the code does not `fsync`, are left out.
  A file that appears while the clean-up iterates is too young for it, listed or not. The cache
  name of older releases is made from the hash as it was entered, but `create_session` has already
  brought that into canonical form, so that both names are one (`LookAgain`).
- A contract has one storage slot in `ReplayEffects`: writes to different keys do not interact.
- In `Frontend` the sessions settle, move and fail as `SessionLifecycle` allows, which is more than the code
  does. A command whose answer is lost may or may not have been executed. Rendering is left out,
  except that a list that is none makes it throw.
- The transaction of a session is chosen in the initial state instead of with the request.
- `Restart` keeps ids used: session ids are random and never repeat.
- Values (gas, stack, memory, addresses beyond equality, results beyond success and failure) are left out.

## 3. The runs

| run | question | bounds, and why they are enough |
|---|---|---|
| `step_over` | does the whole loop compute `StepOverIndex`? | traces of up to 5 snapshots over 3 depths, every start: calls nested twice, siblings, falls by two levels, the last snapshot |
| `session_safety` | does a session show genuine traces, hold aborts and only move forwards, whatever happens? | 2 sessions, two transactions (one with a nested call, one without code), every fault, restart. Sessions share nothing but the process, so two show every interaction |
| `service_safety` | are permits conserved, replays bounded, sessions and their tasks in step, the cache genuine? | 3 sessions for 2 permits, one transaction so that all of them compete for one cache file, every fault, failing saves, clean-up, restarts. That no file holds another transaction's trace cannot fail with one transaction; it rests on `CacheStaysGenuine` |
| `service_liveness` | does Loading end, is every queued session served, and is the life cycle implemented, with its fairness? | 2 sessions for 1 permit, so that one has to wait; two transactions, failures and panics but no hang |
| `cache_dir` | is the cache directory a cache, and does a clean-up miss nothing? | 2 requests for one transaction, failing writes, a restart, a time to live of 0 in a clock of 0 to 1: enough for a file to be young, as old as allowed, and too old, and to be written anew between look and removal |
| `effects` | do call stack, storage groups, depths, storage, logs and gas follow the EVM? | 6 opcodes, 2 contracts, 3 nested frames, abort at any time: a call in a call, siblings at one depth, refused frames, a constructor that calls, an inner frame that ends well and is undone with the outer one |
| `registry` | do idle sessions leave, all of them in one round, and only they, for good? | 2 sessions, 2 clients, a time to live of 1 in a clock of 0 to 3: enough to expire, to be set back behind an access, and for two rounds with a clean-up after every second |
| `frontend` | does the page agree with the server, never run ahead of it, give its buttons back, and does a load end? | 2 functions at once, 2 sessions (a load after a load), traces of 0 or 2 snapshots: enough for a command that overtakes another, a key during a load, a stale answer to the first session after the second is loaded, and a session that vanishes alone or with all others |
| `constructor_storage` | are all writes grouped by contract? | no: finding |
| `abort_hung_replay` | does abort stop the EVM? | no: finding |
| `cache_incomplete` | is a cached trace complete, with its result? | no: finding |
| `opcode_list_missing` | is the opcode list fetched once the session is ready? | no: finding |

The largest runs, `effects` with 2 million states, `service_safety` with 1.4 million, `frontend` and `cache_dir`, take a
minute or two each. Sessions and contracts may be exchanged, which the runs that check no liveness
use (`SYMMETRY`).

Deadlock is not checked in `step_over` and `effects`, where a loop and a replay end, nor in `cache_dir`, whose
clock, requests and restarts are bounded; nor in two of the runs that look for a violation.

Every property of a passing run has a mutant in `PROJECT.json`: a definition of the model changed
as a bug in the code would change it (the check for `Aborted` left out of `wait_for_snapshots`,
`let _ = ...` for the permit, no `create_end`), under which TLC finds the property violated.

### Fairness

`DebugSession!Fairness` is weak fairness of the EVM thread, of the task that starts it and waits for
it, and of a handler that is inside `abort`: an operating system thread or a tokio task that can run
does. No fairness is given to clients, to faults or to restarts. `ReplayService` gives the same to its
tasks, step by step, and `ServesSessions` checks that this provides what `DebugSession` assumes of
`Spawn`: a permit is always freed in the end, and the queue is served in order. A request that
is never answered (`hang`) is outside of the liveness runs, since nothing in the code bounds it:
see the finding on `abort`. `SessionRegistry` gives weak fairness to the collector, which is a loop of its
own whose sleep does not depend on the wall clock, and to commands that have begun; the clock
need not move.

In `CacheDir` a request that can go on does, and the clean-up runs again and again. Nobody has to send
a request, the node need not answer and a replay need not end: `RequestsAnswered` rests on the timeouts of
`fetcher.rs`, which are among the steps of a request (`RpcFails`). In `Frontend` the event loop runs, and every
request is answered or fails, in whichever order. Nothing is assumed of the sessions: a replay may
hang, or never get a permit, and `pollUntilReady` then polls for ever. So `LoadsEnd` says that a load
ends unless, from some point on, the session it polls is always loading; together with
`LoadingResolves` every load ends where no request hangs and there is a permit. Clients need not press a key.

## 4. What the runs found

1. A truncated trace is cached like a complete one, in two ways. A replay that fails after some
   opcodes (an RPC request refused, say) is saved without a result (`executor.rs:195`, `session_service.rs:134`).
   And `abort` stores its flag before it takes the lock: a replay that halts, delivers and is copied in
   between is saved as a successful execution that ends where the abort struck (`session.rs:203`). Every later
   session of the transaction is served that trace, where the README promises complete
   snapshots. (`cache_incomplete`; its counterexample is one of the two, which are equally short.)
2. Storage writes of constructors are shown under the zero address (`inspector.rs:213`), where
   `types.rs:30` promises a grouping by contract. (`constructor_storage`) Nothing else is misplaced:
   `OnlyConstructorsUnderZero` proves that the group of the zero address holds exactly the writes of
   constructors, and every other group only writes to its contract.
3. `abort` does not stop a replay that waits for an RPC answer, where `session.rs:201` says it does; if
   the answer never comes its permit is never given back. (`abort_hung_replay`)
4. A session that a key finishes between two polls of its load is shown without its opcodes: the page
   fetches the list only if a poll finds the session paused (`index.html:177`). (`opcode_list_missing`)

The properties that hold name other things a user should know: `gas_used` of an opcode after an inner
frame may be relative to the inner limit (`GasUsedOfOwnFrame` has to except it), writes and logs of a
reverted frame go on being shown (`ShownStorageIsLatest`, `LogsAreOfReceipt`), a file written anew between the
look and the removal of the clean-up is lost although it is young (`OnlyOldFilesLeave`), and `create_session`
fails instead of replaying if the clean-up removes the file it has just seen (`ReadsFailWhenRobbed`).

The page adds some (`index.html`). A load whose replay hangs, or waits for a permit that never comes,
refuses every other load until the page is reloaded: the polls have no limit (line 172), the abort
button is disabled meanwhile unless a lost key command has enabled it, and, since each poll touches the
session (`server.rs:100`), the collector never takes it (`LoadsEnd` has to except it). The buttons of a
session that could be moved stay disabled while the page says "aborted", although the abort may have
been lost (line 347), while it shows an answer "loading" that came late, and after a load that failed
once its polling had begun (line 164); the keys work all the same (`ButtonsComeBack`). And an answer to
a command for an earlier session is shown even when another one has been loaded since; it never moves
that session's display ahead of it (`DisplayNeverAhead`), and the next command that has the page to
itself corrects it (`AnsweredPageIsCurrent`).

No document of the repository says otherwise, so they are no findings.

## 5. The proofs

All theorems are about every value of the constants, under the assumptions the modules state:
`ReplayAssumption` (each transaction has a trace and an outcome), `ServiceAssumption` (finitely many
sessions, a natural number of permits), and `InspectorAssumption`, `CacheAssumption` and `FrontendAssumption` (null
values are none of the values, bounds are natural numbers).

- `Navigation_proofs`, `StepOverLoop_proofs`: `StepOverIndex` is the least later stop, by a well-founded
  choice over a set of naturals; the invariant of the loop says that no position passed so far
  was a stop. `CommandsAreOrdered` compares the three commands. `StepOverTerminates` gives the loop a variant:
  the distance to the end of the trace and the stages of the body to come, a natural number that
  every step makes smaller. That is why the liveness of the loop needs no run.
- `DebugSession_proofs`: `SessionInv` is inductive. `ReplayIsGenuine` and `AbortHolds` alone are not: a step of
  `WaitForSnapshots` installs what is in the channel, so the message must be genuine already when it
  is sent, while the thread that sent it is known to have exited; and for a session that has
  not been marked, the flag must imply that an abort is under way. `ReplayStages` says this, stage
  by stage. `SafeActor` and `SafeOthers` split a step into the session that acts and the others, which
  keep their part because their state is untouched.
- `ImplementsLifecycleSafely` maps a session to what a client is told (`StatusOf`), its position and length;
  each step is a step of `SessionLifecycle` or leaves the view unchanged. `SessionsNeverGoBack` follows
  by going through the actions of the abstract life cycle only, once the refinement holds.
- `ReplayService_proofs`: `ServiceInv` adds to `SessionInv` that a running thread has a task in `replaying` (hence
  a permit, hence the bound), that a session that does not exist has no task, and that ready
  sessions, copies and files hold cacheable recordings. `ServiceUsesSessions` shows every step of the
  service to be a step of `DebugSession`, so that `AbortHolds`, the life cycle and `NeverBack` carry over.
- `NoSessionIsStranded` is about the way of a session through queue and task. `TasksServeSessions` is inductive
  together with `ServiceInv`: per session (`ServedAt`), the receiver is there exactly until the task
  has come back from it, the thread is idle exactly until the task starts it, and the queue lists
  those that wait, each once. `QueueGrows` and `QueueShrinks` say what `Append` and `Tail` do to such a queue.
- `OnlyHungReplaysBlock` is the safety half of `EverySessionServed`, and the half that counting makes interesting:
  if fewer replays hang than there are permits, then either a permit is free and the head of the queue can
  take it, or some holder does not hang, and the guard of its next step holds (`CanGoOn`). What is left to
  fairness is that a task that can go on does. `NoPermitsNoReplay` is the other end: without permits
  the invariant `PermitsConserved` leaves no task to hold one, so that no thread ever starts, no file is
  written, and no session gets beyond Loading.
- `ReplayInspector_proofs`: `MirrorInv` extends `CallStackMirrorsFrames` to the time between a frame and its callback,
  where the call stack has one entry more than there are frames. `ZeroInv` adds that the entry of
  a constructor has the zero address, which makes `OnlyConstructorsUnderZero`.
- In the same module, `StepOverIsOfFrames` proves that comparing depths is enough. `StepOverFollowsFrames` speaks of
  snapshots only and is not inductive: `FrameInv` adds what the frames in execution are to the snapshots
  taken so far. As long as all snapshots after the `i`-th are deeper, the frames up to the depth of the
  `i`-th are exactly those that were active in it (`ActiveBelow`): a frame above them can only be popped to
  its caller, whose next opcode is a snapshot before any new frame. With it, the first snapshot that
  is not deeper runs in a frame that was active (`ReturnsFirst`), and `StepOverLands` of `Navigation_proofs` says
  that `step_over` goes there.
- `EffectsAreInspected` carries these theorems over to `ReplayEffects`. `ShownStorageIsRight` is proved by `EffectsInv`: for
  every checkpoint that may yet be restored, what is shown is justified by what the checkpoint holds
  or was written after it, so that it will be undone with it. `GasIsOfOwnFrame` is proved by `GasInv`: unless
  the frame in execution is the one entered last, or the replay is aborted, an opcode of that one
  has been shown. `LogsAreRight` is proved by `LogsInv`: the logs that a checkpoint holds are, in order, those
  shown up to its opcode without the undone ones, and later checkpoints are of later opcodes. `LogsAreOfReceipt`
  states this by positions instead of selecting a subsequence, so that it can be proved.
- `CacheDir_proofs`: `CacheInv` adds that a temporary file holds what the request in its name wrote, whole by the
  time it is renamed, that a request which reads has seen the file unless it was robbed of it, and
  that the clean-up has read that what it is about to remove is old, unless that was rewritten.
  `CacheImplementsStore` maps each call into the file system to a step of `TraceStore` or to a stutter, and
  `HitsComeFromReplays` follows from the abstract store. `CleanUpIsComplete` needs `RoundInv`: while the clean-up
  goes through the directory, each name is still unseen, doomed, young by the clock that was
  read, or filled by a rename since.
- `Frontend_proofs`: `PageInv` adds that at most one load is under way and which session its list will be of,
  and, for a call that has the page to itself, that what it was answered still holds on the server.
  `DisplayIsPast` is about answers that overtake each other. `DisplayNeverAhead` is not inductive, since what is
  displayed next is what some call has been told: `LagInv` says of every call that its session has been in the
  state it was answered (`HasBeen`). This survives every step of the server because sessions only move onwards
  (`HasBeenStays`, from `SessionLifecycle!Onwards`), so here the abstract life cycle, which `DebugSession` is proved to
  implement, is what keeps the page right. `ButtonsReturn` is proved by `UsableInv`: a page that is locked over
  a session which can be moved, or will be when it has loaded, has a call under way. With `LagInv`, each way out of a
  call enables the buttons, or shows a state after which the session can no longer be moved.
  `NoLoadOutlivesItsCall` (`FlagIsALoad`) is the part of `LoadsEnd` that is safety: `loadInFlight` is set exactly while
  a call of `loadTx` is under way, so that no way out of it leaves the page locked.
- `SessionRegistry_proofs`: `RegistryInv` says that every key waiting to be removed was idle when the clock was
  read or has been used since; an access, which could break the first half, adds to the second.
  `RoundInv` of `RoundsMissNone` says the converse of the sessions: each is unseen or marked for removal, or it
  was used or made since the clock was read, or is within its time to live.

Every invariant and every action property that a run checks is proved. Only model-checked is what
needs fairness, which TLAPS does not reach: `LoadingResolves`, `EverySessionServed`, `IdleSessionsLeave`, `OldFilesLeave`,
`RequestsAnswered`, `LoadsEnd`, the liveness half of `ImplementsLifecycle`, and `ServesSessions`. Of several, the part that
is safety is proved: `OnlyHungReplaysBlock` for `EverySessionServed`, `RoundsMissNone` for `IdleSessionsLeave`,
`CleanUpIsComplete` for `OldFilesLeave`, `NoLoadOutlivesItsCall` for `LoadsEnd`.

## 6. The plan

Done: every module of the table in section 2, the proofs of all safety properties, the life
cycles, and the safety halves of the liveness properties named above. The fetcher is part of `CacheDir` and not a module of its own, since its file and the trace lie in
one directory and are cleaned up together.

Worth proving next: a variant for a request in `CacheDir` and for a task in `ReplayService`, as `StepOverTerminates`
has one for the loop, so that fairness is left with nothing but to take the next step; and that the
cache of each transaction inside `ReplayService` is a `TraceStore`.

Worth doing as the code changes: a fix of a finding should turn `CachedTracesAreComplete`, `StorageGroupedByContract`,
`AbortStopsEvm` or `OpcodeListFetched` into a property of a passing run.

### Not modelled

- RPC URL validation (`rpc_url.rs`): a pure function of a string, without state, called once before anything
  is created. Its content is what the `url` crate and `IpAddr` make of the characters, which a model
  without strings character by character would have to assume; its unit tests cover the table.
- The canonical form of hashes, routing, CORS, JSON, and the rendering of the page's panels: stateless.
- The encoding of stack, memory and numbers in a snapshot, and the values that the executor passes to
  revm (block, gas price, chain id): no command and no other component looks at them.
- revm, tokio's semaphore, `DashMap` and the file system are modelled only as far as the code uses them.
- A semaphore without permits (`EVM_DEBUGGER_EVM_CONCURRENCY=0`, `main.rs:34`): safety is proved for it too, and
  `NoPermitsNoReplay` says what such a server does: it replays nothing. Liveness is false by configuration.
