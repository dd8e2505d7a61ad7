----------------------------- MODULE DebugSession -----------------------------
(***************************************************************************)
(* A debug session (session.rs) together with the EVM thread that replays  *)
(* its transaction (executor.rs, and the abort check of inspector.rs).     *)
(*                                                                         *)
(* Three kinds of threads meet in a session: the EVM thread, which records *)
(* one snapshot per opcode and sends them all at once over a channel of    *)
(* capacity one; the blocking task that waits on that channel and installs *)
(* the trace; and the HTTP handlers, which move the cursor or abort.  Each *)
(* method that holds the data lock is one action; abort stores its flag    *)
(* before it takes the lock and is therefore two.  What the EVM thread     *)
(* does on its own before a send is one action with the send.              *)
(***************************************************************************)
EXTENDS Navigation

CONSTANTS Sessions,   \* session ids
          Txs,        \* transactions
          FullTrace,  \* [Txs -> Traces]: the opcodes a complete replay records
          Outcome,    \* [Txs -> {"success", "failure"}]: its ExecutionResult
          Faults      \* what may go wrong in a replay, see Replay* below

ASSUME ReplayAssumption ==
  /\ FullTrace \in [Txs -> Traces]
  /\ Outcome \in [Txs -> {"success", "failure"}]
  /\ Faults \subseteq {"replay", "panic", "hang"}

VARIABLES tx,         \* the transaction of each session
          data,       \* SessionData, and whether the session exists
          waiting,    \* snap_rx still holds the receiver
          channel,    \* the one message of the channel
          abortFlag,  \* abort_flag
          aborting,   \* an abort call is between its two effects
          evm,        \* the EVM thread
          steps       \* how many snapshots the inspector has recorded

sessionVars == <<tx, data, waiting, aborting>>
evmVars     == <<channel, evm, steps>>
vars        == <<tx, data, waiting, channel, abortFlag, aborting, evm, steps>>

-----------------------------------------------------------------------------
Phases == {"absent", "loading", "ready", "aborted", "error", "gone"}

(* SessionData.  Only Ready carries data; the other variants hold the same *)
(* empty values so that every session has one shape.                       *)
Bare(phase) == [phase |-> phase, snapshots |-> <<>>, index |-> 0, result |-> "none"]

Ready(snapshots, result) ==
  [phase |-> "ready", snapshots |-> snapshots, index |-> 0, result |-> result]

(* ChannelMessage.                                                         *)
NoMessage == [kind |-> "empty", snapshots |-> <<>>, result |-> "none"]
ErrorMessage == [kind |-> "error", snapshots |-> <<>>, result |-> "none"]
AllSnapshots(snapshots, result) ==
  [kind |-> "snapshots", snapshots |-> snapshots, result |-> result]

Exists(s) == data[s].phase \notin {"absent", "gone"}

(* What replays of t may leave behind: a part of the trace without result, *)
(* a part that a halt made look successful, or the whole with its outcome. *)
(* The files of the trace cache hold such records.                         *)
Recordings(t) ==
  LET Cut(n, result) ==
        [snapshots |-> SubSeq(FullTrace[t], 1, n), result |-> result]
      length == Len(FullTrace[t])
  IN  {Cut(n, "none") : n \in 1 .. length}
        \union {Cut(n, "success") : n \in 0 .. length - 1}
        \union {Cut(length, Outcome[t])}

-----------------------------------------------------------------------------
Init ==
  /\ tx \in [Sessions -> Txs]
  /\ data = [s \in Sessions |-> Bare("absent")]
  /\ waiting = [s \in Sessions |-> FALSE]
  /\ channel = [s \in Sessions |-> NoMessage]
  /\ abortFlag = [s \in Sessions |-> FALSE]
  /\ aborting = [s \in Sessions |-> FALSE]
  /\ evm = [s \in Sessions |-> "idle"]
  /\ steps = [s \in Sessions |-> 0]

(* DebugSession::new: the receiver is held, nothing is recorded yet.       *)
New(s) ==
  /\ data[s].phase = "absent"
  /\ data' = [data EXCEPT ![s] = Bare("loading")]
  /\ waiting' = [waiting EXCEPT ![s] = TRUE]
  /\ UNCHANGED <<tx, channel, abortFlag, aborting, evm, steps>>

(* DebugSession::from_cache: no receiver and no EVM thread.                *)
FromCache(s, file) ==
  /\ data[s].phase = "absent"
  /\ data' = [data EXCEPT ![s] = Ready(file.snapshots, file.result)]
  /\ UNCHANGED <<tx, waiting, channel, abortFlag, aborting, evm, steps>>

-----------------------------------------------------------------------------
(* spawn_evm_thread.                                                       *)
Spawn(s) ==
  /\ waiting[s]
  /\ evm[s] = "idle"
  /\ evm' = [evm EXCEPT ![s] = "running"]
  /\ UNCHANGED <<tx, data, waiting, channel, abortFlag, aborting, steps>>

EvmSends(s, message) ==
  /\ evm' = [evm EXCEPT ![s] = "exited"]
  /\ channel' = [channel EXCEPT ![s] = message]
  /\ UNCHANGED <<sessionVars, abortFlag, steps>>

(* StepDebugInspector::step: the abort flag is looked at before every      *)
(* opcode, and only then is the snapshot recorded.                         *)
EvmStep(s) ==
  /\ evm[s] = "running"
  /\ ~abortFlag[s]
  /\ steps[s] < Len(FullTrace[tx[s]])
  /\ steps' = [steps EXCEPT ![s] = @ + 1]
  /\ UNCHANGED <<sessionVars, abortFlag, channel, evm>>

Recorded(s) == SubSeq(FullTrace[tx[s]], 1, steps[s])

(* With the flag up the inspector halts every frame with Stop, which revm  *)
(* reports as a success: a shortened trace with a result is sent.          *)
EvmHalt(s) ==
  /\ evm[s] = "running"
  /\ abortFlag[s]
  /\ steps[s] < Len(FullTrace[tx[s]])
  /\ EvmSends(s, AllSnapshots(Recorded(s), "success"))

EvmComplete(s) ==
  /\ evm[s] = "running"
  /\ steps[s] = Len(FullTrace[tx[s]])
  /\ EvmSends(s, AllSnapshots(Recorded(s), Outcome[tx[s]]))

(* A mutant: the check for an empty trace is missing (executor.rs:191).    *)
ReplayFailsQuietly(s) ==
  /\ "replay" \in Faults
  /\ evm[s] = "running"
  /\ EvmSends(s, AllSnapshots(Recorded(s), "none"))

(* The transaction cannot be set up, or inspect_one_tx returns Err (an RPC *)
(* request for state failed): what was recorded is sent without result.    *)
ReplayFails(s) ==
  /\ "replay" \in Faults
  /\ evm[s] = "running"
  /\ EvmSends(s, IF steps[s] = 0 THEN ErrorMessage
                 ELSE AllSnapshots(Recorded(s), "none"))

(* A panic drops the sender: the receiver is disconnected.                 *)
ReplayPanics(s) ==
  /\ "panic" \in Faults
  /\ evm[s] = "running"
  /\ EvmSends(s, NoMessage)

(* A request of the replay is never answered; it has no timeout.           *)
ReplayHangs(s) ==
  /\ "hang" \in Faults
  /\ evm[s] = "running"
  /\ evm' = [evm EXCEPT ![s] = "hung"]
  /\ UNCHANGED <<sessionVars, abortFlag, channel, steps>>

-----------------------------------------------------------------------------
(* The message that recv returns; without sender, the disconnection error. *)
Received(s) == IF channel[s] = NoMessage THEN ErrorMessage ELSE channel[s]

(* Mutants: the check for Aborted is missing, or only a message, and not   *)
(* the end of its sender, wakes the receiver.                              *)
WaitOverwrites(s) ==
  /\ waiting[s]
  /\ evm[s] = "exited"
  /\ waiting' = [waiting EXCEPT ![s] = FALSE]
  /\ channel' = [channel EXCEPT ![s] = NoMessage]
  /\ data' = [data EXCEPT ![s] =
                IF Received(s).kind = "error" THEN Bare("error")
                ELSE Ready(Received(s).snapshots, Received(s).result)]
  /\ UNCHANGED <<tx, abortFlag, aborting, evm, steps>>

WaitMissesDisconnect(s) == channel[s] # NoMessage /\ WaitOverwrites(s)

(* wait_for_snapshots: the receiver is taken, and what arrives decides the *)
(* session unless it has been aborted meanwhile.  The service calls it     *)
(* once, so that the receiver is always there to be taken.                 *)
WaitForSnapshots(s) ==
  /\ waiting[s]
  /\ evm[s] = "exited"
  /\ waiting' = [waiting EXCEPT ![s] = FALSE]
  /\ channel' = [channel EXCEPT ![s] = NoMessage]
  /\ data' = [data EXCEPT ![s] =
                CASE @.phase = "aborted"             -> @
                  [] @.phase # "aborted"
                     /\ Received(s).kind = "error"   -> Bare("error")
                  [] OTHER -> Ready(Received(s).snapshots, Received(s).result)]
  /\ UNCHANGED <<tx, abortFlag, aborting, evm, steps>>

(* step_into, step_over and continue_exec do nothing unless Ready.         *)
MoveTo(s, index) ==
  /\ data[s].phase = "ready"
  /\ data' = [data EXCEPT ![s].index = index]
  /\ UNCHANGED <<tx, waiting, channel, abortFlag, aborting, evm, steps>>

StepInto(s) == MoveTo(s, StepIntoIndex(data[s].snapshots, data[s].index))
StepOver(s) == MoveTo(s, StepOverIndex(data[s].snapshots, data[s].index))
Continue(s) == MoveTo(s, ContinueIndex(data[s].snapshots, data[s].index))

(* abort: first the flag, then, under the lock, the state.  An abort that  *)
(* overlaps another adds nothing to it.                                    *)
AbortSignal(s) ==
  /\ Exists(s)
  /\ abortFlag' = [abortFlag EXCEPT ![s] = TRUE]
  /\ aborting' = [aborting EXCEPT ![s] = TRUE]
  /\ UNCHANGED <<tx, data, waiting, channel, evm, steps>>

(* A mutant: the receiver is dropped with the rest of the session.         *)
AbortMarkTakesReceiver(s) ==
  /\ aborting[s]
  /\ data' = [data EXCEPT ![s] = Bare("aborted")]
  /\ aborting' = [aborting EXCEPT ![s] = FALSE]
  /\ waiting' = [waiting EXCEPT ![s] = FALSE]
  /\ UNCHANGED <<tx, channel, abortFlag, evm, steps>>

AbortMark(s) ==
  /\ aborting[s]
  /\ data' = [data EXCEPT ![s] = Bare("aborted")]
  /\ aborting' = [aborting EXCEPT ![s] = FALSE]
  /\ UNCHANGED <<tx, waiting, channel, abortFlag, evm, steps>>

(* The process ends; sessions live in memory only.                         *)
Restart ==
  /\ data' = [s \in Sessions |-> IF Exists(s) THEN Bare("gone") ELSE data[s]]
  /\ waiting' = [s \in Sessions |-> FALSE]
  /\ channel' = [s \in Sessions |-> NoMessage]
  /\ abortFlag' = [s \in Sessions |-> FALSE]
  /\ aborting' = [s \in Sessions |-> FALSE]
  /\ evm' = [s \in Sessions |-> "idle"]
  /\ steps' = [s \in Sessions |-> 0]
  /\ UNCHANGED tx

-----------------------------------------------------------------------------
EvmRuns(s) == EvmStep(s) \/ EvmHalt(s) \/ EvmComplete(s)

EvmBreaks(s) == ReplayFails(s) \/ ReplayPanics(s) \/ ReplayHangs(s)

Command(s) == StepInto(s) \/ StepOver(s) \/ Continue(s)

Next ==
  \/ \E s \in Sessions :
       \/ New(s)
       \/ \E file \in Recordings(tx[s]) : FromCache(s, file)
       \/ Spawn(s) \/ EvmRuns(s) \/ EvmBreaks(s)
       \/ WaitForSnapshots(s) \/ Command(s)
       \/ AbortSignal(s) \/ AbortMark(s)
  \/ Restart

(* Threads that can run do: the EVM thread, the task that starts and then  *)
(* awaits it, a handler inside abort.  No client is obliged to call.       *)
Fairness ==
  \A s \in Sessions :
    /\ WF_vars(Spawn(s))
    /\ WF_vars(EvmRuns(s))
    /\ WF_vars(WaitForSnapshots(s))
    /\ WF_vars(AbortMark(s))

SafeSpec == Init /\ [][Next]_vars
Spec == SafeSpec /\ Fairness

-----------------------------------------------------------------------------
(* Every variable has its type, and the cursor of a session never leaves   *)
(* the trace by more than the one position past its end (session.rs: the   *)
(* index is used to read snapshots[index]).                                *)
Records == [phase : Phases, snapshots : Traces, index : Nat, result : Results]
Messages == [kind : {"empty", "snapshots", "error"}, snapshots : Traces, result : Results]

TypeOK ==
  /\ tx \in [Sessions -> Txs]
  /\ data \in [Sessions -> Records]
  /\ waiting \in [Sessions -> BOOLEAN]
  /\ channel \in [Sessions -> Messages]
  /\ abortFlag \in [Sessions -> BOOLEAN]
  /\ aborting \in [Sessions -> BOOLEAN]
  /\ evm \in [Sessions -> {"idle", "running", "hung", "exited"}]
  /\ steps \in [Sessions -> Nat]
  /\ \A s \in Sessions :
       /\ data[s].index <= Len(data[s].snapshots)
       /\ steps[s] <= Len(FullTrace[tx[s]])

(* What a replay of s that stopped after steps[s] snapshots may report: a  *)
(* trace cut short carries no result, or it was cut by an abort; and a     *)
(* trace without any step always has a result, so that the answer          *)
(* "Execution produced no steps" is never given.                           *)
Genuine(s, snapshots, result) ==
  /\ snapshots = Recorded(s)
  /\ result = "none" => steps[s] > 0 /\ "replay" \in Faults
  /\ result # "none" =>
       IF steps[s] = Len(FullTrace[tx[s]])
       THEN result = Outcome[tx[s]]
       ELSE result = "success" /\ abortFlag[s]

(* A session that was replayed, and not loaded from the trace cache, shows *)
(* what its transaction did.  In particular a shortened trace that claims  *)
(* success is only ever seen while an abort of that session is under way   *)
(* (executor.rs sends it, wait_for_snapshots installs it).                 *)
ShowsGenuine(s) ==
  data[s].phase = "ready" /\ evm[s] = "exited" =>
    /\ Genuine(s, data[s].snapshots, data[s].result)
    /\ abortFlag[s] => aborting[s]

ReplayIsGenuine == \A s \in Sessions : ShowsGenuine(s)

(* Once a call of abort has returned the session is aborted and stays so,  *)
(* however late the EVM thread delivers (session.rs, abort and the Aborted *)
(* check of wait_for_snapshots).                                           *)
HoldsAbort(s) == abortFlag[s] /\ ~aborting[s] => data[s].phase = "aborted"

AbortHolds == \A s \in Sessions : HoldsAbort(s)

(* The parts that make the two invariants above inductive: who holds what  *)
(* in each stage of a replay.                                              *)
StageOf(s) ==
  /\ data[s].phase # "ready" => data[s] = Bare(data[s].phase)
  /\ abortFlag[s] => Exists(s)
  /\ aborting[s] => abortFlag[s]
  /\ data[s].phase = "aborted" => abortFlag[s]
  /\ data[s].phase \in {"absent", "gone"} => ~waiting[s] /\ evm[s] = "idle"
  /\ data[s].phase = "loading" => waiting[s]
  /\ waiting[s] => data[s].phase \in {"loading", "aborted"}
  /\ evm[s] = "idle" => steps[s] = 0
  /\ evm[s] \in {"running", "hung"} => waiting[s]
  /\ channel[s] # NoMessage => evm[s] = "exited" /\ waiting[s]
  /\ channel[s].kind = "empty" => channel[s] = NoMessage
  /\ channel[s].kind = "snapshots" =>
       Genuine(s, channel[s].snapshots, channel[s].result)

ReplayStages == \A s \in Sessions : StageOf(s)

SessionInv == TypeOK /\ ReplayStages /\ ReplayIsGenuine /\ AbortHolds

(* While a session is ready its trace and result are immutable and its     *)
(* cursor never goes back: stepping is navigation, and forwards only       *)
(* (step_into, step_over, continue_exec against a late delivery).          *)
ForwardOnly ==
  [][\A s \in Sessions :
       data[s].phase = "ready" /\ data'[s].phase = "ready" =>
         /\ data'[s].snapshots = data[s].snapshots
         /\ data'[s].result = data[s].result
         /\ data'[s].index >= data[s].index]_vars

(* A session does not stay in Loading: whatever the replay meets, short of *)
(* a request that is never answered, it ends in a trace or in an error     *)
(* (executor.rs: every early return sends an Error, a panic disconnects).  *)
LoadingResolves ==
  \A s \in Sessions : data[s].phase = "loading" ~> data[s].phase # "loading"

(* abort "stops the EVM (if still running)" (session.rs:201).              *)
AbortStopsEvm ==
  \A s \in Sessions :
    abortFlag[s] /\ evm[s] \in {"running", "hung"} ~> evm[s] \notin {"running", "hung"}

-----------------------------------------------------------------------------
(* What a client is told: current_state_locked.                            *)
StatusOf(d) ==
  IF d.phase = "ready" THEN StateAt(d.snapshots, d.index, d.result) ELSE d.phase

Lengths == UNION {0 .. Len(FullTrace[t]) : t \in Txs}

status   == [s \in Sessions |-> StatusOf(data[s])]
position == [s \in Sessions |-> data[s].index]
length   == [s \in Sessions |-> Len(data[s].snapshots)]
ending   == [s \in Sessions |-> StateAt(<<>>, 0, data[s].result)]

Lifecycle == INSTANCE SessionLifecycle

(* The threads, the channel and the flag together implement the session    *)
(* that the API promises.                                                  *)
ImplementsLifecycle == Lifecycle!Spec
=============================================================================
