---------------------------- MODULE ReplayEffects ----------------------------
(***************************************************************************)
(* What the inspector shows of the effects of a transaction, beside what   *)
(* these effects come to.  revm keeps storage and logs in a journal, with  *)
(* a checkpoint for every frame, and undoes what a frame has done if it    *)
(* reverts or fails.  The inspector enters a storage write before the      *)
(* opcode runs and a log after it did, and never takes either back; and it *)
(* measures gas from the limit of the frame that was entered last.         *)
(*                                                                         *)
(* A write or a log is known by the number of its opcode.  A contract has  *)
(* one slot: keys do not interact.                                         *)
(***************************************************************************)
EXTENDS ReplayInspector

VARIABLES journal,       \* revm: the write each contract's slot holds, and the logs
          checkpoints,   \* revm: per frame, the opcode it began at and the journal then
          shown_storage, \* storage_changes: the write shown under each contract
          logs,
          gas_initial,   \* the frame whose gas limit it is
          gas_of,        \* per snapshot, the frame that its gas_used is relative to
          undone,        \* history: opcodes that were undone with their frame
          constructed    \* history: writes of constructors
effectVars == <<journal, checkpoints, shown_storage, logs, gas_initial, gas_of>>
historyVars == <<undone, constructed>>
allVars == <<vars, effectVars, historyVars>>

None == 0

EffectsInit ==
  /\ Init
  /\ journal = [storage |-> [c \in Contracts |-> None], logs |-> <<>>]
  /\ checkpoints = <<>>
  /\ shown_storage = [c \in Contracts \union {Zero} |-> None]
  /\ logs = <<>>
  /\ gas_initial = 0
  /\ gas_of = <<>>
  /\ undone = {}
  /\ constructed = {}

-----------------------------------------------------------------------------
(* The number of the opcode that runs, and of the one before it.           *)
Opcode == Len(snapshots) + 1
Before == Len(snapshots)

ShowGas == gas_of' = Append(gas_of, gas_initial)

(* A mutant: gas_initial is set when a call is made, not when its frame is *)
(* entered.                                                                *)
InitializeCall ==
  gas_initial' = fresh

(* initialize_interp, called back if the frame is entered.                 *)
InitializeInterp ==
  gas_initial' = IF frames' # frames THEN fresh ELSE gas_initial

(* A frame that is entered starts from a checkpoint.                       *)
Checkpoint(opcode) ==
  checkpoints' = IF frames' # frames
                 THEN Append(checkpoints, [opcode |-> opcode, journal |-> journal])
                 ELSE checkpoints

(* A frame ends: what it and its inner frames did stays, or it is undone.  *)
Commit ==
  /\ checkpoints' = Pop(checkpoints)
  /\ UNCHANGED <<journal, undone>>

Undo ==
  /\ checkpoints' = Pop(checkpoints)
  /\ journal' = Last(checkpoints).journal
  /\ undone' = undone \union (Last(checkpoints).opcode + 1 .. Opcode)

-----------------------------------------------------------------------------
EffectsStart ==
  /\ Start
  /\ InitializeInterp
  /\ Checkpoint(Before)
  /\ UNCHANGED <<journal, shown_storage, logs, gas_of, historyVars>>

(* halt(Stop): to revm the frame has ended well.                           *)
EffectsAborted ==
  /\ StepAborted
  /\ Commit
  /\ UNCHANGED <<shown_storage, logs, gas_initial, gas_of, constructed>>

EffectsPlain ==
  /\ StepPlain
  /\ ShowGas
  /\ UNCHANGED <<journal, checkpoints, shown_storage, logs, gas_initial, historyVars>>

(* A mutant: a write that is shown already is not shown again.             *)
ShowFirstWrite ==
  LET shown == shown_storage[Last(call_stack).contract] IN
  shown_storage' = [shown_storage EXCEPT ![Last(call_stack).contract] =
                      IF shown = None THEN Opcode ELSE shown]

ShowWrite ==
  shown_storage' = [shown_storage EXCEPT ![Last(call_stack).contract] = Opcode]

EffectsStore ==
  /\ StepStore
  /\ ShowGas
  /\ ShowWrite
  /\ journal' = [journal EXCEPT !.storage[Last(frames).storage] = Opcode]
  /\ constructed' = IF Last(call_stack).kind = "CREATE" THEN constructed \union {Opcode} ELSE constructed
  /\ UNCHANGED <<checkpoints, logs, gas_initial, undone>>

EffectsStoreFails ==
  /\ StepStoreFails
  /\ ShowGas
  /\ ShowWrite
  /\ Undo
  /\ UNCHANGED <<logs, gas_initial, constructed>>

(* A mutant: the logs of constructors are left out.                        *)
LogFullOfCalls ==
  logs' = IF Last(call_stack).kind = "CREATE" THEN logs ELSE Append(logs, Opcode)

(* log_full, called back after a LOG that has run.                         *)
LogFull == logs' = Append(logs, Opcode)

EffectsLog ==
  /\ StepPlain
  /\ ShowGas
  /\ LogFull
  /\ journal' = [journal EXCEPT !.logs = Append(@, Opcode)]
  /\ UNCHANGED <<checkpoints, shown_storage, gas_initial, historyVars>>

EffectsCall ==
  /\ StepCall
  /\ ShowGas
  /\ InitializeInterp
  /\ Checkpoint(Opcode)
  /\ UNCHANGED <<journal, shown_storage, logs, historyVars>>

(* Stop and return, or revert and failure.                                 *)
EffectsLast ==
  /\ StepLast
  /\ ShowGas
  /\ Commit \/ Undo
  /\ UNCHANGED <<shown_storage, logs, gas_initial, constructed>>

EffectsEnd   == EndFrame /\ UNCHANGED <<effectVars, historyVars>>
EffectsAbort == Abort /\ UNCHANGED <<effectVars, historyVars>>

EffectsNext ==
  \/ EffectsStart \/ EffectsAborted \/ EffectsPlain \/ EffectsStore \/ EffectsStoreFails
  \/ EffectsLog \/ EffectsCall \/ EffectsLast \/ EffectsEnd \/ EffectsAbort

EffectsSpec == EffectsInit /\ [][EffectsNext]_allVars

-----------------------------------------------------------------------------
Shown(seq) == {seq[i] : i \in 1 .. Len(seq)}
Ascending(seq) == \A i, j \in 1 .. Len(seq) : i < j => seq[i] < seq[j]

(* The logs shown are those of the receipt and logs of frames that were    *)
(* undone, each once and both in the order of their opcodes: a log is      *)
(* neither lost nor shown twice (inspector.rs:230), whatever is called,    *)
(* reverted, aborted.                                                      *)
LogsAreOfReceipt ==
  /\ Ascending(logs) /\ Ascending(journal.logs)
  /\ Shown(journal.logs) = Shown(logs) \ undone

(* The value shown under a contract is the one its storage holds, unless   *)
(* it was undone with its frame, or failed, and is shown all the same, or  *)
(* a constructor, which is shown under the zero address, wrote the last    *)
(* (inspector.rs:171).                                                     *)
ShownStorageIsLatest ==
  \A c \in Contracts :
    \/ shown_storage[c] = journal.storage[c]
    \/ shown_storage[c] \in undone
    \/ journal.storage[c] \in constructed

(* gas_used is measured from the limit of the snapshot's own frame, unless *)
(* the trace shows that an inner frame has run before: gas_initial is then *)
(* the inner limit (inspector.rs:147).                                     *)
GasUsedOfOwnFrame ==
  \A i \in 1 .. Len(snapshots) :
    (\A j \in 1 .. i - 1 : snapshots[j].frame <= snapshots[i].frame)
      => gas_of[i] = snapshots[i].frame
=============================================================================
