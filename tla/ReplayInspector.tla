--------------------------- MODULE ReplayInspector ---------------------------
(***************************************************************************)
(* What the inspector (inspector.rs) records while revm runs a             *)
(* transaction.  revm keeps a stack of frames and calls the inspector back *)
(* at fixed points: call or create before a frame, step before every       *)
(* opcode, call_end or create_end after the frame, also when the frame     *)
(* never ran because the callee has no code or cannot be entered.  The     *)
(* inspector keeps a call stack of its own beside it, groups the storage   *)
(* writes it sees by the contract on top of that stack, and takes the      *)
(* depth of a snapshot from revm's journal.  One opcode, with the callback *)
(* before it and the callbacks that it causes, is one action; the callback *)
(* after a frame is another.                                               *)
(***************************************************************************)
EXTENDS Navigation, FiniteSets

CONSTANTS Contracts,  \* addresses
          Zero,       \* Address::ZERO
          MaxSteps,   \* bound on the opcodes of the transaction
          MaxDepth    \* bound on the nesting of its frames

ASSUME InspectorAssumption ==
  /\ Zero \notin Contracts
  /\ MaxSteps \in Nat /\ MaxDepth \in Nat

VARIABLES frames,           \* revm: the frames in execution
          fresh,            \* revm: a number for the next frame
          call_stack,       \* CallFrame entries of the inspector
          storage_changes,  \* which writes are shown under which contract
          snapshots,        \* what has been pushed
          abort_flag,
          phase             \* revm: "start", "step", "ended" or "over"
vars == <<frames, fresh, call_stack, storage_changes, snapshots, abort_flag, phase>>

Kinds == {"CALL", "DELEGATECALL", "CREATE"}

Last(seq) == seq[Len(seq)]
Pop(seq) == SubSeq(seq, 1, Len(seq) - 1)

Init ==
  /\ frames = <<>>
  /\ fresh = 0
  /\ call_stack = <<>>
  /\ storage_changes = {}
  /\ snapshots = <<>>
  /\ abort_flag = FALSE
  /\ phase = "start"

-----------------------------------------------------------------------------
(* The contract whose storage a frame of a kind works on: a CALL names it, *)
(* a DELEGATECALL keeps the caller's, and CREATE makes a new one.          *)
StorageOf(kind, callee) ==
  IF kind = "DELEGATECALL" THEN Last(frames).storage ELSE callee

(* Inspector::call and create: a CallFrame is pushed before revm enters    *)
(* the frame.  The address of a contract in creation is not known yet.  In *)
(* the mutant CallFrameOfCode a CallFrame names the code that runs and not *)
(* the contract it runs for.                                               *)
CallFrameOfCode(kind, callee) ==
  [depth |-> Len(frames), kind |-> kind,
   contract |-> IF kind = "CREATE" THEN Zero ELSE callee]

CallFrame(kind, callee) ==
  [depth |-> Len(frames), kind |-> kind,
   contract |-> IF kind = "CREATE" THEN Zero ELSE StorageOf(kind, callee)]

EnterFrame(kind, callee) ==
  /\ call_stack' = Append(call_stack, CallFrame(kind, callee))
  /\ \/ /\ Len(frames) < MaxDepth
        /\ frames' = Append(frames, [id |-> fresh, storage |-> StorageOf(kind, callee)])
        /\ fresh' = fresh + 1
        /\ phase' = "step"
     \/ /\ phase' = "ended"
        /\ UNCHANGED <<frames, fresh>>

Start ==
  /\ phase = "start"
  /\ \E kind \in {"CALL", "CREATE"}, callee \in Contracts : EnterFrame(kind, callee)
  /\ UNCHANGED <<storage_changes, snapshots, abort_flag>>

(* A mutant: the depth is that of the CallFrame, taken before the frame.   *)
CaptureCallDepth ==
  /\ phase = "step"
  /\ ~abort_flag
  /\ Len(snapshots) < MaxSteps
  /\ snapshots' = Append(snapshots,
       [call_depth |-> Last(call_stack).depth,
        frame |-> Last(frames).id,
        active |-> {frames[i].id : i \in 1 .. Len(frames)}])

(* Inspector::step with the flag down: the snapshot of the opcode about to *)
(* run.  Beside its depth it remembers which frame ran it and which frames *)
(* were waiting for that one.                                              *)
Capture ==
  /\ phase = "step"
  /\ ~abort_flag
  /\ Len(snapshots) < MaxSteps
  /\ snapshots' = Append(snapshots,
       [call_depth |-> Len(frames),
        frame |-> Last(frames).id,
        active |-> {frames[i].id : i \in 1 .. Len(frames)}])

(* With the flag up the frame is halted, and nothing is recorded.          *)
StepAborted ==
  /\ phase = "step"
  /\ abort_flag
  /\ frames' = Pop(frames)
  /\ phase' = "ended"
  /\ UNCHANGED <<fresh, call_stack, storage_changes, snapshots, abort_flag>>

StepPlain ==
  /\ Capture
  /\ UNCHANGED <<frames, fresh, call_stack, storage_changes, abort_flag, phase>>

(* SSTORE: before the opcode runs, and whether or not it then fails, the   *)
(* write is entered under the contract of the top CallFrame.               *)
RecordWrite ==
  storage_changes' = storage_changes \union
    {[group |-> Last(call_stack).contract, kind |-> Last(call_stack).kind,
      written |-> Last(frames).storage]}

StepStore ==
  /\ Capture
  /\ RecordWrite
  /\ UNCHANGED <<frames, fresh, call_stack, abort_flag, phase>>

(* Out of gas, say, or inside a static call: the frame fails.              *)
StepStoreFails ==
  /\ Capture
  /\ RecordWrite
  /\ frames' = Pop(frames)
  /\ phase' = "ended"
  /\ UNCHANGED <<fresh, call_stack, abort_flag>>

StepCall ==
  /\ Capture
  /\ \E kind \in Kinds, callee \in Contracts : EnterFrame(kind, callee)
  /\ UNCHANGED <<storage_changes, abort_flag>>

(* The frame stops, returns, reverts or fails.                             *)
StepLast ==
  /\ Capture
  /\ frames' = Pop(frames)
  /\ phase' = "ended"
  /\ UNCHANGED <<fresh, call_stack, storage_changes, abort_flag>>

(* A mutant: create_end is not implemented, so that it defaults to nothing. *)
EndCallOnly ==
  /\ phase = "ended"
  /\ call_stack' = IF Last(call_stack).kind = "CREATE" THEN call_stack ELSE Pop(call_stack)
  /\ phase' = IF frames = <<>> THEN "over" ELSE "step"
  /\ UNCHANGED <<frames, fresh, storage_changes, snapshots, abort_flag>>

(* Inspector::call_end and create_end; the caller, if any, goes on.        *)
EndFrame ==
  /\ phase = "ended"
  /\ call_stack' = Pop(call_stack)
  /\ phase' = IF frames = <<>> THEN "over" ELSE "step"
  /\ UNCHANGED <<frames, fresh, storage_changes, snapshots, abort_flag>>

(* DebugSession::abort, at any time.                                       *)
Abort ==
  /\ ~abort_flag
  /\ abort_flag' = TRUE
  /\ UNCHANGED <<frames, fresh, call_stack, storage_changes, snapshots, phase>>

Next ==
  \/ Start \/ StepAborted \/ StepPlain \/ StepStore \/ StepStoreFails \/ StepCall
  \/ StepLast \/ EndFrame \/ Abort

Spec == Init /\ [][Next]_vars

-----------------------------------------------------------------------------
(* Every variable has its type.  A snapshot is taken inside a frame, so    *)
(* that its depth is one at least, unlike the depth of a CallFrame.        *)
TypeOK ==
  /\ frames \in Seq([id : Nat, storage : Contracts])
  /\ fresh \in Nat
  /\ call_stack \in Seq([depth : Nat, kind : Kinds, contract : Contracts \union {Zero}])
  /\ storage_changes \subseteq
       [group : Contracts \union {Zero}, kind : Kinds, written : Contracts]
  /\ snapshots \in Seq([call_depth : Nat \ {0}, frame : Nat, active : SUBSET Nat])
  /\ abort_flag \in BOOLEAN
  /\ phase \in {"start", "step", "ended", "over"}

(* Whenever an opcode is about to run, the call stack that its snapshot    *)
(* shows mirrors the frames of the EVM: as many entries, each with its     *)
(* depth and, constructors aside, with the contract it works for.  This is *)
(* what a missed or doubled call_end would upset, for frames that never    *)
(* ran as for those that an abort or a failure unwinds.                    *)
CallStackMirrorsFrames ==
  phase = "step" =>
    /\ Len(call_stack) = Len(frames)
    /\ \A i \in 1 .. Len(frames) :
         /\ call_stack[i].depth = i - 1
         /\ call_stack[i].kind # "CREATE" => call_stack[i].contract = frames[i].storage

(* The trace that the session navigates.                                   *)
Depths == [i \in 1 .. Len(snapshots) |-> snapshots[i].call_depth]

(* step_over compares depths only, and yet it never stops in a frame that  *)
(* did not exist when the command was given: it goes to the next opcode of *)
(* the frame it starts in or of one that waits for it, whichever is first  *)
(* (session.rs:160, "step over inner CALLs").  A sibling call at the same  *)
(* depth cannot be mistaken for the frame, because the caller always runs  *)
(* an opcode between the two.                                              *)
StepOverFollowsFrames ==
  \A i \in 0 .. Len(snapshots) - 1 :
    LET j == StepOverIndex(Depths, i)
        Stops(k) == snapshots[k + 1].frame \in snapshots[i + 1].active
    IN  /\ \A k \in i + 1 .. j - 1 : ~Stops(k)
        /\ j < Len(snapshots) => Stops(j)

(* Every storage write is shown under the contract whose storage it        *)
(* changes, except those of constructors (inspector.rs, step and call).    *)
CallWritesGrouped ==
  \A w \in storage_changes : w.kind # "CREATE" => w.group = w.written

(* types.rs:30: "Storage changes grouped by contract address".             *)
StorageGroupedByContract ==
  \A w \in storage_changes : w.group = w.written
=============================================================================
