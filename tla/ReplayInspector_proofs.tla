------------------------ MODULE ReplayInspector_proofs ------------------------
(***************************************************************************)
(* The call stack of the inspector mirrors the frames of the EVM, and the  *)
(* writes of calls are grouped by the storage they change: for every set   *)
(* of contracts and without regard to the bounds of the model.  So, beside *)
(* the effects of the transaction, is the storage that is shown.           *)
(***************************************************************************)
EXTENDS ReplayEffects, Navigation_proofs, SequenceTheorems, TLAPS

Frames == [id : Nat, storage : Contracts]
CallFrames == [depth : Nat, kind : Kinds, contract : Contracts \union {Zero}]

Mirrors(i) ==
  /\ call_stack[i].depth = i - 1
  /\ call_stack[i].kind # "CREATE" => call_stack[i].contract = frames[i].storage

(* Between a frame and the callback after it the call stack has one entry  *)
(* more than the EVM has frames; the entries below it mirror them always.  *)
MirrorInv ==
  /\ phase \in {"step", "ended"} =>
       \A i \in 1 .. Len(frames) : Mirrors(i)
  /\ phase = "start" => frames = <<>> /\ call_stack = <<>>
  /\ phase = "step"  => Len(frames) > 0 /\ Len(call_stack) = Len(frames)
  /\ phase = "ended" => Len(call_stack) = Len(frames) + 1

InspectorInv == TypeOK /\ MirrorInv /\ CallWritesGrouped

-----------------------------------------------------------------------------
LEMMA PopProperties ==
  ASSUME NEW S, NEW seq \in Seq(S), Len(seq) > 0
  PROVE  /\ Pop(seq) \in Seq(S)
         /\ Len(Pop(seq)) = Len(seq) - 1
         /\ \A i \in 1 .. Len(seq) - 1 : Pop(seq)[i] = seq[i]
<1>1. PICK m \in Nat : m = Len(seq) - 1
  OBVIOUS
<1>2. \A i \in 1 .. m : seq[i] \in S
  BY <1>1
<1>3. /\ SubSeq(seq, 1, m) \in Seq(S)
      /\ Len(SubSeq(seq, 1, m)) = m
      /\ \A i \in 1 .. m : SubSeq(seq, 1, m)[i] = seq[i]
  BY <1>1, <1>2
<1> QED
  BY <1>1, <1>3 DEF Pop

LEMMA LastIsElement ==
  ASSUME NEW S, NEW seq \in Seq(S), Len(seq) > 0
  PROVE  Last(seq) \in S /\ Len(seq) \in 1 .. Len(seq)
BY DEF Last

LEMMA InspectorInit == ASSUME Init PROVE InspectorInv
<1>1. \A S : <<>> \in Seq(S)
  OBVIOUS
<1>2. TypeOK
  BY <1>1, Zenon DEF Init, TypeOK
<1>3. MirrorInv /\ CallWritesGrouped
  BY DEF Init, MirrorInv, CallWritesGrouped
<1> QED
  BY <1>2, <1>3 DEF InspectorInv

(* A call or a creation leaves the call stack in step with the frames,     *)
(* whether revm enters the new frame or refuses it.                        *)
LEMMA EnteringMirrors ==
  ASSUME TypeOK, NEW kind \in Kinds, NEW callee \in Contracts, EnterFrame(kind, callee),
         kind = "DELEGATECALL" => Len(frames) > 0,
         Len(call_stack) = Len(frames),
         \A i \in 1 .. Len(frames) : Mirrors(i)
  PROVE  /\ frames' \in Seq(Frames) /\ call_stack' \in Seq(CallFrames)
         /\ fresh' \in Nat /\ phase' \in {"step", "ended"}
         /\ MirrorInv'
<1> DEFINE storage == StorageOf(kind, callee)
           entry == CallFrame(kind, callee)
           frame == [id |-> fresh, storage |-> storage]
<1>0. PICK n \in Nat : n = Len(frames)
  BY DEF TypeOK
<1>1. /\ frames \in Seq(Frames) /\ call_stack \in Seq(CallFrames)
      /\ fresh \in Nat /\ Len(frames) = n /\ Len(call_stack) = n
  BY <1>0 DEF TypeOK, Frames, CallFrames
<1>2. storage \in Contracts
  <2>1. Len(frames) > 0 => Last(frames) \in Frames
    BY <1>1, LastIsElement
  <2>2. Len(frames) > 0 => Last(frames).storage \in Contracts
    BY <2>1 DEF Frames
  <2> QED
    BY <2>2 DEF StorageOf
<1>3. /\ entry \in CallFrames /\ entry.depth = n
      /\ entry.kind # "CREATE" => entry.contract = storage
  BY <1>1, <1>2 DEF CallFrame, CallFrames
<1>4. frame \in Frames /\ frame.storage = storage
  BY <1>1, <1>2 DEF Frames
<1> HIDE DEF storage, entry, frame
<1>5. call_stack' = Append(call_stack, entry)
  BY DEF EnterFrame, entry
<1>6. /\ call_stack' \in Seq(CallFrames) /\ Len(call_stack') = n + 1
      /\ call_stack'[n + 1] = entry
      /\ \A i \in 1 .. n : call_stack'[i] = call_stack[i]
  BY <1>1, <1>3, <1>5
<1>7. CASE frames' = Append(frames, frame) /\ fresh' = fresh + 1 /\ phase' = "step"
  <2>1. /\ frames' \in Seq(Frames) /\ Len(frames') = n + 1
        /\ frames'[n + 1] = frame
        /\ \A i \in 1 .. n : frames'[i] = frames[i]
    BY <1>1, <1>4, <1>7
  <2>2. \A i \in 1 .. n + 1 : Mirrors(i)'
    <3>1. \A i \in 1 .. n : Mirrors(i)'
      BY <1>1, <1>6, <2>1 DEF Mirrors
    <3>2. Mirrors(n + 1)'
      BY <1>1, <1>3, <1>4, <1>6, <2>1 DEF Mirrors
    <3> QED
      BY <1>1, <3>1, <3>2
  <2> QED
    BY <1>1, <1>6, <1>7, <2>1, <2>2 DEF MirrorInv
<1>8. CASE frames' = frames /\ fresh' = fresh /\ phase' = "ended"
  <2>1. \A i \in 1 .. n : Mirrors(i)'
    BY <1>1, <1>6, <1>8 DEF Mirrors
  <2> QED
    BY <1>1, <1>6, <1>8, <2>1 DEF MirrorInv
<1> QED
  BY <1>7, <1>8 DEF EnterFrame, frame, storage

LEMMA CaptureType ==
  ASSUME TypeOK, Len(frames) > 0, Capture
  PROVE  snapshots' \in Seq([call_depth : Nat \ {0}, frame : Nat, active : SUBSET Nat])
<1>1. frames \in Seq(Frames) /\ Len(frames) \in Nat
  BY DEF TypeOK, Frames
<1>2. /\ Last(frames).id \in Nat
      /\ \A i \in 1 .. Len(frames) : frames[i].id \in Nat
  <2>1. /\ Last(frames) \in Frames
        /\ \A i \in 1 .. Len(frames) : frames[i] \in Frames
    BY <1>1, LastIsElement
  <2> QED
    BY <2>1 DEF Frames
<1>3. {frames[i].id : i \in 1 .. Len(frames)} \in SUBSET Nat
  BY <1>2
<1> QED
  BY <1>1, <1>2, <1>3 DEF TypeOK, Capture

LEMMA InspectorNext == ASSUME InspectorInv, [Next]_vars PROVE InspectorInv'
<1> DEFINE Shots == Seq([call_depth : Nat \ {0}, frame : Nat, active : SUBSET Nat])
<1>1. /\ TypeOK /\ MirrorInv /\ CallWritesGrouped
      /\ frames \in Seq(Frames) /\ call_stack \in Seq(CallFrames)
      /\ Len(frames) \in Nat /\ Len(call_stack) \in Nat
      /\ fresh \in Nat /\ snapshots \in Shots
      /\ storage_changes \subseteq
           [group : Contracts \union {Zero}, kind : Kinds, written : Contracts]
  BY DEF InspectorInv, TypeOK, Frames, CallFrames
<1> HIDE DEF Shots
<1>2. ASSUME frames' \in Seq(Frames), call_stack' \in Seq(CallFrames), fresh' \in Nat,
             snapshots' \in Shots, abort_flag' \in BOOLEAN, MirrorInv',
             phase' \in {"start", "step", "ended", "over"},
             storage_changes' = storage_changes
      PROVE  InspectorInv'
  BY <1>1, <1>2 DEF InspectorInv, TypeOK, CallWritesGrouped, Shots, Frames, CallFrames
<1>3. CASE Start
  <2>1. PICK kind \in {"CALL", "CREATE"}, callee \in Contracts : EnterFrame(kind, callee)
    BY <1>3 DEF Start
  <2>2. /\ frames = <<>> /\ call_stack = <<>>
        /\ storage_changes' = storage_changes /\ snapshots' = snapshots
        /\ abort_flag' = abort_flag
    BY <1>1, <1>3 DEF Start, MirrorInv
  <2>3. /\ frames' \in Seq(Frames) /\ call_stack' \in Seq(CallFrames)
        /\ fresh' \in Nat /\ phase' \in {"step", "ended"}
        /\ MirrorInv'
    BY <1>1, <2>1, <2>2, EnteringMirrors DEF Kinds
  <2> QED
    BY <1>1, <1>2, <2>2, <2>3 DEF TypeOK
<1>4. ASSUME phase = "step"
      PROVE  /\ Len(frames) > 0 /\ Len(call_stack) = Len(frames)
             /\ \A i \in 1 .. Len(frames) : Mirrors(i)
  BY <1>1, <1>4 DEF MirrorInv
<1>5. ASSUME Capture
      PROVE  phase = "step" /\ snapshots' \in Shots
  BY <1>1, <1>4, <1>5, CaptureType DEF Capture, Shots
<1>6. ASSUME phase = "step", frames' = Pop(frames), phase' = "ended",
             call_stack' = call_stack
      PROVE  frames' \in Seq(Frames) /\ MirrorInv'
  <2>1. /\ Pop(frames) \in Seq(Frames) /\ Len(Pop(frames)) = Len(frames) - 1
        /\ \A i \in 1 .. Len(frames) - 1 : Pop(frames)[i] = frames[i]
    BY <1>1, <1>4, <1>6, PopProperties
  <2>2. \A i \in 1 .. Len(frames) - 1 : Mirrors(i)'
    BY <1>1, <1>4, <1>6, <2>1 DEF Mirrors
  <2> QED
    BY <1>1, <1>4, <1>6, <2>1, <2>2 DEF MirrorInv
<1>7. CASE StepAborted
  <2>1. /\ phase = "step" /\ frames' = Pop(frames) /\ phase' = "ended"
        /\ UNCHANGED <<fresh, call_stack, storage_changes, snapshots, abort_flag>>
    BY <1>7 DEF StepAborted
  <2> QED
    BY <1>1, <1>2, <1>6, <2>1 DEF TypeOK
<1>8. CASE StepLast
  <2>1. /\ Capture /\ frames' = Pop(frames) /\ phase' = "ended"
        /\ UNCHANGED <<fresh, call_stack, storage_changes, abort_flag>>
    BY <1>8 DEF StepLast
  <2> QED
    BY <1>1, <1>2, <1>5, <1>6, <2>1 DEF TypeOK
<1>9. CASE StepPlain
  <2>1. Capture /\ UNCHANGED <<frames, fresh, call_stack, storage_changes, abort_flag, phase>>
    BY <1>9 DEF StepPlain
  <2>2. MirrorInv'
    BY <1>1, <2>1 DEF MirrorInv, Mirrors
  <2> QED
    BY <1>1, <1>2, <1>5, <2>1, <2>2 DEF TypeOK
<1>10. CASE StepStore \/ StepStoreFails
  <2> DEFINE write == [group |-> Last(call_stack).contract, kind |-> Last(call_stack).kind,
                       written |-> Last(frames).storage]
  <2>1. /\ Capture /\ storage_changes' = storage_changes \union {write}
        /\ UNCHANGED <<fresh, call_stack, abort_flag>>
        /\ \/ UNCHANGED <<frames, phase>>
           \/ frames' = Pop(frames) /\ phase' = "ended"
    BY <1>10 DEF StepStore, StepStoreFails, RecordWrite
  <2>2. /\ phase = "step" /\ Len(frames) > 0 /\ Len(call_stack) = Len(frames)
        /\ Mirrors(Len(frames))
    BY <1>1, <1>4, <1>5, <2>1
  <2>3. write \in [group : Contracts \union {Zero}, kind : Kinds, written : Contracts]
    <3>1. Last(frames) \in Frames /\ Last(call_stack) \in CallFrames
      BY <1>1, <2>2, LastIsElement
    <3> QED
      BY <3>1 DEF Frames, CallFrames
  <2>4. write.kind # "CREATE" => write.group = write.written
    BY <2>2 DEF Mirrors, Last
  <2> HIDE DEF write
  <2>5. MirrorInv' /\ frames' \in Seq(Frames) /\ phase' \in {"step", "ended"}
    <3>1. CASE UNCHANGED <<frames, phase>>
      BY <1>1, <2>1, <2>2, <3>1 DEF MirrorInv, Mirrors
    <3>2. CASE frames' = Pop(frames) /\ phase' = "ended"
      BY <1>6, <2>1, <2>2, <3>2
    <3> QED
      BY <2>1, <3>1, <3>2
  <2>6. CallWritesGrouped'
    BY <1>1, <2>1, <2>4 DEF CallWritesGrouped
  <2>7. TypeOK'
    BY <1>1, <1>5, <2>1, <2>3, <2>5 DEF TypeOK, Shots, Frames
  <2> QED
    BY <2>5, <2>6, <2>7 DEF InspectorInv
<1>11. CASE StepCall
  <2>1. /\ Capture /\ storage_changes' = storage_changes /\ abort_flag' = abort_flag
        /\ \E kind \in Kinds, callee \in Contracts : EnterFrame(kind, callee)
    BY <1>11 DEF StepCall
  <2>2. PICK kind \in Kinds, callee \in Contracts : EnterFrame(kind, callee)
    BY <2>1
  <2>3. /\ frames' \in Seq(Frames) /\ call_stack' \in Seq(CallFrames)
        /\ fresh' \in Nat /\ phase' \in {"step", "ended"}
        /\ MirrorInv'
    BY <1>1, <1>4, <1>5, <2>1, <2>2, EnteringMirrors
  <2> QED
    BY <1>1, <1>2, <1>5, <2>1, <2>3 DEF TypeOK
<1>12. CASE EndFrame
  <2>1. /\ phase = "ended" /\ call_stack' = Pop(call_stack)
        /\ phase' = IF frames = <<>> THEN "over" ELSE "step"
        /\ UNCHANGED <<frames, fresh, storage_changes, snapshots, abort_flag>>
    BY <1>12 DEF EndFrame
  <2>2. /\ Len(call_stack) = Len(frames) + 1
        /\ \A i \in 1 .. Len(frames) : Mirrors(i)
    BY <1>1, <2>1 DEF MirrorInv
  <2>3. /\ call_stack' \in Seq(CallFrames) /\ Len(call_stack') = Len(frames)
        /\ \A i \in 1 .. Len(frames) : call_stack'[i] = call_stack[i]
    BY <1>1, <2>1, <2>2, PopProperties
  <2>4. \A i \in 1 .. Len(frames') : Mirrors(i)'
    BY <2>1, <2>2, <2>3 DEF Mirrors
  <2>5. frames # <<>> => Len(frames) > 0
    BY <1>1
  <2>6. MirrorInv'
    BY <1>1, <2>1, <2>3, <2>4, <2>5 DEF MirrorInv
  <2> QED
    BY <1>1, <1>2, <2>1, <2>3, <2>6 DEF TypeOK
<1>13. CASE Abort
  <2>1. MirrorInv'
    BY <1>1, <1>13 DEF Abort, MirrorInv, Mirrors
  <2> QED
    BY <1>1, <1>2, <1>13, <2>1 DEF Abort, TypeOK
<1>14. CASE UNCHANGED vars
  <2>1. MirrorInv'
    BY <1>1, <1>14 DEF vars, MirrorInv, Mirrors
  <2> QED
    BY <1>1, <1>2, <1>14, <2>1 DEF vars, TypeOK
<1> QED
  BY <1>3, <1>7, <1>8, <1>9, <1>10, <1>11, <1>12, <1>13, <1>14 DEF Next

(* What the inspector keeps beside the EVM has its type, mirrors the EVM's *)
(* frames and groups the writes of calls, whatever the EVM calls, creates, *)
(* refuses, reverts or is told to abort (inspector.rs).                    *)
THEOREM InspectorInvariance == Spec => []InspectorInv
<1>1. Init => InspectorInv
  BY InspectorInit
<1>2. InspectorInv /\ [Next]_vars => InspectorInv'
  BY InspectorNext
<1> QED
  BY <1>1, <1>2, PTL DEF Spec

(* Type correctness, and a depth of one at least in every snapshot.        *)
THEOREM TypeCorrect == Spec => []TypeOK
<1>1. InspectorInv => TypeOK
  BY DEF InspectorInv
<1> QED
  BY <1>1, InspectorInvariance, PTL

(* Every snapshot shows a call stack that mirrors the frames of the EVM.   *)
THEOREM CallStackIsRight == Spec => []CallStackMirrorsFrames
<1>1. InspectorInv => CallStackMirrorsFrames
  BY DEF InspectorInv, MirrorInv, Mirrors, CallStackMirrorsFrames
<1> QED
  BY <1>1, InspectorInvariance, PTL

(* Every write of a call is shown under the contract it writes to.         *)
THEOREM CallWritesAreGrouped == Spec => []CallWritesGrouped
<1>1. InspectorInv => CallWritesGrouped
  BY DEF InspectorInv
<1> QED
  BY <1>1, InspectorInvariance, PTL

(* What the misgrouping of constructors amounts to: their writes, and only *)
(* those, are shown under the zero address, so that every group but that   *)
(* one holds writes to the contract that it names (inspector.rs:213).      *)
ConstructorsUnderZero ==
  \A w \in storage_changes :
    /\ w.kind = "CREATE" <=> w.group = Zero
    /\ w.group # w.written => w.group = Zero

(* The entries and the writes of constructors have no address.             *)
ZeroInv ==
  /\ \A i \in 1 .. Len(call_stack) :
       call_stack[i].kind = "CREATE" => call_stack[i].contract = Zero
  /\ \A w \in storage_changes : w.kind = "CREATE" => w.group = Zero

LEMMA ZeroNext ==
  ASSUME InspectorInv, ZeroInv, [Next]_vars
  PROVE  ZeroInv'
<1>1. /\ TypeOK /\ MirrorInv /\ call_stack \in Seq(CallFrames) /\ Len(call_stack) \in Nat
  BY DEF InspectorInv, TypeOK, CallFrames
<1>2. ASSUME call_stack' = call_stack, storage_changes' = storage_changes
      PROVE  ZeroInv'
  BY <1>2 DEF ZeroInv
<1>3. ASSUME NEW kind \in Kinds, NEW callee \in Contracts, EnterFrame(kind, callee),
             kind = "DELEGATECALL" => Len(frames) > 0,
             storage_changes' = storage_changes
      PROVE  ZeroInv'
  <2> DEFINE entry == CallFrame(kind, callee)
  <2>1. entry.kind = "CREATE" => entry.contract = Zero
    BY DEF CallFrame
  <2>2. call_stack' = Append(call_stack, entry)
    BY <1>3 DEF EnterFrame
  <2>3. entry \in CallFrames
    <3>1. Len(frames) > 0 => Last(frames) \in Frames
      BY <1>1, LastIsElement DEF TypeOK, Frames
    <3>2. Len(frames) \in Nat /\ StorageOf(kind, callee) \in Contracts
      BY <1>1, <1>3, <3>1 DEF StorageOf, Frames, TypeOK
    <3> QED
      BY <3>2 DEF CallFrame, CallFrames
  <2> HIDE DEF entry
  <2>4. /\ Len(call_stack') = Len(call_stack) + 1
        /\ call_stack'[Len(call_stack) + 1] = entry
        /\ \A i \in 1 .. Len(call_stack) : call_stack'[i] = call_stack[i]
    BY <1>1, <2>2, <2>3
  <2>5. ASSUME NEW i \in 1 .. Len(call_stack) + 1, call_stack'[i].kind = "CREATE"
        PROVE  call_stack'[i].contract = Zero
    <3>1. CASE i = Len(call_stack) + 1
      BY <2>1, <2>4, <2>5, <3>1
    <3>2. CASE i \in 1 .. Len(call_stack)
      BY <2>4, <2>5, <3>2 DEF ZeroInv
    <3> QED
      BY <1>1, <3>1, <3>2
  <2> QED
    BY <1>3, <2>4, <2>5 DEF ZeroInv
<1>4. CASE Start
  BY <1>3, <1>4 DEF Start, Kinds
<1>5. CASE StepStore \/ StepStoreFails
  <2>1. RecordWrite /\ call_stack' = call_stack /\ Len(call_stack) > 0
    BY <1>1, <1>5 DEF StepStore, StepStoreFails, Capture, MirrorInv
  <2>2. Last(call_stack).kind = "CREATE" => Last(call_stack).contract = Zero
    BY <1>1, <2>1 DEF ZeroInv, Last
  <2> QED
    BY <2>1, <2>2 DEF RecordWrite, ZeroInv
<1>6. CASE StepCall
  BY <1>1, <1>3, <1>6 DEF StepCall, Capture, MirrorInv
<1>7. CASE EndFrame
  <2>1. Len(call_stack) > 0 /\ call_stack' = Pop(call_stack)
        /\ storage_changes' = storage_changes
    BY <1>1, <1>7 DEF EndFrame, MirrorInv, TypeOK
  <2>2. /\ Len(call_stack') = Len(call_stack) - 1
        /\ \A i \in 1 .. Len(call_stack) - 1 : call_stack'[i] = call_stack[i]
    BY <1>1, <2>1, PopProperties
  <2> QED
    BY <1>1, <2>1, <2>2 DEF ZeroInv
<1>8. CASE StepAborted \/ StepPlain \/ StepLast \/ Abort \/ UNCHANGED vars
  BY <1>2, <1>8 DEF StepAborted, StepPlain, StepLast, Abort, vars
<1> QED
  BY <1>4, <1>5, <1>6, <1>7, <1>8 DEF Next

THEOREM OnlyConstructorsUnderZero == Spec => []ConstructorsUnderZero
<1>1. Init => ZeroInv
  BY DEF Init, ZeroInv
<1>2. InspectorInv /\ ZeroInv /\ [Next]_vars => ZeroInv'
  BY ZeroNext
<1>3. InspectorInv /\ ZeroInv => ConstructorsUnderZero
  BY InspectorAssumption
  DEF InspectorInv, TypeOK, CallWritesGrouped, ZeroInv, ConstructorsUnderZero, InspectorAssumption
<1> QED
  BY <1>1, <1>2, <1>3, InspectorInvariance, PTL DEF Spec

-----------------------------------------------------------------------------
(* Frames and the snapshots that were taken in them.  While no snapshot    *)
(* after the i-th is as shallow as that one, the frames up to its depth    *)
(* are the ones that were active in it, and no frame above them is.        *)
Shots == [call_depth : Nat \ {0}, frame : Nat, active : SUBSET Nat]

DeeperThan(s, i, k) == \A l \in i + 1 .. k : s[l].call_depth > s[i].call_depth

ActiveBelow(f, s) ==
  \A i \in 1 .. Len(s) : DeeperThan(s, i, Len(s)) =>
    \A m \in 1 .. Len(f) : f[m].id \in s[i].active <=> m <= s[i].call_depth

ReturnsFirst(s) ==
  \A k \in 1 .. Len(s) : \A i \in 1 .. k - 1 : DeeperThan(s, i, k - 1) =>
    (s[k].frame \in s[i].active <=> s[k].call_depth <= s[i].call_depth)

FrameOK(f, s, n) ==
  /\ f \in Seq(Frames) /\ s \in Seq(Shots) /\ n \in Nat
  /\ \A m \in 1 .. Len(f) : f[m].id < n
  /\ \A i \in 1 .. Len(s) : \A x \in s[i].active : x < n
  /\ ActiveBelow(f, s)
  /\ ReturnsFirst(s)

FrameInv ==
  /\ FrameOK(frames, snapshots, fresh)
  /\ phase = "start" => snapshots = <<>>

LEMMA FramesPopped ==
  ASSUME NEW f, NEW s, NEW n, FrameOK(f, s, n), Len(f) > 0
  PROVE  FrameOK(Pop(f), s, n)
<1>1. /\ f \in Seq(Frames) /\ Pop(f) \in Seq(Frames) /\ Len(Pop(f)) = Len(f) - 1
      /\ \A m \in 1 .. Len(f) - 1 : Pop(f)[m] = f[m]
  BY PopProperties DEF FrameOK
<1>2. \A m \in 1 .. Len(Pop(f)) : m \in 1 .. Len(f) /\ Pop(f)[m] = f[m]
  BY <1>1
<1>3. ActiveBelow(Pop(f), s)
  BY <1>2 DEF FrameOK, ActiveBelow
<1> QED
  BY <1>1, <1>2, <1>3 DEF FrameOK

(* A new frame, entered at the depth of the last snapshot or deeper.       *)
LEMMA FramePushed ==
  ASSUME NEW f, NEW s, NEW n, FrameOK(f, s, n), NEW c \in Contracts,
         \A i \in 1 .. Len(s) : DeeperThan(s, i, Len(s)) => s[i].call_depth <= Len(f)
  PROVE  FrameOK(Append(f, [id |-> n, storage |-> c]), s, n + 1)
<1> DEFINE g == Append(f, [id |-> n, storage |-> c])
<1>0. PICK b \in Nat : b = Len(f)
  BY DEF FrameOK
<1>1. /\ f \in Seq(Frames) /\ s \in Seq(Shots) /\ n \in Nat /\ Len(s) \in Nat
      /\ \A m \in 1 .. b : f[m].id < n /\ f[m].id \in Nat
      /\ \A i \in 1 .. Len(s) : s[i] \in Shots
  <2>1. f \in Seq(Frames) /\ s \in Seq(Shots) /\ n \in Nat
    BY DEF FrameOK
  <2>2. \A m \in 1 .. b : f[m].id < n
    BY <1>0 DEF FrameOK
  <2>3. \A m \in 1 .. b : f[m] \in Frames
    BY <1>0, <2>1
  <2>4. \A m \in 1 .. b : f[m].id \in Nat
    BY <2>3 DEF Frames
  <2>5. \A i \in 1 .. Len(s) : s[i] \in Shots
    BY <2>1
  <2> QED
    BY <1>0, <2>1, <2>2, <2>4, <2>5
<1>2. \A i \in 1 .. Len(s) : s[i].call_depth \in Nat /\ s[i].active \subseteq Nat
  BY <1>1 DEF Shots
<1>3. [id |-> n, storage |-> c] \in Frames
  BY <1>1 DEF Frames
<1>4. /\ g \in Seq(Frames) /\ Len(g) = b + 1 /\ g[b + 1].id = n
      /\ \A m \in 1 .. b : g[m] = f[m]
  BY <1>0, <1>1, <1>3
<1> HIDE DEF g
<1>5. \A m \in 1 .. Len(g) : g[m].id < n + 1
  <2> SUFFICES ASSUME NEW m \in 1 .. Len(g) PROVE g[m].id < n + 1
    OBVIOUS
  <2>1. CASE m = b + 1
    BY <1>1, <1>4, <2>1
  <2>2. CASE m \in 1 .. b
    BY <1>1, <1>4, <2>2
  <2> QED
    BY <1>0, <1>4, <2>1, <2>2
<1>6. \A i \in 1 .. Len(s) : \A x \in s[i].active : x < n + 1
  BY <1>1, <1>2 DEF FrameOK
<1>7. ActiveBelow(g, s)
  <2> SUFFICES ASSUME NEW i \in 1 .. Len(s), DeeperThan(s, i, Len(s)), NEW m \in 1 .. Len(g)
               PROVE  g[m].id \in s[i].active <=> m <= s[i].call_depth
    BY DEF ActiveBelow
  <2>1. s[i].call_depth <= b
    BY <1>0
  <2>2. CASE m = b + 1
    <3>1. n \notin s[i].active
      BY <1>1 DEF FrameOK
    <3> QED
      BY <1>0, <1>2, <1>4, <2>1, <2>2, <3>1
  <2>3. CASE m \in 1 .. b
    BY <1>0, <1>4, <2>3 DEF FrameOK, ActiveBelow
  <2> QED
    BY <1>0, <1>4, <2>2, <2>3
<1>8. FrameOK(g, s, n + 1)
  BY <1>1, <1>4, <1>5, <1>6, <1>7 DEF FrameOK
<1> QED
  BY <1>8 DEF g

(* A snapshot of the frames.                                               *)
LEMMA FramesCaptured ==
  ASSUME NEW f, NEW s, NEW n, FrameOK(f, s, n), Len(f) > 0, NEW t,
         t = Append(s, [call_depth |-> Len(f), frame |-> Last(f).id,
                        active |-> {f[m].id : m \in 1 .. Len(f)}])
  PROVE  /\ FrameOK(f, t, n)
         /\ \A i \in 1 .. Len(t) : DeeperThan(t, i, Len(t)) => t[i].call_depth <= Len(f)
<1> DEFINE new == [call_depth |-> Len(f), frame |-> Last(f).id,
                   active |-> {f[m].id : m \in 1 .. Len(f)}]
<1>0. PICK a \in Nat, b \in Nat : a = Len(s) /\ b = Len(f)
  BY DEF FrameOK
<1>1. /\ f \in Seq(Frames) /\ s \in Seq(Shots) /\ n \in Nat
      /\ \A m \in 1 .. b : f[m].id < n /\ f[m].id \in Nat
      /\ \A i \in 1 .. a : s[i] \in Shots
  <2>1. f \in Seq(Frames) /\ s \in Seq(Shots) /\ n \in Nat
    BY DEF FrameOK
  <2>2. \A m \in 1 .. b : f[m].id < n
    BY <1>0 DEF FrameOK
  <2>3. \A m \in 1 .. b : f[m] \in Frames
    BY <1>0, <2>1
  <2>4. \A m \in 1 .. b : f[m].id \in Nat
    BY <2>3 DEF Frames
  <2>5. \A i \in 1 .. Len(s) : s[i] \in Shots
    BY <2>1
  <2> QED
    BY <1>0, <2>1, <2>2, <2>4, <2>5
<1>2. /\ new.call_depth = b /\ b \in 1 .. b /\ new.frame = f[b].id
      /\ new.active = {f[m].id : m \in 1 .. b} /\ new \in Shots
  BY <1>0, <1>1 DEF Last, Shots
<1> HIDE DEF new
<1>3. t = Append(s, new)
  BY DEF new
<1>4. /\ t \in Seq(Shots) /\ Len(t) = a + 1 /\ t[a + 1] = new
      /\ \A i \in 1 .. a : t[i] = s[i]
  BY <1>0, <1>1, <1>2, <1>3
<1>5. \A i \in 1 .. a : s[i].call_depth \in Nat
  BY <1>1 DEF Shots
<1>6. ASSUME NEW i \in 1 .. a, NEW k \in i .. a, DeeperThan(t, i, k)
      PROVE  DeeperThan(s, i, k)
  BY <1>4, <1>6 DEF DeeperThan
<1>7. \A i \in 1 .. Len(t) : \A x \in t[i].active : x < n
  <2> SUFFICES ASSUME NEW i \in 1 .. a + 1 PROVE \A x \in t[i].active : x < n
    BY <1>4
  <2>1. CASE i = a + 1
    BY <1>1, <1>2, <1>4, <2>1
  <2>2. CASE i \in 1 .. a
    BY <1>0, <1>4, <2>2 DEF FrameOK
  <2> QED
    BY <1>0, <2>1, <2>2
(* Those that were deeper until now still are, unless the new one is not.  *)
<1>8. ASSUME NEW i \in 1 .. a, DeeperThan(t, i, a + 1)
      PROVE  b > s[i].call_depth /\ DeeperThan(s, i, a)
  <2>1. t[a + 1].call_depth > t[i].call_depth /\ DeeperThan(t, i, a)
    BY <1>0, <1>8 DEF DeeperThan
  <2>2. a \in i .. a
    BY <1>0
  <2>3. DeeperThan(s, i, a)
    BY <1>6, <2>1, <2>2
  <2> QED
    BY <1>0, <1>2, <1>4, <2>1, <2>3
<1>9. ActiveBelow(f, t)
  <2> SUFFICES ASSUME NEW i \in 1 .. a + 1, DeeperThan(t, i, a + 1), NEW m \in 1 .. b
               PROVE  f[m].id \in t[i].active <=> m <= t[i].call_depth
    BY <1>0, <1>4 DEF ActiveBelow
  <2>1. CASE i = a + 1
    BY <1>2, <1>4, <2>1
  <2>2. CASE i \in 1 .. a
    BY <1>0, <1>4, <1>8, <2>2 DEF FrameOK, ActiveBelow
  <2> QED
    BY <1>0, <2>1, <2>2
<1>10. ReturnsFirst(t)
  <2> SUFFICES ASSUME NEW k \in 1 .. a + 1, NEW i \in 1 .. k - 1, DeeperThan(t, i, k - 1)
               PROVE  t[k].frame \in t[i].active <=> t[k].call_depth <= t[i].call_depth
    BY <1>4 DEF ReturnsFirst
  <2>1. i \in 1 .. a /\ k - 1 \in i .. a
    OBVIOUS
  <2>2. DeeperThan(s, i, k - 1)
    BY <1>6, <2>1
  <2>3. CASE k = a + 1
    <3>1. f[b].id \in s[i].active <=> b <= s[i].call_depth
      BY <1>0, <1>2, <2>1, <2>2, <2>3 DEF FrameOK, ActiveBelow
    <3> QED
      BY <1>2, <1>4, <2>1, <2>3, <3>1
  <2>4. CASE k \in 1 .. a
    BY <1>0, <1>4, <2>1, <2>2, <2>4 DEF FrameOK, ReturnsFirst
  <2> QED
    BY <1>0, <2>3, <2>4
<1>11. FrameOK(f, t, n)
  BY <1>1, <1>4, <1>7, <1>9, <1>10, <1>0 DEF FrameOK
<1>12. ASSUME NEW i \in 1 .. a + 1, DeeperThan(t, i, a + 1) PROVE t[i].call_depth <= b
  <2>1. CASE i = a + 1
    BY <1>2, <1>4, <2>1
  <2>2. CASE i \in 1 .. a
    BY <1>4, <1>5, <1>8, <1>12, <2>2
  <2> QED
    BY <1>0, <2>1, <2>2
<1> QED
  BY <1>0, <1>4, <1>11, <1>12

LEMMA FrameInit == ASSUME Init PROVE FrameInv
<1>1. /\ frames = <<>> /\ snapshots = <<>> /\ fresh = 0
      /\ <<>> \in Seq(Frames) /\ <<>> \in Seq(Shots)
  BY DEF Init
<1> QED
  BY <1>1 DEF FrameInv, FrameOK, ActiveBelow, ReturnsFirst

LEMMA FrameStep == ASSUME InspectorInv, FrameInv, [Next]_vars PROVE FrameInv'
<1>1. /\ FrameOK(frames, snapshots, fresh)
      /\ phase = "start" => snapshots = <<>>
      /\ phase = "step" => Len(frames) > 0
      /\ frames \in Seq(Frames)
  BY DEF FrameInv, InspectorInv, MirrorInv, FrameOK
<1>2. ASSUME Capture
      PROVE  /\ phase = "step" /\ Len(frames) > 0 /\ FrameOK(frames, snapshots', fresh)
             /\ \A i \in 1 .. Len(snapshots') : DeeperThan(snapshots', i, Len(snapshots'))
                  => snapshots'[i].call_depth <= Len(frames)
  <2>1. phase = "step" /\ Len(frames) > 0
    BY <1>1, <1>2 DEF Capture
  <2> QED
    BY <1>1, <1>2, <2>1, FramesCaptured DEF Capture
(* A call that is refused changes neither frames nor fresh.                *)
<1>3. ASSUME NEW kind \in Kinds, NEW callee \in Contracts, EnterFrame(kind, callee),
             kind = "DELEGATECALL" => Len(frames) > 0, FrameOK(frames, snapshots', fresh),
             \A i \in 1 .. Len(snapshots') : DeeperThan(snapshots', i, Len(snapshots'))
               => snapshots'[i].call_depth <= Len(frames)
      PROVE  FrameOK(frames', snapshots', fresh') /\ phase' # "start"
  <2>1. StorageOf(kind, callee) \in Contracts
    <3>1. Len(frames) > 0 => Last(frames) \in Frames
      BY <1>1, LastIsElement
    <3> QED
      BY <1>3, <3>1 DEF StorageOf, Frames
  <2> QED
    BY <1>3, <2>1, FramePushed DEF EnterFrame
<1>4. CASE Start
  <2>1. snapshots = <<>> /\ snapshots' = <<>> /\ Len(snapshots') = 0
    BY <1>1, <1>4 DEF Start
  <2>2. PICK kind \in {"CALL", "CREATE"}, callee \in Contracts : EnterFrame(kind, callee)
    BY <1>4 DEF Start
  <2> QED
    BY <1>1, <1>3, <2>1, <2>2 DEF FrameInv, Kinds
<1>5. CASE StepAborted
  <2>1. Len(frames) > 0 /\ UNCHANGED <<snapshots, fresh>> /\ frames' = Pop(frames) /\ phase' = "ended"
    BY <1>1, <1>5 DEF StepAborted
  <2> QED
    BY <1>1, <2>1, FramesPopped DEF FrameInv
<1>6. CASE StepPlain \/ StepStore
  <2>1. Capture /\ UNCHANGED <<frames, fresh, phase>>
    BY <1>6 DEF StepPlain, StepStore
  <2> QED
    BY <1>2, <2>1 DEF FrameInv
<1>7. CASE StepStoreFails \/ StepLast
  <2>1. Capture /\ frames' = Pop(frames) /\ phase' = "ended" /\ UNCHANGED fresh
    BY <1>7 DEF StepStoreFails, StepLast
  <2> QED
    BY <1>2, <2>1, FramesPopped DEF FrameInv
<1>8. CASE StepCall
  <2>1. Capture
    BY <1>8 DEF StepCall
  <2>2. PICK kind \in Kinds, callee \in Contracts : EnterFrame(kind, callee)
    BY <1>8 DEF StepCall
  <2> QED
    BY <1>2, <1>3, <2>1, <2>2 DEF FrameInv
<1>9. CASE EndFrame
  <2>1. UNCHANGED <<frames, fresh, snapshots>> /\ phase' # "start"
    BY <1>9 DEF EndFrame
  <2> QED
    BY <1>1, <2>1 DEF FrameInv
<1>10. CASE Abort \/ UNCHANGED vars
  <2>1. UNCHANGED <<frames, fresh, snapshots, phase>>
    BY <1>10 DEF Abort, vars
  <2> QED
    BY <1>1, <2>1 DEF FrameInv
<1> QED
  BY <1>4, <1>5, <1>6, <1>7, <1>8, <1>9, <1>10 DEF Next

LEMMA FrameInvariance == Spec => []FrameInv
<1>1. Init => FrameInv
  BY FrameInit
<1>2. InspectorInv /\ FrameInv /\ [Next]_vars => FrameInv'
  BY FrameStep
<1> QED
  BY <1>1, <1>2, InspectorInvariance, PTL DEF Spec

(* What step_over sees, the depths, is enough to follow the frames: from   *)
(* any snapshot of any trace it goes to the next opcode of the frame it    *)
(* starts in or of one that waits for it, over every opcode of the frames  *)
(* that are entered in between (session.rs:160).                           *)
THEOREM StepOverIsOfFrames == Spec => []StepOverFollowsFrames
<1>1. FrameInv => StepOverFollowsFrames
  <2> SUFFICES ASSUME FrameInv, NEW i \in 0 .. Len(snapshots) - 1
               PROVE  LET j == StepOverIndex(Depths, i)
                          Stops(k) == snapshots[k + 1].frame \in snapshots[i + 1].active
                      IN  /\ \A k \in i + 1 .. j - 1 : ~Stops(k)
                          /\ j < Len(snapshots) => Stops(j)
    BY DEF StepOverFollowsFrames
  <2> DEFINE j == StepOverIndex(Depths, i)
  <2>0. PICK a \in Nat : a = Len(snapshots)
    BY DEF FrameInv, FrameOK
  <2>1. \A k \in 1 .. a : snapshots[k].call_depth \in Nat
    <3>1. \A k \in 1 .. a : snapshots[k] \in Shots
      BY <2>0 DEF FrameInv, FrameOK
    <3> QED
      BY <3>1 DEF Shots
  <2>2. /\ Depths \in Traces /\ Len(Depths) = a
        /\ \A k \in 1 .. a : Depths[k] = snapshots[k].call_depth
    <3>1. Depths \in [1 .. a -> Nat]
      BY <2>0, <2>1 DEF Depths
    <3> QED
      BY <2>0, <3>1 DEF Depths, Traces
  <2>3. i \in 0 .. a - 1 /\ i \in 0 .. Len(Depths) - 1
    BY <2>0, <2>2
  <2>4. /\ j \in i + 1 .. a
        /\ j < a => snapshots[j + 1].call_depth <= snapshots[i + 1].call_depth
        /\ \A k \in i + 1 .. j - 1 : snapshots[k + 1].call_depth > snapshots[i + 1].call_depth
    <3>1. /\ j \in i + 1 .. Len(Depths)
          /\ j < Len(Depths) => Depths[j + 1] <= Depths[i + 1]
          /\ \A k \in i + 1 .. j - 1 : Depths[k + 1] > Depths[i + 1]
      BY <2>2, <2>3, StepOverLands
    <3> HIDE DEF j
    <3>2. Depths[i + 1] = snapshots[i + 1].call_depth
      BY <2>0, <2>2, <2>3
    <3>3. \A k \in i + 1 .. a - 1 : Depths[k + 1] = snapshots[k + 1].call_depth
      BY <2>0, <2>2, <2>3
    <3> QED
      BY <2>0, <2>2, <2>3, <3>1, <3>2, <3>3
  <2> HIDE DEF j
  <2>5. \A k \in i + 1 .. j : DeeperThan(snapshots, i + 1, k)
    BY <2>0, <2>3, <2>4 DEF DeeperThan
  <2>6. ASSUME NEW k \in i + 1 .. j, k < a
        PROVE  snapshots[k + 1].frame \in snapshots[i + 1].active
                 <=> snapshots[k + 1].call_depth <= snapshots[i + 1].call_depth
    <3>1. k + 1 \in 1 .. a /\ i + 1 \in 1 .. k + 1 - 1 /\ k + 1 - 1 = k
      BY <2>0, <2>3, <2>4, <2>6
    <3> QED
      BY <2>0, <2>5, <3>1 DEF FrameInv, FrameOK, ReturnsFirst
  <2>7. \A k \in i + 1 .. j - 1 : ~(snapshots[k + 1].frame \in snapshots[i + 1].active)
    <3> SUFFICES ASSUME NEW k \in i + 1 .. j - 1
                 PROVE  ~(snapshots[k + 1].frame \in snapshots[i + 1].active)
      OBVIOUS
    <3>1. k \in i + 1 .. j /\ k < a /\ k + 1 \in 1 .. a /\ i + 1 \in 1 .. a
      BY <2>0, <2>3, <2>4
    <3>2. /\ snapshots[k + 1].call_depth > snapshots[i + 1].call_depth
          /\ snapshots[k + 1].call_depth \in Nat /\ snapshots[i + 1].call_depth \in Nat
      BY <2>1, <2>4, <3>1
    <3>3. snapshots[k + 1].frame \in snapshots[i + 1].active
            <=> snapshots[k + 1].call_depth <= snapshots[i + 1].call_depth
      BY <2>6, <3>1
    <3> QED
      BY <3>2, <3>3
  <2>8. j < a => snapshots[j + 1].frame \in snapshots[i + 1].active
    BY <2>0, <2>3, <2>4, <2>6
  <2> QED
    BY <2>0, <2>7, <2>8 DEF j
<1> QED
  BY <1>1, FrameInvariance, PTL

-----------------------------------------------------------------------------
(* The effects of the opcodes leave the inspector's other records alone.   *)
LEMMA EffectsStepIsStep == ASSUME EffectsNext PROVE Next
BY DEF EffectsNext, Next, EffectsStart, EffectsAborted, EffectsPlain, EffectsStore,
       EffectsStoreFails, EffectsLog, EffectsCall, EffectsLast, EffectsEnd, EffectsAbort

(* Whatever is proved of the inspector holds beside the effects.           *)
THEOREM EffectsAreInspected == EffectsSpec => Spec
<1>1. EffectsInit => Init
  BY DEF EffectsInit
<1>2. [EffectsNext]_allVars => [Next]_vars
  BY EffectsStepIsStep DEF allVars
<1> QED
  BY <1>1, <1>2, PTL DEF EffectsSpec, Spec

Journals == [storage : [Contracts -> Nat], logs : Seq(Nat)]

EffectsType ==
  /\ journal \in Journals
  /\ checkpoints \in Seq([opcode : Nat, journal : Journals])
  /\ Len(checkpoints) = Len(frames)
  /\ shown_storage \in [Contracts \union {Zero} -> Nat]
  /\ \A c \in Contracts : shown_storage[c] <= Len(snapshots)
  /\ \A k \in 1 .. Len(checkpoints) : checkpoints[k].opcode <= Len(snapshots)
  /\ \A i \in 1 .. Len(call_stack) :
       call_stack[i].kind = "CREATE" => call_stack[i].contract = Zero

(* What is shown under c, if the slot of c holds the write w.              *)
Justified(c, w) ==
  shown_storage[c] = w \/ shown_storage[c] \in undone \/ w \in constructed

(* If a frame is undone the slot holds again what it held at the           *)
(* checkpoint; what is shown is then justified or has been undone too.     *)
CheckpointInv ==
  \A k \in 1 .. Len(checkpoints), c \in Contracts :
    \/ Justified(c, checkpoints[k].journal.storage[c])
    \/ shown_storage[c] > checkpoints[k].opcode

EffectsInv == EffectsType /\ CheckpointInv /\ ShownStorageIsLatest

LEMMA EffectsInitially == ASSUME EffectsInit PROVE EffectsInv
<1>1. /\ \A S : <<>> \in Seq(S)
      /\ Len(frames) = 0 /\ Len(checkpoints) = 0 /\ Len(call_stack) = 0 /\ Len(snapshots) = 0
  BY DEF EffectsInit, Init
<1>2. /\ journal = [storage |-> [c \in Contracts |-> 0], logs |-> <<>>]
      /\ checkpoints = <<>>
      /\ shown_storage = [c \in Contracts \union {Zero} |-> 0]
  BY DEF EffectsInit, None
<1>3. journal \in Journals
  BY <1>1, <1>2 DEF Journals
<1>4. checkpoints \in Seq([opcode : Nat, journal : Journals])
  BY <1>1, <1>2
<1>5. EffectsType
  BY <1>1, <1>2, <1>3, <1>4 DEF EffectsType
<1> QED
  BY <1>1, <1>2, <1>5 DEF EffectsInv, CheckpointInv, ShownStorageIsLatest

Points == [opcode : Nat, journal : Journals]

LEMMA PointFacts ==
  ASSUME EffectsInv
  PROVE  /\ checkpoints \in Seq(Points) /\ Len(checkpoints) \in Nat
         /\ \A k \in 1 .. Len(checkpoints) :
              /\ checkpoints[k] \in Points
              /\ checkpoints[k].opcode \in Nat /\ checkpoints[k].journal \in Journals
         /\ \A c \in Contracts : shown_storage[c] \in Nat
<1>1. checkpoints \in Seq(Points) /\ Len(checkpoints) \in Nat
  BY DEF EffectsInv, EffectsType, Points
<1>2. \A k \in 1 .. Len(checkpoints) : checkpoints[k] \in Points
  BY <1>1
<1>3. \A k \in 1 .. Len(checkpoints) :
        checkpoints[k].opcode \in Nat /\ checkpoints[k].journal \in Journals
  BY <1>2 DEF Points
<1>4. \A c \in Contracts : shown_storage[c] \in Nat
  BY DEF EffectsInv, EffectsType
<1> QED
  BY <1>1, <1>2, <1>3, <1>4

(* An opcode that leaves storage and frames alone.                         *)
LEMMA EffectsIdle ==
  ASSUME InspectorInv, EffectsInv,
         UNCHANGED <<frames, checkpoints, shown_storage, undone, constructed>>,
         journal' \in Journals, journal'.storage = journal.storage,
         call_stack' = call_stack \/ (Len(call_stack) > 0 /\ call_stack' = Pop(call_stack)),
         Len(snapshots') \in Nat /\ Len(snapshots') >= Len(snapshots)
  PROVE  EffectsInv'
<1>1. Len(snapshots) \in Nat /\ call_stack \in Seq(CallFrames) /\ Len(call_stack) \in Nat
  BY DEF InspectorInv, TypeOK, CallFrames
<1>2. /\ \A c \in Contracts : shown_storage[c] \in Nat
      /\ \A k \in 1 .. Len(checkpoints) : checkpoints[k].opcode \in Nat
  BY PointFacts
<1>3. \A i \in 1 .. Len(call_stack') :
        call_stack'[i].kind = "CREATE" => call_stack'[i].contract = Zero
  BY <1>1, PopProperties DEF EffectsInv, EffectsType
<1>4. EffectsType'
  BY <1>1, <1>2, <1>3 DEF EffectsInv, EffectsType
<1> QED
  BY <1>4 DEF EffectsInv, CheckpointInv, Justified, ShownStorageIsLatest

(* A call or a creation; the journal is as it was when its frame begins.   *)
LEMMA EffectsEnter ==
  ASSUME InspectorInv, EffectsInv, NEW kind \in Kinds, NEW callee \in Contracts,
         EnterFrame(kind, callee), NEW opcode \in Nat, Checkpoint(opcode),
         opcode <= Len(snapshots'),
         UNCHANGED <<journal, shown_storage, undone, constructed>>,
         Len(snapshots') \in Nat /\ Len(snapshots') >= Len(snapshots)
  PROVE  EffectsInv'
<1> DEFINE entry == CallFrame(kind, callee)
           point == [opcode |-> opcode, journal |-> journal]
<1>1. /\ Len(snapshots) \in Nat /\ call_stack \in Seq(CallFrames) /\ Len(call_stack) \in Nat
      /\ frames \in Seq(Frames) /\ Len(frames) \in Nat
      /\ checkpoints \in Seq(Points) /\ Len(checkpoints) = Len(frames)
      /\ journal \in Journals
  <2>1. snapshots \in Seq(Shots) /\ call_stack \in Seq(CallFrames) /\ frames \in Seq(Frames)
    BY DEF InspectorInv, TypeOK, CallFrames, Frames, Shots
  <2>2. Len(checkpoints) = Len(frames) /\ journal \in Journals
    BY DEF EffectsInv, EffectsType
  <2>3. Len(snapshots) \in Nat /\ Len(call_stack) \in Nat /\ Len(frames) \in Nat
    BY <2>1
  <2> QED
    BY <2>1, <2>2, <2>3, PointFacts
<1>2. /\ \A c \in Contracts : shown_storage[c] \in Nat
      /\ \A k \in 1 .. Len(checkpoints) : checkpoints[k].opcode \in Nat
  BY PointFacts
<1>3. PICK n \in Nat : n = Len(frames)
  BY <1>1
<1>4. point \in Points /\ point.opcode = opcode /\ point.journal = journal
  BY <1>1 DEF Points
<1>5. entry.kind = "CREATE" => entry.contract = Zero
  BY DEF CallFrame
<1> HIDE DEF entry, point
<1>6. call_stack' = Append(call_stack, entry)
  BY DEF EnterFrame, entry
<1>7. \A i \in 1 .. Len(call_stack') :
        call_stack'[i].kind = "CREATE" => call_stack'[i].contract = Zero
  <2>1. PICK m \in Nat : m = Len(call_stack)
    BY <1>1
  <2>2. /\ Len(call_stack') = m + 1 /\ call_stack'[m + 1] = entry
        /\ \A i \in 1 .. m : call_stack'[i] = call_stack[i]
    BY <1>1, <1>6, <2>1
  <2> QED
    BY <1>5, <2>1, <2>2 DEF EffectsInv, EffectsType
<1>8. \/ UNCHANGED <<frames, checkpoints>>
      \/ /\ checkpoints' \in Seq(Points) /\ Len(checkpoints') = n + 1 /\ Len(frames') = n + 1
         /\ checkpoints'[n + 1] = point
         /\ \A k \in 1 .. n : checkpoints'[k] = checkpoints[k]
  <2>1. CASE frames' = frames
    BY <2>1 DEF Checkpoint
  <2>2. CASE frames' # frames
    <3>1. PICK f : frames' = Append(frames, f)
      BY <2>2 DEF EnterFrame
    <3>2. Len(frames') = n + 1
      BY <1>1, <1>3, <3>1
    <3>3. checkpoints' = Append(checkpoints, point)
      BY <2>2 DEF Checkpoint, point
    <3> QED
      BY <1>1, <1>3, <1>4, <3>2, <3>3
  <2> QED
    BY <2>1, <2>2
<1>9. EffectsType'
  <2>1. checkpoints' \in Seq(Points) /\ Len(checkpoints') = Len(frames')
    BY <1>1, <1>8
  <2>2. \A k \in 1 .. Len(checkpoints') : checkpoints'[k].opcode <= Len(snapshots')
    <3>1. \A k \in 1 .. Len(checkpoints) : checkpoints[k].opcode <= Len(snapshots')
      <4>1. \A k \in 1 .. Len(checkpoints) : checkpoints[k].opcode <= Len(snapshots)
        BY DEF EffectsInv, EffectsType
      <4> QED
        BY <1>1, <1>2, <4>1
    <3>2. ASSUME NEW k \in 1 .. Len(checkpoints')
          PROVE  \/ k \in 1 .. Len(checkpoints) /\ checkpoints'[k] = checkpoints[k]
                 \/ checkpoints'[k] = point
      BY <1>1, <1>3, <1>8
    <3> QED
      BY <1>4, <3>1, <3>2
  <2>3. \A c \in Contracts : shown_storage'[c] <= Len(snapshots')
    BY <1>1, <1>2 DEF EffectsInv, EffectsType
  <2> QED
    BY <1>1, <1>7, <2>1, <2>2, <2>3 DEF EffectsInv, EffectsType, Points
<1>10. ASSUME NEW k \in 1 .. Len(checkpoints'), NEW c \in Contracts
       PROVE  \/ Justified(c, checkpoints[k].journal.storage[c])'
              \/ shown_storage'[c] > checkpoints'[k].opcode
  <2>1. CASE k \in 1 .. n /\ checkpoints'[k] = checkpoints[k]
    BY <1>1, <1>3, <2>1 DEF EffectsInv, CheckpointInv, Justified
  <2>2. CASE checkpoints'[k] = point
    BY <1>4, <2>2 DEF EffectsInv, ShownStorageIsLatest, Justified
  <2> QED
    BY <1>1, <1>3, <1>8, <2>1, <2>2
<1>11. CheckpointInv'
  BY <1>10 DEF CheckpointInv, Justified
<1> QED
  BY <1>9, <1>11 DEF EffectsInv, ShownStorageIsLatest

(* A frame ends well, or is undone; and its last opcode may have been a    *)
(* storage write that failed.                                              *)
LEMMA EffectsLeave ==
  ASSUME InspectorInv, EffectsInv, Len(frames) > 0, frames' = Pop(frames),
         UNCHANGED <<call_stack, constructed>>,
         Len(snapshots') \in Nat, Len(snapshots') >= Len(snapshots),
         \/ Commit /\ UNCHANGED shown_storage
         \/ Undo /\ UNCHANGED shown_storage /\ Len(snapshots') = Opcode
         \/ Undo /\ ShowWrite /\ Len(snapshots') = Opcode
  PROVE  EffectsInv'
<1>1. /\ Len(snapshots) \in Nat /\ frames \in Seq(Frames) /\ Len(frames) \in Nat
      /\ checkpoints \in Seq(Points) /\ Len(checkpoints) = Len(frames)
      /\ journal \in Journals /\ shown_storage \in [Contracts \union {Zero} -> Nat]
  BY PointFacts DEF InspectorInv, TypeOK, Frames, EffectsInv, EffectsType
<1>2. PICK n \in Nat : n + 1 = Len(frames)
  <2>1. Len(frames) - 1 \in Nat /\ Len(frames) - 1 + 1 = Len(frames)
    BY <1>1
  <2> QED
    BY <2>1
<1>3. /\ Len(frames') = n /\ checkpoints' = Pop(checkpoints)
      /\ checkpoints' \in Seq(Points) /\ Len(checkpoints') = n
      /\ \A k \in 1 .. n : checkpoints'[k] = checkpoints[k] /\ k \in 1 .. Len(checkpoints)
  <2>1. Len(Pop(frames)) = Len(frames) - 1
    BY <1>1, PopProperties
  <2>2. checkpoints' = Pop(checkpoints)
    BY DEF Commit, Undo
  <2>3. /\ Pop(checkpoints) \in Seq(Points) /\ Len(Pop(checkpoints)) = Len(checkpoints) - 1
        /\ \A k \in 1 .. Len(checkpoints) - 1 : Pop(checkpoints)[k] = checkpoints[k]
    BY <1>1, PopProperties
  <2> QED
    BY <1>1, <1>2, <2>1, <2>2, <2>3
<1>4. /\ Last(checkpoints) = checkpoints[n + 1] /\ n + 1 \in 1 .. Len(checkpoints)
      /\ Last(checkpoints) \in Points
      /\ Last(checkpoints).opcode \in Nat /\ Last(checkpoints).opcode <= Len(snapshots)
      /\ Last(checkpoints).journal \in Journals
  BY <1>1, <1>2, PointFacts DEF Last, EffectsInv, EffectsType
<1>5. /\ \A c \in Contracts : shown_storage[c] \in Nat
      /\ \A k \in 1 .. Len(checkpoints) : checkpoints[k].opcode \in Nat
  BY PointFacts
<1>6. undone \subseteq undone'
  BY DEF Commit, Undo
(* A write is shown that was shown before, or it is undone already.        *)
<1>7. ASSUME NEW c \in Contracts
      PROVE  /\ shown_storage'[c] \in Nat /\ shown_storage'[c] <= Len(snapshots')
             /\ shown_storage'[c] = shown_storage[c] \/ shown_storage'[c] \in undone'
  <2>1. CASE UNCHANGED shown_storage
    BY <1>1, <1>5, <2>1 DEF EffectsInv, EffectsType
  <2>2. CASE Undo /\ ShowWrite /\ Len(snapshots') = Opcode
    <3>1. shown_storage'[c] = shown_storage[c] \/ shown_storage'[c] = Opcode
      BY <1>1, <2>2 DEF ShowWrite
    <3>2. Opcode \in Nat /\ Opcode \in Last(checkpoints).opcode + 1 .. Opcode
      BY <1>1, <1>4 DEF Opcode
    <3> QED
      BY <1>1, <1>5, <2>2, <3>1, <3>2 DEF Undo, EffectsInv, EffectsType, Opcode
  <2> QED
    BY <2>1, <2>2
<1>8. /\ journal' \in Journals
      /\ shown_storage' \in [Contracts \union {Zero} -> Nat]
  <2>1. journal' \in Journals
    BY <1>1, <1>4 DEF Commit, Undo
  <2>2. shown_storage' \in [Contracts \union {Zero} -> Nat]
    BY <1>1 DEF ShowWrite, Opcode
  <2> QED
    BY <2>1, <2>2
<1>9. EffectsType'
  <2>1. \A k \in 1 .. Len(checkpoints') : checkpoints'[k].opcode <= Len(snapshots')
    BY <1>1, <1>3, <1>5 DEF EffectsInv, EffectsType
  <2>2. \A i \in 1 .. Len(call_stack') :
          call_stack'[i].kind = "CREATE" => call_stack'[i].contract = Zero
    BY DEF EffectsInv, EffectsType
  <2> QED
    BY <1>3, <1>7, <1>8, <2>1, <2>2 DEF EffectsType, Points
<1>10. CheckpointInv'
  <2> SUFFICES ASSUME NEW k \in 1 .. Len(checkpoints'), NEW c \in Contracts
               PROVE  \/ Justified(c, checkpoints[k].journal.storage[c])'
                      \/ shown_storage'[c] > checkpoints'[k].opcode
    BY DEF CheckpointInv
  <2>1. checkpoints'[k] = checkpoints[k] /\ k \in 1 .. Len(checkpoints)
    BY <1>3
  <2> QED
    BY <1>6, <1>7, <2>1 DEF EffectsInv, CheckpointInv, Justified
<1>11. ShownStorageIsLatest'
  <2> SUFFICES ASSUME NEW c \in Contracts
               PROVE  Justified(c, journal.storage[c])'
    BY DEF ShownStorageIsLatest, Justified
  <2>1. CASE Commit
    BY <1>6, <1>7, <2>1 DEF Commit, EffectsInv, ShownStorageIsLatest, Justified
  <2>2. CASE Undo /\ Len(snapshots') = Opcode
    <3>1. /\ journal' = Last(checkpoints).journal
          /\ undone' = undone \union (Last(checkpoints).opcode + 1 .. Opcode)
      BY <2>2 DEF Undo
    <3>2. \/ Justified(c, Last(checkpoints).journal.storage[c])
          \/ shown_storage[c] > Last(checkpoints).opcode
      BY <1>4 DEF EffectsInv, CheckpointInv
    <3>3. shown_storage[c] > Last(checkpoints).opcode => shown_storage[c] \in undone'
      BY <1>1, <1>4, <1>5, <3>1 DEF EffectsInv, EffectsType, Opcode
    <3> QED
      BY <1>6, <1>7, <3>1, <3>2, <3>3 DEF Justified
  <2> QED
    BY <2>1, <2>2
<1> QED
  BY <1>9, <1>10, <1>11 DEF EffectsInv

LEMMA EffectsStored ==
  ASSUME InspectorInv, EffectsInv, EffectsStore
  PROVE  EffectsInv'
<1>1. /\ Len(snapshots) \in Nat /\ Len(frames) \in Nat /\ Len(frames) > 0
      /\ Len(call_stack) = Len(frames) /\ Mirrors(Len(frames))
      /\ frames \in Seq(Frames) /\ call_stack \in Seq(CallFrames)
  BY DEF InspectorInv, TypeOK, MirrorInv, Frames, CallFrames, EffectsStore, StepStore, Capture
<1>2. /\ Len(snapshots') = Opcode /\ Opcode \in Nat /\ Opcode > Len(snapshots)
  BY <1>1 DEF EffectsStore, StepStore, Capture, Opcode, InspectorInv, TypeOK
<1> DEFINE top == Last(call_stack)
           stored == Last(frames).storage
<1>3. /\ top \in CallFrames /\ top.contract \in Contracts \union {Zero}
      /\ stored \in Contracts
      /\ top.kind # "CREATE" => top.contract = stored
      /\ top.kind = "CREATE" => top.contract = Zero
  <2>1. Last(call_stack) \in CallFrames /\ Last(frames) \in Frames
    BY <1>1, LastIsElement
  <2>2. Len(call_stack) \in 1 .. Len(call_stack)
    BY <1>1
  <2>3. top.kind = "CREATE" => top.contract = Zero
    BY <2>2 DEF Last, EffectsInv, EffectsType
  <2> QED
    BY <1>1, <2>1, <2>3 DEF CallFrames, Frames, Mirrors, Last
<1> HIDE DEF top, stored
<1>4. /\ UNCHANGED <<frames, call_stack, checkpoints, undone>>
      /\ shown_storage' = [shown_storage EXCEPT ![top.contract] = Opcode]
      /\ journal' = [journal EXCEPT !.storage[stored] = Opcode]
      /\ constructed' = IF top.kind = "CREATE" THEN constructed \union {Opcode} ELSE constructed
  BY DEF EffectsStore, StepStore, ShowWrite, top, stored
<1>5. /\ shown_storage \in [Contracts \union {Zero} -> Nat]
      /\ journal \in Journals /\ journal.storage \in [Contracts -> Nat]
  BY DEF EffectsInv, EffectsType, Journals
<1>6. /\ journal' \in Journals
      /\ journal'.storage = [journal.storage EXCEPT ![stored] = Opcode]
      /\ shown_storage' \in [Contracts \union {Zero} -> Nat]
  BY <1>2, <1>3, <1>4, <1>5 DEF Journals
<1>7. /\ \A c \in Contracts : shown_storage[c] \in Nat
      /\ \A k \in 1 .. Len(checkpoints) : checkpoints[k].opcode \in Nat
  BY PointFacts
<1>8. \A c \in Contracts : shown_storage'[c] = shown_storage[c] \/ shown_storage'[c] = Opcode
  BY <1>4, <1>5
<1>9. EffectsType'
  <2>1. \A c \in Contracts : shown_storage'[c] <= Len(snapshots')
    <3>1. \A c \in Contracts : shown_storage[c] <= Len(snapshots)
      BY DEF EffectsInv, EffectsType
    <3>2. \A c \in Contracts : shown_storage[c] <= Opcode
      BY <1>1, <1>2, <1>7, <3>1
    <3> QED
      BY <1>2, <1>8, <3>2
  <2>2. \A k \in 1 .. Len(checkpoints') : checkpoints'[k].opcode <= Len(snapshots')
    BY <1>1, <1>2, <1>4, <1>7 DEF EffectsInv, EffectsType
  <2> QED
    BY <1>4, <1>6, <2>1, <2>2 DEF EffectsInv, EffectsType
<1>10. CheckpointInv'
  <2> SUFFICES ASSUME NEW k \in 1 .. Len(checkpoints), NEW c \in Contracts
               PROVE  \/ Justified(c, checkpoints[k].journal.storage[c])'
                      \/ shown_storage'[c] > checkpoints[k].opcode
    BY <1>4 DEF CheckpointInv
  <2>1. CASE shown_storage'[c] = Opcode
    BY <1>1, <1>2, <1>7, <2>1 DEF EffectsInv, EffectsType
  <2>2. CASE shown_storage'[c] = shown_storage[c]
    BY <1>4, <2>2 DEF EffectsInv, CheckpointInv, Justified
  <2> QED
    BY <1>8, <2>1, <2>2
<1>11. ShownStorageIsLatest'
  <2> SUFFICES ASSUME NEW c \in Contracts
               PROVE  Justified(c, journal.storage[c])'
    BY DEF ShownStorageIsLatest, Justified
  <2>1. CASE c # stored
    <3>1. journal'.storage[c] = journal.storage[c]
      BY <1>5, <1>6, <2>1
    <3>2. shown_storage'[c] = shown_storage[c]
      BY <1>3, <1>4, <1>5, <2>1, InspectorAssumption
    <3> QED
      BY <1>4, <3>1, <3>2 DEF EffectsInv, ShownStorageIsLatest, Justified
  <2>2. CASE c = stored
    <3>1. journal'.storage[c] = Opcode
      BY <1>3, <1>5, <1>6, <2>2
    <3>2. top.kind # "CREATE" => shown_storage'[c] = Opcode
      BY <1>3, <1>4, <1>5, <2>2
    <3> QED
      BY <1>4, <3>1, <3>2 DEF Justified
  <2> QED
    BY <2>1, <2>2
<1> QED
  BY <1>9, <1>10, <1>11 DEF EffectsInv

LEMMA EffectsStep ==
  ASSUME InspectorInv, EffectsInv, [EffectsNext]_allVars
  PROVE  EffectsInv'
<1> USE DEF effectVars, historyVars
<1>1. /\ Len(snapshots) \in Nat /\ snapshots \in Seq([call_depth : Nat \ {0}, frame : Nat, active : SUBSET Nat])
      /\ journal \in Journals /\ call_stack \in Seq(CallFrames)
      /\ Len(frames) \in Nat /\ Len(call_stack) \in Nat
  BY DEF InspectorInv, TypeOK, EffectsInv, EffectsType, CallFrames
<1>2. ASSUME Capture
      PROVE  /\ phase = "step" /\ Len(frames) > 0
             /\ Len(snapshots') = Opcode /\ Opcode \in Nat /\ Opcode >= Len(snapshots)
  BY <1>1, <1>2 DEF Capture, InspectorInv, MirrorInv, Opcode
<1>3. CASE EffectsStart
  <2>1. PICK kind \in Kinds, callee \in Contracts : EnterFrame(kind, callee)
    BY <1>3 DEF EffectsStart, Start, Kinds
  <2> QED
    BY <1>1, <1>3, <2>1, EffectsEnter DEF EffectsStart, Start, Before
<1>4. CASE EffectsAborted
  <2>1. Len(frames) > 0
    BY <1>4 DEF EffectsAborted, StepAborted, InspectorInv, MirrorInv
  <2> QED
    BY <1>1, <1>4, <2>1, EffectsLeave DEF EffectsAborted, StepAborted
<1>5. CASE EffectsPlain
  BY <1>1, <1>2, <1>5, EffectsIdle DEF EffectsPlain, StepPlain
<1>6. CASE EffectsStore
  BY <1>6, EffectsStored
<1>7. CASE EffectsStoreFails
  BY <1>1, <1>2, <1>7, EffectsLeave DEF EffectsStoreFails, StepStoreFails
<1>8. CASE EffectsLog
  <2>1. journal' \in Journals /\ journal'.storage = journal.storage
    <3>1. journal.logs \in Seq(Nat) /\ journal.storage \in [Contracts -> Nat]
      BY <1>1 DEF Journals
    <3>2. Append(journal.logs, Opcode) \in Seq(Nat)
      BY <1>2, <1>8, <3>1 DEF EffectsLog, StepPlain
    <3>3. journal' = [journal EXCEPT !.logs = Append(journal.logs, Opcode)]
      BY <1>8 DEF EffectsLog
    <3> QED
      BY <1>1, <3>1, <3>2, <3>3 DEF Journals
  <2> QED
    BY <1>1, <1>2, <1>8, <2>1, EffectsIdle DEF EffectsLog, StepPlain
<1>9. CASE EffectsCall
  <2>1. PICK kind \in Kinds, callee \in Contracts : EnterFrame(kind, callee)
    BY <1>9 DEF EffectsCall, StepCall
  <2>2. Capture
    BY <1>9 DEF EffectsCall, StepCall
  <2> QED
    BY <1>1, <1>2, <1>9, <2>1, <2>2, EffectsEnter DEF EffectsCall
<1>10. CASE EffectsLast
  BY <1>1, <1>2, <1>10, EffectsLeave DEF EffectsLast, StepLast
<1>11. CASE EffectsEnd
  <2>1. Len(call_stack) > 0
    BY <1>1, <1>11 DEF EffectsEnd, EndFrame, InspectorInv, MirrorInv
  <2> QED
    BY <1>1, <1>11, <2>1, EffectsIdle DEF EffectsEnd, EndFrame
<1>12. CASE EffectsAbort
  BY <1>1, <1>12, EffectsIdle DEF EffectsAbort, Abort
<1>13. CASE UNCHANGED allVars
  BY <1>1, <1>13, EffectsIdle DEF allVars, vars
<1> QED
  BY <1>3, <1>4, <1>5, <1>6, <1>7, <1>8, <1>9, <1>10, <1>11, <1>12, <1>13 DEF EffectsNext

LEMMA EffectsInvariance == EffectsSpec => []EffectsInv
<1>1. EffectsInit => EffectsInv
  BY EffectsInitially
<1>2. InspectorInv /\ EffectsInv /\ [EffectsNext]_allVars => EffectsInv'
  BY EffectsStep
<1> QED
  BY <1>1, <1>2, EffectsAreInspected, InspectorInvariance, PTL DEF EffectsSpec

(* The storage that is shown is what the EVM has stored, but for writes    *)
(* that were undone and those of constructors, whatever is called,         *)
(* reverted, refused and aborted.                                          *)
THEOREM ShownStorageIsRight == EffectsSpec => []ShownStorageIsLatest
<1>1. EffectsInv => ShownStorageIsLatest
  BY DEF EffectsInv
<1> QED
  BY <1>1, EffectsInvariance, PTL

-----------------------------------------------------------------------------
(* gas_initial belongs to the frame that was entered last.  Unless that is *)
(* the frame in execution, an opcode of it has been shown: only an abort   *)
(* ends a frame before its first opcode.                                   *)
GasInv ==
  /\ gas_initial \in Nat /\ gas_of \in Seq(Nat) /\ Len(gas_of) = Len(snapshots)
  /\ fresh > 0 => gas_initial = fresh - 1
  /\ ~abort_flag /\ Len(frames) > 0 =>
       \/ Last(frames).id = gas_initial
       \/ \E i \in 1 .. Len(snapshots) : snapshots[i].frame = gas_initial
  /\ GasUsedOfOwnFrame

LEMMA GasInitially == ASSUME EffectsInit PROVE GasInv
<1>1. /\ <<>> \in Seq(Nat) /\ Len(frames) = 0 /\ fresh = 0
      /\ snapshots = <<>> /\ gas_of = <<>> /\ gas_initial = 0
  BY DEF EffectsInit, Init
<1> QED
  BY <1>1 DEF GasInv, GasUsedOfOwnFrame

(* The gas of the opcode that is shown; now its frame has shown one.       *)
LEMMA GasCaptured ==
  ASSUME InspectorInv, FrameInv, GasInv, Capture, ShowGas
  PROVE  /\ gas_of' \in Seq(Nat) /\ Len(gas_of') = Len(snapshots')
         /\ GasUsedOfOwnFrame'
         /\ \E i \in 1 .. Len(snapshots') : snapshots'[i].frame = gas_initial
<1> DEFINE own == Last(frames).id
           new == [call_depth |-> Len(frames), frame |-> own,
                   active |-> {frames[i].id : i \in 1 .. Len(frames)}]
<1>1. PICK a \in Nat : a = Len(snapshots)
  BY DEF FrameInv, FrameOK
<1>2. /\ ~abort_flag /\ Len(frames) > 0 /\ frames \in Seq(Frames)
      /\ snapshots' = Append(snapshots, new) /\ snapshots \in Seq(Shots)
  BY DEF Capture, InspectorInv, MirrorInv, FrameInv, FrameOK
<1>3. own \in Nat /\ own < fresh /\ fresh \in Nat
  <2>1. Last(frames) \in Frames /\ Len(frames) \in 1 .. Len(frames)
    BY <1>2, LastIsElement
  <2> QED
    BY <2>1 DEF Frames, Last, FrameInv, FrameOK
<1>4. gas_initial \in Nat /\ own <= gas_initial
  BY <1>3 DEF GasInv
<1> HIDE DEF own
<1>5. new.frame = own /\ new \in Shots
  <2>1. {frames[i].id : i \in 1 .. Len(frames)} \subseteq Nat
    <3>1. \A i \in 1 .. Len(frames) : frames[i] \in Frames
      BY <1>2
    <3> QED
      BY <3>1 DEF Frames
  <2>2. Len(frames) \in Nat \ {0}
    BY <1>2
  <2> QED
    BY <1>3, <2>1, <2>2 DEF Shots
<1> HIDE DEF new
<1>6. /\ Len(snapshots') = a + 1 /\ snapshots'[a + 1] = new
      /\ \A i \in 1 .. a : snapshots'[i] = snapshots[i]
  BY <1>1, <1>2, <1>5
<1>7. /\ gas_of' \in Seq(Nat) /\ Len(gas_of') = a + 1 /\ gas_of'[a + 1] = gas_initial
      /\ \A i \in 1 .. a : gas_of'[i] = gas_of[i]
  BY <1>1, <1>4 DEF ShowGas, GasInv
<1>8. own = gas_initial \/ \E i \in 1 .. a : snapshots[i].frame = gas_initial
  BY <1>1, <1>2 DEF GasInv, own
<1>9. \E i \in 1 .. a + 1 : snapshots'[i].frame = gas_initial
  <2>1. CASE own = gas_initial
    <3>1. a + 1 \in 1 .. a + 1 /\ snapshots'[a + 1].frame = gas_initial
      BY <1>5, <1>6, <2>1
    <3> QED
      BY <3>1
  <2>2. CASE \E i \in 1 .. a : snapshots[i].frame = gas_initial
    <3>1. PICK i \in 1 .. a : snapshots[i].frame = gas_initial
      BY <2>2
    <3>2. i \in 1 .. a + 1 /\ snapshots'[i].frame = gas_initial
      BY <1>6, <3>1
    <3> QED
      BY <3>2
  <2> QED
    BY <1>8, <2>1, <2>2
<1>10. ASSUME NEW i \in 1 .. a + 1,
              \A j \in 1 .. i - 1 : snapshots'[j].frame <= snapshots'[i].frame
       PROVE  gas_of'[i] = snapshots'[i].frame
  <2>1. CASE i = a + 1
    <3>1. \A j \in 1 .. a : snapshots[j].frame <= own
      BY <1>5, <1>6, <1>10, <2>1
    <3>2. own = gas_initial
      BY <1>3, <1>4, <1>8, <3>1
    <3> QED
      BY <1>5, <1>6, <1>7, <2>1, <3>2
  <2>2. CASE i \in 1 .. a
    <3>1. \A j \in 1 .. i - 1 : snapshots[j].frame <= snapshots[i].frame
      BY <1>6, <1>10, <2>2
    <3> QED
      BY <1>1, <1>6, <1>7, <2>2, <3>1 DEF GasInv, GasUsedOfOwnFrame
  <2> QED
    BY <1>1, <2>1, <2>2
<1> QED
  BY <1>1, <1>6, <1>7, <1>9, <1>10 DEF GasUsedOfOwnFrame

(* A frame is entered, and its limit with it, or the call is refused.      *)
LEMMA GasEntered ==
  ASSUME InspectorInv, FrameInv, NEW kind \in Kinds, NEW callee \in Contracts,
         EnterFrame(kind, callee), InitializeInterp, gas_initial \in Nat,
         fresh > 0 => gas_initial = fresh - 1
  PROVE  /\ gas_initial' \in Nat /\ fresh' \in Nat
         /\ fresh' > 0 => gas_initial' = fresh' - 1
         /\ \/ Len(frames') > 0 /\ Last(frames').id = gas_initial'
            \/ UNCHANGED <<frames, gas_initial>>
<1>1. fresh \in Nat /\ frames \in Seq(Frames)
  BY DEF FrameInv, FrameOK
<1>2. CASE UNCHANGED <<frames, fresh>>
  BY <1>1, <1>2 DEF InitializeInterp
<1>3. CASE /\ frames' = Append(frames, [id |-> fresh, storage |-> StorageOf(kind, callee)])
           /\ fresh' = fresh + 1
  <2> DEFINE entry == [id |-> fresh, storage |-> StorageOf(kind, callee)]
  <2>1. PICK n \in Nat : n = Len(frames)
    BY <1>1
  <2>2. entry.id = fresh
    OBVIOUS
  <2> HIDE DEF entry
  <2>3. /\ frames' = Append(frames, entry) /\ Len(frames') = n + 1 /\ frames'[n + 1] = entry
    BY <1>1, <1>3, <2>1 DEF entry
  <2>4. frames' # frames
    BY <2>1, <2>3
  <2>5. gas_initial' = fresh
    BY <2>4 DEF InitializeInterp
  <2> QED
    BY <1>1, <1>3, <2>1, <2>2, <2>3, <2>5 DEF Last
<1> QED
  BY <1>2, <1>3 DEF EnterFrame

LEMMA GasStep ==
  ASSUME InspectorInv, FrameInv, GasInv, [EffectsNext]_allVars
  PROVE  GasInv'
<1> USE DEF effectVars, historyVars
<1>1. /\ fresh \in Nat /\ gas_initial \in Nat /\ (fresh > 0 => gas_initial = fresh - 1)
      /\ phase = "start" => snapshots = <<>>
  BY DEF FrameInv, FrameOK, GasInv
(* An opcode that enters no frame.                                         *)
<1>2. ASSUME Capture, ShowGas, UNCHANGED <<gas_initial, fresh>> PROVE GasInv'
  BY <1>1, <1>2, GasCaptured DEF GasInv
<1>3. CASE EffectsStart
  <2>1. /\ UNCHANGED <<snapshots, abort_flag, gas_of>> /\ InitializeInterp
        /\ \E kind \in Kinds, callee \in Contracts : EnterFrame(kind, callee)
    BY <1>3 DEF EffectsStart, Start, Kinds
  <2>2. /\ gas_initial' \in Nat /\ (fresh' > 0 => gas_initial' = fresh' - 1)
        /\ \/ Len(frames') > 0 /\ Last(frames').id = gas_initial'
           \/ UNCHANGED <<frames, gas_initial>>
    BY <1>1, <2>1, GasEntered
  <2>3. GasUsedOfOwnFrame'
    BY <2>1 DEF GasInv, GasUsedOfOwnFrame
  <2> QED
    BY <2>1, <2>2, <2>3 DEF GasInv
<1>4. CASE EffectsAborted
  <2>1. UNCHANGED <<snapshots, fresh, gas_initial, gas_of>> /\ abort_flag'
    BY <1>4 DEF EffectsAborted, StepAborted
  <2> QED
    BY <2>1 DEF GasInv, GasUsedOfOwnFrame
<1>5. CASE EffectsPlain \/ EffectsStore \/ EffectsStoreFails \/ EffectsLog \/ EffectsLast
  <2>1. Capture /\ ShowGas /\ UNCHANGED <<gas_initial, fresh>>
    BY <1>5 DEF EffectsPlain, EffectsStore, EffectsStoreFails, EffectsLog, EffectsLast,
                StepPlain, StepStore, StepStoreFails, StepLast
  <2> QED
    BY <1>2, <2>1
<1>6. CASE EffectsCall
  <2>1. /\ Capture /\ ShowGas /\ InitializeInterp /\ UNCHANGED abort_flag
        /\ \E kind \in Kinds, callee \in Contracts : EnterFrame(kind, callee)
    BY <1>6 DEF EffectsCall, StepCall
  <2>2. /\ gas_initial' \in Nat /\ (fresh' > 0 => gas_initial' = fresh' - 1)
        /\ \/ Len(frames') > 0 /\ Last(frames').id = gas_initial'
           \/ UNCHANGED <<frames, gas_initial>>
    BY <1>1, <2>1, GasEntered
  <2> QED
    BY <2>1, <2>2, GasCaptured DEF GasInv
<1>7. CASE EffectsEnd \/ EffectsAbort \/ UNCHANGED allVars
  <2>1. /\ UNCHANGED <<frames, fresh, snapshots, gas_initial, gas_of>>
        /\ abort_flag => abort_flag'
    BY <1>7 DEF EffectsEnd, EffectsAbort, EndFrame, Abort, allVars, vars
  <2> QED
    BY <2>1 DEF GasInv, GasUsedOfOwnFrame
<1> QED
  BY <1>3, <1>4, <1>5, <1>6, <1>7 DEF EffectsNext

(* gas_used is measured from the limit of the snapshot's own frame as long *)
(* as no inner frame has run, however frames are entered, refused, undone  *)
(* and halted (inspector.rs:147).                                          *)
THEOREM GasIsOfOwnFrame == EffectsSpec => []GasUsedOfOwnFrame
<1>1. EffectsInit => GasInv
  BY GasInitially
<1>2. InspectorInv /\ FrameInv /\ GasInv /\ [EffectsNext]_allVars => GasInv'
  BY GasStep
<1>3. GasInv => GasUsedOfOwnFrame
  BY DEF GasInv
<1> QED
  BY <1>1, <1>2, <1>3, EffectsAreInspected, InspectorInvariance, FrameInvariance, PTL DEF EffectsSpec
-----------------------------------------------------------------------------
(* The logs of a checkpoint are those shown until then, but for the ones   *)
(* undone; they are what the receipt keeps if the frame is undone.         *)
PointLogs(point) ==
  /\ Ascending(point.journal.logs)
  /\ Shown(point.journal.logs) = {log \in Shown(logs) : log <= point.opcode} \ undone

LogsInv ==
  /\ logs \in Seq(Nat)
  /\ Shown(logs) \subseteq 0 .. Len(snapshots)
  /\ undone \subseteq 0 .. Len(snapshots)
  /\ \A k \in 1 .. Len(checkpoints) :
       /\ \A l \in 1 .. k : checkpoints[l].opcode <= checkpoints[k].opcode
       /\ PointLogs(checkpoints[k])
  /\ LogsAreOfReceipt

LEMMA ShownAppend ==
  ASSUME NEW seq \in Seq(Nat), NEW x \in Nat, Ascending(seq), \A y \in Shown(seq) : y < x
  PROVE  /\ Append(seq, x) \in Seq(Nat) /\ Ascending(Append(seq, x))
         /\ Shown(Append(seq, x)) = Shown(seq) \union {x}
<1> DEFINE t == Append(seq, x)
<1>1. PICK n \in Nat : n = Len(seq)
  OBVIOUS
<1>2. /\ t \in Seq(Nat) /\ Len(t) = n + 1 /\ t[n + 1] = x
      /\ \A i \in 1 .. n : t[i] = seq[i]
  BY <1>1
<1>3. \A i \in 1 .. n : seq[i] < x
  BY <1>1 DEF Shown
<1> HIDE DEF t
<1>4. Ascending(t)
  <2> SUFFICES ASSUME NEW i \in 1 .. n + 1, NEW j \in 1 .. n + 1, i < j
               PROVE  t[i] < t[j]
    BY <1>2 DEF Ascending
  <2>1. i \in 1 .. n
    BY <1>1
  <2>2. CASE j = n + 1
    BY <1>2, <1>3, <2>1, <2>2
  <2>3. CASE j \in 1 .. n
    BY <1>1, <1>2, <2>1, <2>3 DEF Ascending
  <2> QED
    BY <1>1, <2>2, <2>3
<1>5. Shown(t) = Shown(seq) \union {x}
  <2>1. ASSUME NEW y \in Shown(t) PROVE y \in Shown(seq) \union {x}
    <3>1. PICK i \in 1 .. n + 1 : y = t[i]
      BY <1>2, <2>1 DEF Shown
    <3>2. CASE i = n + 1
      BY <1>2, <3>1, <3>2
    <3>3. CASE i \in 1 .. n
      BY <1>1, <1>2, <3>1, <3>3 DEF Shown
    <3> QED
      BY <1>1, <3>2, <3>3
  <2>2. x \in Shown(t)
    <3>1. n + 1 \in 1 .. Len(t) /\ t[n + 1] = x
      BY <1>1, <1>2
    <3> QED
      BY <3>1 DEF Shown
  <2>3. ASSUME NEW y \in Shown(seq) PROVE y \in Shown(t)
    <3>1. PICK i \in 1 .. n : y = seq[i]
      BY <1>1, <2>3 DEF Shown
    <3>2. i \in 1 .. Len(t) /\ t[i] = y
      BY <1>1, <1>2, <3>1
    <3> QED
      BY <3>2 DEF Shown
  <2> QED
    BY <2>1, <2>2, <2>3
<1> QED
  BY <1>2, <1>4, <1>5 DEF t

LEMMA LogsInitially == ASSUME EffectsInit PROVE LogsInv
<1>1. /\ logs = <<>> /\ journal.logs = <<>> /\ undone = {} /\ Len(checkpoints) = 0
      /\ <<>> \in Seq(Nat) /\ Len(<<>>) = 0
  BY DEF EffectsInit
<1> QED
  BY <1>1 DEF LogsInv, LogsAreOfReceipt, Ascending, Shown

(* An opcode that neither logs nor enters or leaves a frame.               *)
LEMMA LogsIdle ==
  ASSUME LogsInv, UNCHANGED <<logs, journal.logs, checkpoints, undone>>,
         Len(snapshots) \in Nat, Len(snapshots') \in Nat, Len(snapshots') >= Len(snapshots)
  PROVE  LogsInv'
<1>1. 0 .. Len(snapshots) \subseteq 0 .. Len(snapshots')
  OBVIOUS
<1>2. \A k \in 1 .. Len(checkpoints') : PointLogs(checkpoints[k])'
  BY DEF LogsInv, PointLogs
<1>3. LogsAreOfReceipt'
  BY DEF LogsInv, LogsAreOfReceipt
<1> QED
  BY <1>1, <1>2, <1>3 DEF LogsInv

LEMMA LogsLogged ==
  ASSUME EffectsInv, LogsInv, LogFull, journal'.logs = Append(journal.logs, Opcode),
         UNCHANGED <<checkpoints, undone>>, Len(snapshots) \in Nat, Len(snapshots') = Opcode
  PROVE  LogsInv'
<1>1. PICK n \in Nat : n = Len(snapshots) /\ n + 1 = Opcode /\ n + 1 = Len(snapshots')
  BY DEF Opcode
<1>2. /\ logs \in Seq(Nat) /\ journal.logs \in Seq(Nat)
      /\ Ascending(logs) /\ Ascending(journal.logs)
      /\ Shown(logs) \subseteq 0 .. n /\ undone \subseteq 0 .. n
      /\ Shown(journal.logs) = Shown(logs) \ undone
  BY <1>1 DEF EffectsInv, EffectsType, Journals, LogsInv, LogsAreOfReceipt
<1>3. /\ logs' \in Seq(Nat) /\ Ascending(logs')
      /\ Shown(logs') = Shown(logs) \union {n + 1}
  <2>1. logs' = Append(logs, n + 1)
    BY <1>1 DEF LogFull
  <2>2. \A log \in Shown(logs) : log < n + 1
    BY <1>2
  <2> QED
    BY <1>2, <2>1, <2>2, ShownAppend
<1>4. Ascending(journal'.logs) /\ Shown(journal'.logs) = Shown(journal.logs) \union {n + 1}
  <2>1. \A log \in Shown(journal.logs) : log < n + 1
    BY <1>2
  <2> QED
    BY <1>1, <1>2, <2>1, ShownAppend
<1>5. n + 1 \notin undone
  BY <1>2
<1>6. LogsAreOfReceipt'
  BY <1>2, <1>3, <1>4, <1>5 DEF LogsAreOfReceipt
<1>7. ASSUME NEW k \in 1 .. Len(checkpoints)
      PROVE  /\ \A l \in 1 .. k : checkpoints[l].opcode <= checkpoints[k].opcode
             /\ PointLogs(checkpoints[k])'
  <2>1. checkpoints[k].opcode \in Nat /\ checkpoints[k].opcode <= n
    BY <1>1, PointFacts DEF EffectsInv, EffectsType
  <2>2. {log \in Shown(logs') : log <= checkpoints[k].opcode}
          = {log \in Shown(logs) : log <= checkpoints[k].opcode}
    BY <1>3, <2>1
  <2> QED
    BY <2>2 DEF LogsInv, PointLogs
<1>8. Shown(logs') \subseteq 0 .. n + 1 /\ undone' \subseteq 0 .. n + 1
  BY <1>2, <1>3
<1> QED
  BY <1>1, <1>3, <1>6, <1>7, <1>8 DEF LogsInv

(* A frame begins with the logs of the receipt so far.                     *)
LEMMA LogsEnter ==
  ASSUME EffectsInv, LogsInv, NEW opcode \in Nat, Checkpoint(opcode),
         opcode >= Len(snapshots), UNCHANGED <<logs, journal, undone>>,
         Len(snapshots) \in Nat, Len(snapshots') \in Nat, Len(snapshots') >= Len(snapshots)
  PROVE  LogsInv'
<1> DEFINE point == [opcode |-> opcode, journal |-> journal]
<1>1. CASE UNCHANGED checkpoints
  BY <1>1, LogsIdle
<1>2. CASE checkpoints' = Append(checkpoints, point)
  <2>1. PICK n \in Nat : n = Len(checkpoints)
    BY PointFacts
  <2>2. point \in Points /\ point.opcode = opcode /\ point.journal = journal
    BY DEF Points, EffectsInv, EffectsType
  <2> HIDE DEF point
  <2>3. /\ Len(checkpoints') = n + 1 /\ checkpoints'[n + 1] = point
        /\ \A k \in 1 .. n : checkpoints'[k] = checkpoints[k]
    BY <1>2, <2>1, <2>2, PointFacts
  <2>4. \A k \in 1 .. n : checkpoints[k].opcode <= opcode
    <3>1. \A k \in 1 .. n : checkpoints[k].opcode \in Nat /\ checkpoints[k].opcode <= Len(snapshots)
      BY <2>1, PointFacts DEF EffectsInv, EffectsType
    <3> QED
      BY <3>1
  <2>5. PointLogs(point)
    <3>1. {log \in Shown(logs) : log <= opcode} = Shown(logs)
      BY DEF LogsInv
    <3> QED
      BY <2>2, <3>1 DEF PointLogs, LogsInv, LogsAreOfReceipt
  <2>6. ASSUME NEW k \in 1 .. n + 1
        PROVE  /\ \A l \in 1 .. k : checkpoints'[l].opcode <= checkpoints'[k].opcode
               /\ PointLogs(checkpoints[k])'
    <3>1. CASE k = n + 1
      <4>1. \A l \in 1 .. k : l \in 1 .. n \/ l = n + 1
        BY <2>1, <3>1
      <4> QED
        BY <2>2, <2>3, <2>4, <2>5, <3>1, <4>1 DEF PointLogs
    <3>2. CASE k \in 1 .. n
      <4>1. /\ \A l \in 1 .. k : checkpoints[l].opcode <= checkpoints[k].opcode
            /\ PointLogs(checkpoints[k])
        BY <2>1, <3>2 DEF LogsInv
      <4>2. \A l \in 1 .. k : l \in 1 .. n
        BY <2>1, <3>2
      <4> QED
        BY <2>3, <3>2, <4>1, <4>2 DEF PointLogs
    <3> QED
      BY <2>1, <3>1, <3>2
  <2>7. 0 .. Len(snapshots) \subseteq 0 .. Len(snapshots')
    OBVIOUS
  <2> QED
    BY <2>3, <2>6, <2>7 DEF LogsInv, LogsAreOfReceipt
<1> QED
  BY <1>1, <1>2 DEF Checkpoint

(* A frame ends, with its logs in the receipt or without them.             *)
LEMMA LogsLeave ==
  ASSUME EffectsInv, LogsInv, Len(checkpoints) > 0, UNCHANGED logs,
         Len(snapshots) \in Nat, Len(snapshots') \in Nat, Len(snapshots') >= Len(snapshots),
         Commit \/ (Undo /\ Len(snapshots') = Opcode)
  PROVE  LogsInv'
<1>1. PICK n \in Nat : n + 1 = Len(checkpoints)
  <2>1. Len(checkpoints) - 1 \in Nat /\ Len(checkpoints) - 1 + 1 = Len(checkpoints)
    BY PointFacts
  <2> QED
    BY <2>1
<1>2. /\ Len(checkpoints') = n
      /\ \A k \in 1 .. n : checkpoints'[k] = checkpoints[k] /\ k \in 1 .. Len(checkpoints)
  <2>1. checkpoints' = Pop(checkpoints)
    BY DEF Commit, Undo
  <2>2. /\ Len(Pop(checkpoints)) = Len(checkpoints) - 1
        /\ \A k \in 1 .. Len(checkpoints) - 1 : Pop(checkpoints)[k] = checkpoints[k]
    BY PointFacts, PopProperties
  <2> QED
    BY <1>1, <2>1, <2>2
<1>3. ASSUME NEW k \in 1 .. n
      PROVE  /\ \A l \in 1 .. k : checkpoints[l].opcode <= checkpoints[k].opcode
             /\ PointLogs(checkpoints[k])
  BY <1>2, <1>3 DEF LogsInv
<1>4. CASE Commit
  <2>1. 0 .. Len(snapshots) \subseteq 0 .. Len(snapshots')
    OBVIOUS
  <2>2. ASSUME NEW k \in 1 .. n
        PROVE  /\ \A l \in 1 .. k : checkpoints'[l].opcode <= checkpoints'[k].opcode
               /\ PointLogs(checkpoints[k])'
    <3>1. \A l \in 1 .. k : l \in 1 .. n
      BY <1>1
    <3> QED
      BY <1>2, <1>3, <1>4, <3>1 DEF Commit, PointLogs
  <2> QED
    BY <1>2, <1>4, <2>1, <2>2 DEF Commit, LogsInv, LogsAreOfReceipt
<1>5. CASE Undo /\ Len(snapshots') = Opcode
  <2> DEFINE point == Last(checkpoints)
             gone == point.opcode + 1 .. Opcode
  <2>1. /\ point = checkpoints[n + 1] /\ n + 1 \in 1 .. Len(checkpoints)
        /\ point.opcode \in Nat /\ point.opcode <= Len(snapshots)
        /\ PointLogs(point)
        /\ \A l \in 1 .. n + 1 : checkpoints[l].opcode <= point.opcode
    BY <1>1, PointFacts DEF Last, EffectsInv, EffectsType, LogsInv
  <2>2. /\ journal' = point.journal /\ undone' = undone \union gone
        /\ Opcode \in Nat /\ Opcode = Len(snapshots) + 1
    BY <1>5 DEF Undo, Opcode
  <2>3. Shown(logs) \subseteq 0 .. Len(snapshots) /\ undone \subseteq 0 .. Len(snapshots)
    BY DEF LogsInv
  <2> HIDE DEF point
  <2>4. ASSUME NEW o \in Nat, o <= point.opcode
        PROVE  {log \in Shown(logs) : log <= o} \ undone
                 = {log \in Shown(logs) : log <= o} \ undone'
    BY <2>1, <2>2, <2>3, <2>4
  <2>5. {log \in Shown(logs) : log <= point.opcode} \ undone = Shown(logs) \ undone'
    BY <2>1, <2>2, <2>3
  <2>6. LogsAreOfReceipt'
    BY <2>1, <2>2, <2>5 DEF PointLogs, LogsInv, LogsAreOfReceipt
  <2>7. Shown(logs) \subseteq 0 .. Len(snapshots') /\ undone' \subseteq 0 .. Len(snapshots')
    <3>1. 0 .. Len(snapshots) \subseteq 0 .. Len(snapshots')
      OBVIOUS
    <3>2. gone \subseteq 0 .. Len(snapshots')
      BY <1>5, <2>1, <2>2
    <3> QED
      BY <2>2, <2>3, <3>1, <3>2
  <2>8. ASSUME NEW k \in 1 .. n
        PROVE  /\ \A l \in 1 .. k : checkpoints'[l].opcode <= checkpoints'[k].opcode
               /\ PointLogs(checkpoints[k])'
    <3>1. \A l \in 1 .. k : l \in 1 .. n
      BY <1>1
    <3>2. checkpoints[k].opcode \in Nat /\ checkpoints[k].opcode <= point.opcode
      BY <1>1, <1>2, <2>1, PointFacts
    <3>3. PointLogs(checkpoints[k])'
      BY <1>2, <1>3, <2>4, <3>2 DEF PointLogs
    <3> QED
      BY <1>2, <1>3, <3>1, <3>3
  <2> QED
    BY <1>2, <2>6, <2>7, <2>8 DEF LogsInv
<1> QED
  BY <1>4, <1>5

LEMMA LogsStep ==
  ASSUME InspectorInv, EffectsInv, LogsInv, [EffectsNext]_allVars
  PROVE  LogsInv'
<1> USE DEF effectVars, historyVars
<1>1. /\ Len(snapshots) \in Nat /\ Len(snapshots) + 1 \in Nat
      /\ Len(checkpoints) = Len(frames)
  BY DEF InspectorInv, TypeOK, EffectsInv, EffectsType
<1>2. ASSUME Capture
      PROVE  /\ Len(checkpoints) > 0
             /\ Len(snapshots') = Opcode /\ Opcode \in Nat /\ Opcode >= Len(snapshots)
  BY <1>1, <1>2 DEF Capture, InspectorInv, TypeOK, MirrorInv, Opcode
<1>3. CASE EffectsStart
  BY <1>1, <1>3, LogsEnter DEF EffectsStart, Start, Before
<1>4. CASE EffectsAborted
  <2>1. Len(checkpoints) > 0
    BY <1>1, <1>4 DEF EffectsAborted, StepAborted, InspectorInv, MirrorInv
  <2> QED
    BY <1>1, <1>4, <2>1, LogsLeave DEF EffectsAborted, StepAborted
<1>5. CASE EffectsPlain
  BY <1>1, <1>2, <1>5, LogsIdle DEF EffectsPlain, StepPlain
<1>6. CASE EffectsStore
  <2>1. journal'.logs = journal.logs
    BY <1>6 DEF EffectsStore, EffectsInv, EffectsType, Journals
  <2> QED
    BY <1>1, <1>2, <1>6, <2>1, LogsIdle DEF EffectsStore, StepStore
<1>7. CASE EffectsStoreFails
  BY <1>1, <1>2, <1>7, LogsLeave DEF EffectsStoreFails, StepStoreFails
<1>8. CASE EffectsLog
  <2>1. journal'.logs = Append(journal.logs, Opcode)
    BY <1>8 DEF EffectsLog, EffectsInv, EffectsType, Journals
  <2> QED
    BY <1>1, <1>2, <1>8, <2>1, LogsLogged DEF EffectsLog, StepPlain
<1>9. CASE EffectsCall
  <2>1. Capture
    BY <1>9 DEF EffectsCall, StepCall
  <2> QED
    BY <1>1, <1>2, <1>9, <2>1, LogsEnter DEF EffectsCall
<1>10. CASE EffectsLast
  BY <1>1, <1>2, <1>10, LogsLeave DEF EffectsLast, StepLast
<1>11. CASE EffectsEnd \/ EffectsAbort \/ UNCHANGED allVars
  <2>1. UNCHANGED <<snapshots, logs, journal, checkpoints, undone>>
    BY <1>11 DEF EffectsEnd, EffectsAbort, EndFrame, Abort, allVars, vars
  <2> QED
    BY <1>1, <2>1, LogsIdle
<1> QED
  BY <1>3, <1>4, <1>5, <1>6, <1>7, <1>8, <1>9, <1>10, <1>11 DEF EffectsNext

(* The logs shown are those of the receipt and of frames that were undone, *)
(* each once and in order, whatever is called, reverted, refused, halted   *)
(* (inspector.rs:230).                                                     *)
THEOREM LogsAreRight == EffectsSpec => []LogsAreOfReceipt
<1>1. EffectsInit => LogsInv
  BY LogsInitially
<1>2. InspectorInv /\ EffectsInv /\ LogsInv /\ [EffectsNext]_allVars => LogsInv'
  BY LogsStep
<1>3. LogsInv => LogsAreOfReceipt
  BY DEF LogsInv
<1> QED
  BY <1>1, <1>2, <1>3, EffectsInvariance, EffectsAreInspected, InspectorInvariance, PTL DEF EffectsSpec
=============================================================================
