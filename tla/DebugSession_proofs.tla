------------------------- MODULE DebugSession_proofs -------------------------
(***************************************************************************)
(* The safety of a debug session, for every set of sessions, every         *)
(* transaction and every mixture of faults.                                *)
(***************************************************************************)
EXTENDS DebugSession, Navigation_proofs, SequenceTheorems

-----------------------------------------------------------------------------
(* What the EVM thread has recorded is a trace of steps[s] snapshots.      *)
LEMMA RecordedType ==
  ASSUME TypeOK, NEW s \in Sessions
  PROVE  /\ Recorded(s) \in Traces
         /\ Len(Recorded(s)) = steps[s]
         /\ steps[s] = 0 => Recorded(s) = <<>>
<1> DEFINE full == FullTrace[tx[s]]
<1>1. full \in Seq(Nat) /\ Len(full) \in Nat
  BY ReplayAssumption DEF ReplayAssumption, TypeOK, Traces
<1>2. steps[s] \in Nat /\ steps[s] <= Len(full)
  BY DEF TypeOK
<1> HIDE DEF full
<1>3. /\ SubSeq(full, 1, steps[s]) \in Seq(Nat)
      /\ Len(SubSeq(full, 1, steps[s])) = steps[s]
  <2>1. \A i \in 1 .. steps[s] : full[i] \in Nat
    BY <1>1, <1>2
  <2> QED
    BY <1>1, <1>2, <2>1
<1> QED
  BY <1>3 DEF full, Recorded, Traces

(* The records of the cache have the shape of a ready session's data.      *)
LEMMA RecordingsType ==
  ASSUME NEW t \in Txs, NEW file \in Recordings(t)
  PROVE  /\ file.snapshots \in Traces
         /\ file.result \in Results
<1> DEFINE full == FullTrace[t]
           Cut(n, result) == [snapshots |-> SubSeq(full, 1, n), result |-> result]
<1>1. full \in Seq(Nat) /\ Len(full) \in Nat /\ Outcome[t] \in Results
  BY ReplayAssumption DEF ReplayAssumption, Traces, Results
<1>2. \/ \E n \in 1 .. Len(full) : file = Cut(n, "none")
      \/ \E n \in 0 .. Len(full) - 1 : file = Cut(n, "success")
      \/ file = Cut(Len(full), Outcome[t])
  BY DEF Recordings
<1> HIDE DEF full
<1>3. \A n \in 0 .. Len(full) : SubSeq(full, 1, n) \in Seq(Nat)
  BY <1>1
<1>4. CASE \E n \in 1 .. Len(full) : file = Cut(n, "none")
  BY <1>1, <1>3, <1>4 DEF Traces, Results
<1>5. CASE \E n \in 0 .. Len(full) - 1 : file = Cut(n, "success")
  BY <1>1, <1>3, <1>5 DEF Traces, Results
<1>6. CASE file = Cut(Len(full), Outcome[t])
  BY <1>1, <1>3, <1>6 DEF Traces
<1> QED
  BY <1>2, <1>4, <1>5, <1>6

(* A recording is no longer than the transaction, and an empty one has a   *)
(* result.                                                                 *)
LEMMA RecordingsLengths ==
  ASSUME NEW t \in Txs, NEW file \in Recordings(t)
  PROVE  /\ Len(file.snapshots) \in 0 .. Len(FullTrace[t])
         /\ Len(file.snapshots) = 0 => file.result # "none"
<1> DEFINE full == FullTrace[t]
           Cut(n, result) == [snapshots |-> SubSeq(full, 1, n), result |-> result]
<1>1. full \in Seq(Nat) /\ Len(full) \in Nat /\ Outcome[t] \in {"success", "failure"}
  BY ReplayAssumption DEF ReplayAssumption, Traces
<1>2. \/ \E n \in 1 .. Len(full) : file = Cut(n, "none")
      \/ \E n \in 0 .. Len(full) - 1 : file = Cut(n, "success")
      \/ file = Cut(Len(full), Outcome[t])
  BY DEF Recordings
<1> HIDE DEF full
<1>3. \A n \in 0 .. Len(full) : Len(SubSeq(full, 1, n)) = n
  BY <1>1
<1>4. CASE \E n \in 1 .. Len(full) : file = Cut(n, "none")
  BY <1>1, <1>3, <1>4 DEF full
<1>5. CASE \E n \in 0 .. Len(full) - 1 : file = Cut(n, "success")
  BY <1>1, <1>3, <1>5 DEF full
<1>6. CASE file = Cut(Len(full), Outcome[t])
  BY <1>1, <1>3, <1>6 DEF full
<1> QED
  BY <1>2, <1>4, <1>5, <1>6

LEMMA BareType == ASSUME NEW phase \in Phases PROVE Bare(phase) \in Records
BY DEF Bare, Records, Traces, Results

LEMMA ReadyType ==
  ASSUME NEW t \in Traces, NEW r \in Results
  PROVE  Ready(t, r) \in Records /\ Ready(t, r).index <= Len(Ready(t, r).snapshots)
BY DEF Ready, Records, Phases, Traces

LEMMA MessageTypes ==
  /\ NoMessage \in Messages
  /\ ErrorMessage \in Messages
  /\ \A t \in Traces, r \in Results : AllSnapshots(t, r) \in Messages
BY DEF NoMessage, ErrorMessage, AllSnapshots, Messages, Traces, Results

-----------------------------------------------------------------------------
LEMMA TypeInit == ASSUME Init PROVE TypeOK
<1>1. Bare("absent") \in Records /\ NoMessage \in Messages
  BY BareType, MessageTypes DEF Phases
<1>2. \A s \in Sessions : Len(FullTrace[tx[s]]) \in Nat
  BY ReplayAssumption DEF Init, ReplayAssumption, Traces
<1> QED
  BY <1>1, <1>2 DEF Init, TypeOK, Bare

(* The actions that put a new record in a session.                         *)
LEMMA TypeOfData ==
  ASSUME TypeOK, NEW s \in Sessions, NEW r \in Records,
         r.index <= Len(r.snapshots), data' = [data EXCEPT ![s] = r]
  PROVE  /\ data' \in [Sessions -> Records]
         /\ \A q \in Sessions : data'[q].index <= Len(data'[q].snapshots)
BY DEF TypeOK

LEMMA TypeEvmSends ==
  ASSUME TypeOK, NEW s \in Sessions, NEW m \in Messages, EvmSends(s, m)
  PROVE  TypeOK'
BY DEF TypeOK, EvmSends, sessionVars

LEMMA TypeWait ==
  ASSUME TypeOK, NEW s \in Sessions, WaitForSnapshots(s)
  PROVE  TypeOK'
<1>1. Received(s) \in Messages
  BY MessageTypes DEF Received, TypeOK
<1>2. /\ Bare("error") \in Records
      /\ Ready(Received(s).snapshots, Received(s).result) \in Records
      /\ Bare("error").index <= Len(Bare("error").snapshots)
      /\ Ready(Received(s).snapshots, Received(s).result).index
           <= Len(Ready(Received(s).snapshots, Received(s).result).snapshots)
  <2>1. Received(s).snapshots \in Traces /\ Received(s).result \in Results
    BY <1>1 DEF Messages
  <2> QED
    BY <2>1, BareType, ReadyType DEF Phases, Bare
<1>3. PICK r \in Records : r.index <= Len(r.snapshots) /\ data' = [data EXCEPT ![s] = r]
  <2>1. data[s] \in Records /\ data[s].index <= Len(data[s].snapshots)
    BY DEF TypeOK
  <2>2. data' = [data EXCEPT ![s] = data[s]]
        \/ data' = [data EXCEPT ![s] = Bare("error")]
        \/ data' = [data EXCEPT ![s] = Ready(Received(s).snapshots, Received(s).result)]
    BY DEF WaitForSnapshots, TypeOK
  <2> QED
    BY <1>2, <2>1, <2>2
<1>4. /\ data' \in [Sessions -> Records]
      /\ \A q \in Sessions : data'[q].index <= Len(data'[q].snapshots)
  BY <1>3, TypeOfData
<1> QED
  BY <1>4, MessageTypes DEF TypeOK, WaitForSnapshots

LEMMA TypeMove ==
  ASSUME TypeOK, NEW s \in Sessions,
         NEW index \in 0 .. Len(data[s].snapshots), MoveTo(s, index)
  PROVE  TypeOK'
<1>1. /\ [data[s] EXCEPT !.index = index] \in Records
      /\ [data[s] EXCEPT !.index = index].index
           <= Len([data[s] EXCEPT !.index = index].snapshots)
  <2>1. data[s] \in Records
    BY DEF TypeOK
  <2>2. index \in Nat /\ index <= Len(data[s].snapshots)
    BY <2>1 DEF Records, Traces
  <2> QED
    BY <2>1, <2>2 DEF Records
<1>2. data' = [data EXCEPT ![s] = [data[s] EXCEPT !.index = index]]
  BY DEF MoveTo, TypeOK
<1>3. /\ data' \in [Sessions -> Records]
      /\ \A q \in Sessions : data'[q].index <= Len(data'[q].snapshots)
  BY <1>1, <1>2, TypeOfData
<1> QED
  BY <1>3 DEF TypeOK, MoveTo

(* The three commands are moves to an index of the trace, not before the   *)
(* present one.                                                            *)
LEMMA CommandIsMove ==
  ASSUME TypeOK, NEW s \in Sessions, Command(s)
  PROVE  \E index \in data[s].index .. Len(data[s].snapshots) :
           index \in 0 .. Len(data[s].snapshots) /\ MoveTo(s, index)
<1>1. data[s].snapshots \in Traces /\ data[s].index \in 0 .. Len(data[s].snapshots)
  BY DEF TypeOK, Records, Traces
<1>2. /\ StepIntoIndex(data[s].snapshots, data[s].index)
           \in data[s].index .. Len(data[s].snapshots)
      /\ StepOverIndex(data[s].snapshots, data[s].index)
           \in data[s].index .. Len(data[s].snapshots)
      /\ ContinueIndex(data[s].snapshots, data[s].index)
           \in data[s].index .. Len(data[s].snapshots)
  BY <1>1, CommandsMoveForward
<1>3. \A index \in data[s].index .. Len(data[s].snapshots) :
        index \in 0 .. Len(data[s].snapshots)
  BY <1>1 DEF Traces
<1> QED
  BY <1>2, <1>3 DEF Command, StepInto, StepOver, Continue

LEMMA TypeNext == ASSUME TypeOK, [Next]_vars PROVE TypeOK'
<1>1. ASSUME NEW s \in Sessions, New(s)
      PROVE  TypeOK'
  <2>1. Bare("loading") \in Records /\ Bare("loading").index <= Len(Bare("loading").snapshots)
    BY BareType DEF Phases, Bare
  <2>2. /\ data' \in [Sessions -> Records]
        /\ \A q \in Sessions : data'[q].index <= Len(data'[q].snapshots)
    BY <1>1, <2>1, TypeOfData DEF New
  <2> QED
    BY <1>1, <2>2 DEF TypeOK, New
<1>2. ASSUME NEW s \in Sessions, NEW file \in Recordings(tx[s]), FromCache(s, file)
      PROVE  TypeOK'
  <2>1. tx[s] \in Txs
    BY DEF TypeOK
  <2>2. /\ Ready(file.snapshots, file.result) \in Records
        /\ Ready(file.snapshots, file.result).index
             <= Len(Ready(file.snapshots, file.result).snapshots)
    BY <2>1, RecordingsType, ReadyType
  <2>3. /\ data' \in [Sessions -> Records]
        /\ \A q \in Sessions : data'[q].index <= Len(data'[q].snapshots)
    BY <1>2, <2>2, TypeOfData DEF FromCache
  <2> QED
    BY <1>2, <2>3 DEF TypeOK, FromCache
<1>3. ASSUME NEW s \in Sessions, Spawn(s)
      PROVE  TypeOK'
  BY <1>3 DEF TypeOK, Spawn
<1>4. ASSUME NEW s \in Sessions, EvmRuns(s)
      PROVE  TypeOK'
  <2>1. Recorded(s) \in Traces
    BY RecordedType
  <2>2. "success" \in Results /\ Outcome[tx[s]] \in Results
    BY ReplayAssumption DEF ReplayAssumption, TypeOK, Results
  <2>3. CASE EvmStep(s)
    <3>1. Len(FullTrace[tx[s]]) \in Nat
      BY ReplayAssumption DEF ReplayAssumption, TypeOK, Traces
    <3> QED
      BY <2>3, <3>1 DEF TypeOK, EvmStep, sessionVars
  <2>4. CASE EvmHalt(s)
    BY <2>1, <2>2, <2>4, MessageTypes, TypeEvmSends DEF EvmHalt
  <2>5. CASE EvmComplete(s)
    BY <2>1, <2>2, <2>5, MessageTypes, TypeEvmSends DEF EvmComplete
  <2> QED
    BY <1>4, <2>3, <2>4, <2>5 DEF EvmRuns
<1>5. ASSUME NEW s \in Sessions, EvmBreaks(s)
      PROVE  TypeOK'
  <2>1. Recorded(s) \in Traces /\ "none" \in Results
    BY RecordedType DEF Results
  <2>2. CASE ReplayFails(s)
    BY <2>1, <2>2, MessageTypes, TypeEvmSends DEF ReplayFails
  <2>3. CASE ReplayPanics(s)
    BY <2>3, MessageTypes, TypeEvmSends DEF ReplayPanics
  <2>4. CASE ReplayHangs(s)
    BY <2>4 DEF TypeOK, ReplayHangs, sessionVars
  <2> QED
    BY <1>5, <2>2, <2>3, <2>4 DEF EvmBreaks
<1>6. ASSUME NEW s \in Sessions, WaitForSnapshots(s)
      PROVE  TypeOK'
  BY <1>6, TypeWait
<1>7. ASSUME NEW s \in Sessions, Command(s)
      PROVE  TypeOK'
  BY <1>7, CommandIsMove, TypeMove
<1>8. ASSUME NEW s \in Sessions, AbortSignal(s)
      PROVE  TypeOK'
  BY <1>8 DEF TypeOK, AbortSignal
<1>9. ASSUME NEW s \in Sessions, AbortMark(s)
      PROVE  TypeOK'
  <2>1. Bare("aborted") \in Records /\ Bare("aborted").index <= Len(Bare("aborted").snapshots)
    BY BareType DEF Phases, Bare
  <2>2. /\ data' \in [Sessions -> Records]
        /\ \A q \in Sessions : data'[q].index <= Len(data'[q].snapshots)
    BY <1>9, <2>1, TypeOfData DEF AbortMark
  <2> QED
    BY <1>9, <2>2 DEF TypeOK, AbortMark
<1>10. CASE Restart
  <2>1. Bare("gone") \in Records /\ Bare("gone").index <= Len(Bare("gone").snapshots)
    BY BareType DEF Phases, Bare
  <2>2. /\ data' \in [Sessions -> Records]
        /\ \A q \in Sessions : data'[q].index <= Len(data'[q].snapshots)
    BY <1>10, <2>1 DEF TypeOK, Restart
  <2>3. \A q \in Sessions : Len(FullTrace[tx[q]]) \in Nat
    BY ReplayAssumption DEF ReplayAssumption, TypeOK, Traces
  <2> QED
    BY <1>10, <2>2, <2>3, MessageTypes DEF TypeOK, Restart
<1>11. CASE UNCHANGED vars
  BY <1>11 DEF TypeOK, vars
<1> QED
  BY <1>1, <1>2, <1>3, <1>4, <1>5, <1>6, <1>7, <1>8, <1>9, <1>10, <1>11 DEF Next

(* Types, and the cursor of every session stays in reach of its trace.     *)
THEOREM TypeCorrect == SafeSpec => []TypeOK
<1>1. Init => TypeOK
  BY TypeInit
<1>2. TypeOK /\ [Next]_vars => TypeOK'
  BY TypeNext
<1> QED
  BY <1>1, <1>2, PTL DEF SafeSpec

-----------------------------------------------------------------------------
(* The invariant, session by session.                                      *)
Safe(s) == StageOf(s) /\ ShowsGenuine(s) /\ HoldsAbort(s)

(* A step that leaves everything of a session alone leaves it safe.        *)
LEMMA Untouched ==
  ASSUME NEW q \in Sessions, Safe(q),
         tx' = tx, data'[q] = data[q], waiting'[q] = waiting[q],
         channel'[q] = channel[q], abortFlag'[q] = abortFlag[q],
         aborting'[q] = aborting[q], evm'[q] = evm[q], steps'[q] = steps[q]
  PROVE  Safe(q)'
BY DEF Safe, StageOf, ShowsGenuine, HoldsAbort, Exists, Genuine, Recorded

(* What is received is what the EVM thread sent.                           *)
LEMMA ReceivedIsGenuine ==
  ASSUME NEW s \in Sessions, TypeOK, Safe(s)
  PROVE  /\ Received(s).kind \in {"error", "snapshots"}
         /\ Received(s).kind = "snapshots" =>
              Genuine(s, Received(s).snapshots, Received(s).result)
<1>1. channel[s] \in Messages
  BY DEF TypeOK
<1>2. CASE channel[s] = NoMessage
  BY <1>2 DEF Received, ErrorMessage
<1>3. CASE channel[s] # NoMessage
  BY <1>1, <1>3 DEF Received, Safe, StageOf, Messages
<1> QED
  BY <1>2, <1>3

LEMMA SafeWait ==
  ASSUME TypeOK, NEW s \in Sessions, Safe(s), WaitForSnapshots(s)
  PROVE  Safe(s)'
<1>1. /\ Received(s).kind \in {"error", "snapshots"}
      /\ Received(s).kind = "snapshots" =>
           Genuine(s, Received(s).snapshots, Received(s).result)
  BY ReceivedIsGenuine
<1>2. /\ waiting'[s] = FALSE /\ channel'[s] = NoMessage
      /\ tx' = tx /\ steps'[s] = steps[s] /\ evm'[s] = "exited" /\ evm[s] = "exited"
      /\ abortFlag'[s] = abortFlag[s] /\ aborting'[s] = aborting[s]
      /\ data[s].phase \in {"loading", "aborted"}
  BY DEF WaitForSnapshots, TypeOK, Safe, StageOf
<1>3. CASE data[s].phase = "aborted"
  <2>1. data'[s] = data[s]
    BY <1>3 DEF WaitForSnapshots, TypeOK
  <2> QED
    BY <1>2, <1>3, <2>1
       DEF Safe, StageOf, ShowsGenuine, HoldsAbort, Exists, NoMessage, Bare
<1>4. CASE data[s].phase # "aborted" /\ Received(s).kind = "error"
  <2>1. data'[s] = Bare("error")
    BY <1>4 DEF WaitForSnapshots, TypeOK
  <2> QED
    BY <1>2, <1>4, <2>1
       DEF Safe, StageOf, ShowsGenuine, HoldsAbort, Exists, NoMessage, Bare
<1>5. CASE data[s].phase # "aborted" /\ Received(s).kind = "snapshots"
  <2>1. data'[s] = Ready(Received(s).snapshots, Received(s).result)
    BY <1>5 DEF WaitForSnapshots, TypeOK
  <2>2. Genuine(s, data[s].snapshots, data[s].result)'
    BY <1>1, <1>2, <1>5, <2>1 DEF Genuine, Recorded, Ready
  <2>3. abortFlag[s] => aborting[s]
    BY <1>5 DEF Safe, HoldsAbort
  <2> QED
    BY <1>2, <1>5, <2>1, <2>2, <2>3
       DEF Safe, StageOf, ShowsGenuine, HoldsAbort, Exists, NoMessage, Ready
<1> QED
  BY <1>1, <1>3, <1>4, <1>5

(* What the EVM thread sends when it ends.                                 *)
LEMMA SafeEvmSends ==
  ASSUME TypeOK, NEW s \in Sessions, Safe(s), evm[s] = "running",
         NEW m \in Messages, EvmSends(s, m),
         m.kind = "empty" => m = NoMessage,
         m.kind = "snapshots" => Genuine(s, m.snapshots, m.result)
  PROVE  Safe(s)'
<1>1. /\ channel'[s] = m /\ evm'[s] = "exited" /\ waiting[s]
      /\ data'[s] = data[s] /\ waiting'[s] = waiting[s] /\ tx' = tx
      /\ abortFlag'[s] = abortFlag[s] /\ aborting'[s] = aborting[s]
      /\ steps'[s] = steps[s]
  BY DEF EvmSends, TypeOK, sessionVars, Safe, StageOf
<1>2. m.kind = "snapshots" => Genuine(s, channel[s].snapshots, channel[s].result)'
  BY <1>1 DEF Genuine, Recorded
<1> QED
  BY <1>1, <1>2 DEF Safe, StageOf, ShowsGenuine, HoldsAbort, Exists, Bare

LEMMA SafeEvm ==
  ASSUME TypeOK, NEW s \in Sessions, Safe(s),
         EvmRuns(s) \/ EvmBreaks(s)
  PROVE  Safe(s)'
<1> DEFINE full == FullTrace[tx[s]]
<1>1. /\ Recorded(s) \in Traces
      /\ steps[s] \in Nat /\ Len(full) \in Nat /\ steps[s] <= Len(full)
      /\ Outcome[tx[s]] \in {"success", "failure"}
  BY RecordedType, ReplayAssumption DEF TypeOK, ReplayAssumption, Traces
<1>2. CASE EvmStep(s)
  BY <1>2 DEF EvmStep, TypeOK, sessionVars,
              Safe, StageOf, ShowsGenuine, HoldsAbort, Exists, Bare, NoMessage
<1>3. CASE EvmHalt(s)
  <2>1. AllSnapshots(Recorded(s), "success") \in Messages
    BY <1>1, MessageTypes DEF Results
  <2>2. Genuine(s, Recorded(s), "success")
    BY <1>1, <1>3 DEF EvmHalt, Genuine
  <2> QED
    BY <1>3, <2>1, <2>2, SafeEvmSends DEF EvmHalt, AllSnapshots
<1>4. CASE EvmComplete(s)
  <2>1. AllSnapshots(Recorded(s), Outcome[tx[s]]) \in Messages
    BY <1>1, MessageTypes DEF Results
  <2>2. Genuine(s, Recorded(s), Outcome[tx[s]])
    BY <1>1, <1>4 DEF EvmComplete, Genuine
  <2> QED
    BY <1>4, <2>1, <2>2, SafeEvmSends DEF EvmComplete, AllSnapshots
<1>5. CASE ReplayFails(s) /\ steps[s] = 0
  BY <1>5, MessageTypes, SafeEvmSends DEF ReplayFails, ErrorMessage
<1>6. CASE ReplayFails(s) /\ steps[s] # 0
  <2>1. AllSnapshots(Recorded(s), "none") \in Messages
    BY <1>1, MessageTypes DEF Results
  <2>2. Genuine(s, Recorded(s), "none")
    BY <1>1, <1>6 DEF ReplayFails, Genuine
  <2> QED
    BY <1>6, <2>1, <2>2, SafeEvmSends DEF ReplayFails, AllSnapshots
<1>7. CASE ReplayPanics(s)
  BY <1>7, MessageTypes, SafeEvmSends DEF ReplayPanics, NoMessage
<1>8. CASE ReplayHangs(s)
  BY <1>8 DEF ReplayHangs, TypeOK, sessionVars,
              Safe, StageOf, ShowsGenuine, HoldsAbort, Exists, Bare, Genuine, Recorded
<1> QED
  BY <1>2, <1>3, <1>4, <1>5, <1>6, <1>7, <1>8 DEF EvmRuns, EvmBreaks

LEMMA SafeAbort ==
  ASSUME TypeOK, NEW s \in Sessions, Safe(s), AbortSignal(s) \/ AbortMark(s)
  PROVE  Safe(s)'
<1>1. CASE AbortSignal(s)
  <2>1. /\ data'[s] = data[s] /\ waiting'[s] = waiting[s] /\ tx' = tx
        /\ channel'[s] = channel[s] /\ evm'[s] = evm[s] /\ steps'[s] = steps[s]
        /\ abortFlag'[s] = TRUE /\ aborting'[s] = TRUE /\ Exists(s)
    BY <1>1 DEF AbortSignal, TypeOK
  <2> QED
    BY <2>1 DEF Safe, StageOf, ShowsGenuine, HoldsAbort, Exists, Bare, Genuine, Recorded
<1>2. CASE AbortMark(s)
  <2>1. /\ data'[s] = Bare("aborted") /\ waiting'[s] = waiting[s] /\ tx' = tx
        /\ channel'[s] = channel[s] /\ evm'[s] = evm[s] /\ steps'[s] = steps[s]
        /\ abortFlag'[s] = abortFlag[s] /\ aborting'[s] = FALSE /\ aborting[s]
    BY <1>2 DEF AbortMark, TypeOK
  <2>2. Genuine(s, channel[s].snapshots, channel[s].result) =>
          Genuine(s, channel[s].snapshots, channel[s].result)'
    BY <2>1 DEF Genuine, Recorded
  <2> QED
    BY <2>1, <2>2 DEF Safe, StageOf, ShowsGenuine, HoldsAbort, Exists, Bare
<1> QED
  BY <1>1, <1>2

LEMMA SafeMove ==
  ASSUME TypeOK, NEW s \in Sessions, Safe(s), NEW index \in Nat, MoveTo(s, index)
  PROVE  Safe(s)'
<1>1. /\ data[s] \in Records /\ data[s].phase = "ready"
      /\ data'[s] = [data[s] EXCEPT !.index = index]
      /\ waiting'[s] = waiting[s] /\ tx' = tx
      /\ channel'[s] = channel[s] /\ evm'[s] = evm[s] /\ steps'[s] = steps[s]
      /\ abortFlag'[s] = abortFlag[s] /\ aborting'[s] = aborting[s]
  BY DEF MoveTo, TypeOK
<1>2. /\ data'[s].phase = "ready" /\ data'[s].snapshots = data[s].snapshots
      /\ data'[s].result = data[s].result
  BY <1>1 DEF Records
<1> QED
  BY <1>1, <1>2 DEF Safe, StageOf, ShowsGenuine, HoldsAbort, Exists, Genuine, Recorded

(* An action of a session keeps that session safe ...                      *)
LEMMA SafeActor ==
  ASSUME TypeOK, NEW s \in Sessions, Safe(s),
         \/ New(s)
         \/ \E file \in Recordings(tx[s]) : FromCache(s, file)
         \/ Spawn(s) \/ EvmRuns(s) \/ EvmBreaks(s)
         \/ WaitForSnapshots(s) \/ Command(s)
         \/ AbortSignal(s) \/ AbortMark(s)
  PROVE  Safe(s)'
<1>1. CASE New(s)
  BY <1>1 DEF New, TypeOK, Safe, StageOf, ShowsGenuine, HoldsAbort, Exists, Bare,
              Genuine, Recorded
<1>2. CASE \E file \in Recordings(tx[s]) : FromCache(s, file)
  BY <1>2 DEF FromCache, Ready, TypeOK, Safe, StageOf, ShowsGenuine, HoldsAbort, Exists,
              Bare, Genuine, Recorded
<1>3. CASE Spawn(s)
  BY <1>3 DEF Spawn, TypeOK, Safe, StageOf, ShowsGenuine, HoldsAbort, Exists, Bare,
              Genuine, Recorded
<1>4. CASE Command(s)
  <2>1. data[s].snapshots \in Traces /\ data[s].index \in Nat
    BY DEF TypeOK, Records
  <2>2. PICK index \in 0 .. Len(data[s].snapshots) : MoveTo(s, index)
    BY <1>4, CommandIsMove
  <2>3. index \in Nat
    BY <2>1 DEF Traces
  <2> QED
    BY <2>2, <2>3, SafeMove
<1> QED
  BY <1>1, <1>2, <1>3, <1>4, SafeEvm, SafeWait, SafeAbort

(* ... and the others.                                                     *)
LEMMA SafeOthers ==
  ASSUME TypeOK, NEW s \in Sessions, NEW q \in Sessions, q # s, Safe(q),
         \/ New(s)
         \/ \E file \in Recordings(tx[s]) : FromCache(s, file)
         \/ Spawn(s) \/ EvmRuns(s) \/ EvmBreaks(s)
         \/ WaitForSnapshots(s) \/ Command(s)
         \/ AbortSignal(s) \/ AbortMark(s)
  PROVE  Safe(q)'
<1>1. /\ tx' = tx /\ data'[q] = data[q] /\ waiting'[q] = waiting[q]
      /\ channel'[q] = channel[q] /\ abortFlag'[q] = abortFlag[q]
      /\ aborting'[q] = aborting[q] /\ evm'[q] = evm[q] /\ steps'[q] = steps[q]
  <2>1. CASE New(s)
    BY <2>1 DEF New, TypeOK
  <2>2. CASE \E file \in Recordings(tx[s]) : FromCache(s, file)
    BY <2>2 DEF FromCache, TypeOK
  <2>3. CASE Spawn(s)
    BY <2>3 DEF Spawn, TypeOK
  <2>4. CASE EvmRuns(s)
    BY <2>4 DEF EvmRuns, EvmStep, EvmHalt, EvmComplete, EvmSends, sessionVars, TypeOK
  <2>5. CASE EvmBreaks(s)
    BY <2>5 DEF EvmBreaks, ReplayFails, ReplayPanics, ReplayHangs, EvmSends, sessionVars,
                TypeOK
  <2>6. CASE WaitForSnapshots(s)
    BY <2>6 DEF WaitForSnapshots, TypeOK
  <2>7. CASE Command(s)
    BY <2>7 DEF Command, StepInto, StepOver, Continue, MoveTo, TypeOK
  <2>8. CASE AbortSignal(s) \/ AbortMark(s)
    BY <2>8 DEF AbortSignal, AbortMark, TypeOK
  <2> QED
    BY <2>1, <2>2, <2>3, <2>4, <2>5, <2>6, <2>7, <2>8
<1> QED
  BY <1>1, Untouched

LEMMA SafeRestart ==
  ASSUME TypeOK, NEW q \in Sessions, Safe(q), Restart
  PROVE  Safe(q)'
<1>1. data'[q] = IF Exists(q) THEN Bare("gone") ELSE data[q]
  BY DEF Restart
<1>2. data[q] \in Records
  BY DEF TypeOK
<1>3. /\ data'[q] = Bare(data'[q].phase)
      /\ data'[q].phase \in {"absent", "gone"}
  BY <1>1, <1>2 DEF Exists, Bare, Records, Phases, Safe, StageOf
<1> QED
  BY <1>3 DEF Restart, Safe, StageOf, ShowsGenuine, HoldsAbort, NoMessage

-----------------------------------------------------------------------------
LEMMA InvInit == ASSUME Init PROVE SessionInv
<1>1. TypeOK
  BY TypeInit
<1>2. ASSUME NEW s \in Sessions
      PROVE  Safe(s)
  BY DEF Init, Bare, NoMessage, Safe, StageOf, ShowsGenuine, HoldsAbort
<1> QED
  BY <1>1, <1>2 DEF SessionInv, ReplayStages, ReplayIsGenuine, AbortHolds, Safe

LEMMA InvNext == ASSUME SessionInv, [Next]_vars PROVE SessionInv'
<1>1. TypeOK /\ \A q \in Sessions : Safe(q)
  BY DEF SessionInv, ReplayStages, ReplayIsGenuine, AbortHolds, Safe
<1>2. TypeOK'
  BY <1>1, TypeNext
<1>3. ASSUME NEW q \in Sessions
      PROVE  Safe(q)'
  <2>1. CASE Restart
    BY <1>1, <2>1, SafeRestart
  <2>2. CASE UNCHANGED vars
    BY <1>1, <2>2, Untouched DEF vars
  <2>3. CASE \E s \in Sessions :
               \/ New(s)
               \/ \E file \in Recordings(tx[s]) : FromCache(s, file)
               \/ Spawn(s) \/ EvmRuns(s) \/ EvmBreaks(s)
               \/ WaitForSnapshots(s) \/ Command(s)
               \/ AbortSignal(s) \/ AbortMark(s)
    BY <1>1, <2>3, SafeActor, SafeOthers
  <2> QED
    BY <2>1, <2>2, <2>3 DEF Next
<1> QED
  BY <1>2, <1>3 DEF SessionInv, ReplayStages, ReplayIsGenuine, AbortHolds, Safe

(* The inductive invariant.                                                *)
THEOREM SessionInvariance == SafeSpec => []SessionInv
<1>1. Init => SessionInv
  BY InvInit
<1>2. SessionInv /\ [Next]_vars => SessionInv'
  BY InvNext
<1> QED
  BY <1>1, <1>2, PTL DEF SafeSpec

(* A session is always at one of the stages of its replay: what thread,    *)
(* channel, receiver, flag and data hold fits together.                    *)
THEOREM StagesHold == SafeSpec => []ReplayStages
<1>1. SessionInv => ReplayStages
  BY DEF SessionInv
<1> QED
  BY <1>1, SessionInvariance, PTL

(* A replayed session shows what its transaction did; a shortened trace    *)
(* that claims success is seen only while its abort is under way.          *)
THEOREM ReplaysAreGenuine == SafeSpec => []ReplayIsGenuine
<1>1. SessionInv => ReplayIsGenuine
  BY DEF SessionInv
<1> QED
  BY <1>1, SessionInvariance, PTL

(* A session whose abort call has returned is aborted, and stays so.       *)
THEOREM AbortIsFinal == SafeSpec => []AbortHolds
<1>1. SessionInv => AbortHolds
  BY DEF SessionInv
<1> QED
  BY <1>1, SessionInvariance, PTL

-----------------------------------------------------------------------------
(* The trace of a ready session never changes and its cursor never goes    *)
(* back.                                                                   *)
THEOREM MovesForwardOnly == SafeSpec => ForwardOnly
<1> DEFINE Forward(s) ==
      data[s].phase = "ready" /\ data'[s].phase = "ready" =>
        /\ data'[s].snapshots = data[s].snapshots
        /\ data'[s].result = data[s].result
        /\ data'[s].index >= data[s].index
<1>1. SessionInv /\ [Next]_vars => [\A s \in Sessions : Forward(s)]_vars
  <2> SUFFICES ASSUME SessionInv, Next, NEW q \in Sessions
               PROVE  Forward(q)
    BY DEF vars
  <2>1. TypeOK /\ \A s \in Sessions : StageOf(s)
    BY DEF SessionInv, ReplayStages
  <2>2. data[q].index >= data[q].index
    BY <2>1 DEF TypeOK, Records
  <2>3. CASE Restart
    BY <2>3, <2>2 DEF Restart, Bare, Exists
  <2>4. ASSUME NEW s \in Sessions,
               New(s) \/ \E file \in Recordings(tx[s]) : FromCache(s, file)
        PROVE  Forward(q)
    BY <2>1, <2>2, <2>4 DEF New, FromCache, TypeOK
  <2>5. ASSUME NEW s \in Sessions,
               Spawn(s) \/ EvmRuns(s) \/ EvmBreaks(s) \/ AbortSignal(s)
        PROVE  Forward(q)
    BY <2>2, <2>5 DEF Spawn, EvmRuns, EvmStep, EvmHalt, EvmComplete, EvmBreaks, ReplayFails,
                      ReplayPanics, ReplayHangs, EvmSends, AbortSignal, sessionVars
  <2>6. ASSUME NEW s \in Sessions, WaitForSnapshots(s)
        PROVE  Forward(q)
    <3>1. data[s].phase # "ready"
      BY <2>1, <2>6 DEF WaitForSnapshots, StageOf
    <3>2. q # s => data'[q] = data[q]
      BY <2>1, <2>6 DEF WaitForSnapshots, TypeOK
    <3> QED
      BY <2>2, <3>1, <3>2
  <2>7. ASSUME NEW s \in Sessions, Command(s)
        PROVE  Forward(q)
    <3>1. data[s].index \in Nat /\ data[s] \in Records
      BY <2>1 DEF TypeOK, Records
    <3>2. PICK index \in data[s].index .. Len(data[s].snapshots) : MoveTo(s, index)
      BY <2>1, <2>7, CommandIsMove
    <3>3. q = s => data'[q] = [data[s] EXCEPT !.index = index]
      BY <2>1, <3>2 DEF MoveTo, TypeOK
    <3>4. q # s => data'[q] = data[q]
      BY <2>1, <3>2 DEF MoveTo, TypeOK
    <3> QED
      BY <2>2, <3>1, <3>2, <3>3, <3>4 DEF Records
  <2>8. ASSUME NEW s \in Sessions, AbortMark(s)
        PROVE  Forward(q)
    BY <2>1, <2>2, <2>8 DEF AbortMark, Bare, TypeOK
  <2> QED
    BY <2>3, <2>4, <2>5, <2>6, <2>7, <2>8 DEF Next
<1> QED
  BY <1>1, SessionInvariance, PTL DEF SafeSpec, ForwardOnly

-----------------------------------------------------------------------------
(* The refinement: what clients see of the data of a session.              *)
LEMMA ViewOfChange ==
  ASSUME NEW s \in Sessions, NEW d, data'[s] = d,
         \A q \in Sessions : q # s => data'[q] = data[q]
  PROVE  /\ status' = [status EXCEPT ![s] = StatusOf(d)]
         /\ position' = [position EXCEPT ![s] = d.index]
         /\ length' = [length EXCEPT ![s] = Len(d.snapshots)]
         /\ ending' = [ending EXCEPT ![s] = StateAt(<<>>, 0, d.result)]
<1>1. status' = [status EXCEPT ![s] = StatusOf(d)]
  BY DEF status
<1>2. position' = [position EXCEPT ![s] = d.index]
  BY DEF position
<1>3. length' = [length EXCEPT ![s] = Len(d.snapshots)]
  BY DEF length
<1>4. ending' = [ending EXCEPT ![s] = StateAt(<<>>, 0, d.result)]
  BY DEF ending
<1> QED
  BY <1>1, <1>2, <1>3, <1>4

LEMMA ViewOfUpdate ==
  ASSUME TypeOK, NEW s \in Sessions, NEW d, data' = [data EXCEPT ![s] = d]
  PROVE  /\ status' = [status EXCEPT ![s] = StatusOf(d)]
         /\ position' = [position EXCEPT ![s] = d.index]
         /\ length' = [length EXCEPT ![s] = Len(d.snapshots)]
         /\ ending' = [ending EXCEPT ![s] = StateAt(<<>>, 0, d.result)]
<1>1. /\ data'[s] = d
      /\ \A q \in Sessions : q # s => data'[q] = data[q]
  BY DEF TypeOK
<1> QED
  BY <1>1, ViewOfChange

LEMMA ViewOfBare ==
  ASSUME NEW phase \in Phases, phase # "ready"
  PROVE  /\ StatusOf(Bare(phase)) = phase
         /\ Bare(phase).index = 0
         /\ Len(Bare(phase).snapshots) = 0
         /\ StateAt(<<>>, 0, Bare(phase).result) = "aborted"
BY DEF Bare, StatusOf, StateAt

LEMMA ViewOfBareUpdate ==
  ASSUME TypeOK, NEW s \in Sessions, NEW phase \in Phases, phase # "ready",
         data' = [data EXCEPT ![s] = Bare(phase)]
  PROVE  /\ status' = [status EXCEPT ![s] = phase]
         /\ position' = [position EXCEPT ![s] = 0]
         /\ length' = [length EXCEPT ![s] = 0]
         /\ ending' = [ending EXCEPT ![s] = "aborted"]
<1>1. /\ StatusOf(Bare(phase)) = phase
      /\ Bare(phase).index = 0
      /\ Len(Bare(phase).snapshots) = 0
      /\ StateAt(<<>>, 0, Bare(phase).result) = "aborted"
  BY ViewOfBare
<1>2. /\ status' = [status EXCEPT ![s] = StatusOf(Bare(phase))]
      /\ position' = [position EXCEPT ![s] = Bare(phase).index]
      /\ length' = [length EXCEPT ![s] = Len(Bare(phase).snapshots)]
      /\ ending' = [ending EXCEPT ![s] = StateAt(<<>>, 0, Bare(phase).result)]
  BY ViewOfUpdate
<1> QED
  BY <1>1, <1>2

(* A session that holds no trace looks empty.                              *)
LEMMA EmptyView ==
  ASSUME NEW s \in Sessions, NEW phase \in Phases, phase # "ready", data[s] = Bare(phase)
  PROVE  /\ status[s] = phase /\ position[s] = 0
         /\ length[s] = 0 /\ ending[s] = "aborted"
BY ViewOfBare DEF status, position, length, ending

(* A trace that arrives, from the cache or from a replay, settles the      *)
(* session in the sense of the abstract specification.                     *)
LEMMA SettlesView ==
  ASSUME TypeOK, NEW s \in Sessions, NEW t \in Txs,
         NEW trace, NEW n \in 0 .. Len(FullTrace[t]), NEW result \in Results,
         Len(trace) = n,
         n = 0 => result # "none",
         data' = [data EXCEPT ![s] = Ready(trace, result)]
  PROVE  \E m \in Lengths, e \in Lifecycle!Endings : Lifecycle!Settle(s, m, e)
<1> DEFINE e == StateAt(<<>>, 0, result)
           d == Ready(trace, result)
<1>1. e \in Lifecycle!Endings /\ (result # "none" => e = "finished")
  BY DEF StateAt, Lifecycle!Endings
<1>2. n \in Lengths /\ n \in Nat
  BY ReplayAssumption DEF Lengths, ReplayAssumption, Traces
<1>3. /\ d.index = 0 /\ d.snapshots = trace /\ d.result = result
      /\ d.phase = "ready"
  BY DEF Ready
<1>4. StatusOf(d) = Lifecycle!Reported(0, n, e)
  BY <1>2, <1>3 DEF StatusOf, StateAt, Lifecycle!Reported
<1>5. /\ status' = [status EXCEPT ![s] = StatusOf(d)]
      /\ position' = [position EXCEPT ![s] = d.index]
      /\ length' = [length EXCEPT ![s] = Len(d.snapshots)]
      /\ ending' = [ending EXCEPT ![s] = StateAt(<<>>, 0, d.result)]
  BY ViewOfUpdate
<1>6. Lifecycle!Settle(s, n, e)
  BY <1>1, <1>3, <1>4, <1>5 DEF Lifecycle!Settle
<1> QED
  BY <1>1, <1>2, <1>6

LEMMA LifecycleInit == ASSUME Init PROVE Lifecycle!Init
<1>1. \A s \in Sessions :
        /\ StatusOf(data[s]) = "absent" /\ data[s].index = 0
        /\ Len(data[s].snapshots) = 0
        /\ StateAt(<<>>, 0, data[s].result) = "aborted"
  BY ViewOfBare DEF Init, Phases
<1> QED
  BY <1>1 DEF Lifecycle!Init, status, position, length, ending

LEMMA LifecycleStutters ==
  ASSUME UNCHANGED data
  PROVE  UNCHANGED Lifecycle!vars
BY DEF Lifecycle!vars, status, position, length, ending

LEMMA LifecycleWait ==
  ASSUME SessionInv, NEW s \in Sessions, WaitForSnapshots(s)
  PROVE  Lifecycle!Load(s) \/ Lifecycle!Fail(s) \/ UNCHANGED Lifecycle!vars
<1>1. TypeOK /\ Safe(s)
  BY DEF SessionInv, ReplayStages, ReplayIsGenuine, AbortHolds, Safe
<1>2. data[s].phase \in {"loading", "aborted"} /\ data \in [Sessions -> Records]
  BY <1>1 DEF WaitForSnapshots, Safe, StageOf, TypeOK
<1>3. CASE data[s].phase = "aborted"
  <2>1. data' = data
    BY <1>2, <1>3 DEF WaitForSnapshots
  <2> QED
    BY <2>1, LifecycleStutters
<1>4. CASE data[s].phase = "loading" /\ Received(s).kind = "error"
  <2>1. data' = [data EXCEPT ![s] = Bare("error")]
    BY <1>2, <1>4 DEF WaitForSnapshots
  <2>2. data[s] = Bare("loading")
    BY <1>1, <1>4 DEF Safe, StageOf
  <2>3. /\ status[s] = "loading" /\ position[s] = 0 /\ length[s] = 0
        /\ ending[s] = "aborted"
    BY <2>2, EmptyView DEF Phases
  <2>4. /\ status' = [status EXCEPT ![s] = "error"]
        /\ position' = [position EXCEPT ![s] = 0]
        /\ length' = [length EXCEPT ![s] = 0]
        /\ ending' = [ending EXCEPT ![s] = "aborted"]
    BY <1>1, <2>1, ViewOfBareUpdate DEF Phases
  <2>5. position' = position /\ length' = length /\ ending' = ending
    BY <2>3, <2>4 DEF position, length, ending
  <2> QED
    BY <2>3, <2>4, <2>5 DEF Lifecycle!Fail
<1>5. CASE data[s].phase = "loading" /\ Received(s).kind = "snapshots"
  <2>1. data' = [data EXCEPT ![s] = Ready(Received(s).snapshots, Received(s).result)]
    BY <1>2, <1>5 DEF WaitForSnapshots
  <2>2. Genuine(s, Received(s).snapshots, Received(s).result)
    BY <1>1, <1>5, ReceivedIsGenuine
  <2>3. /\ Len(Received(s).snapshots) = steps[s]
        /\ steps[s] \in 0 .. Len(FullTrace[tx[s]])
        /\ tx[s] \in Txs
        /\ Received(s).result \in Results
        /\ steps[s] = 0 => Received(s).result # "none"
    <3>1. Len(Recorded(s)) = steps[s]
      BY <1>1, RecordedType
    <3>2. channel[s] \in Messages
      BY <1>1 DEF TypeOK
    <3>3. Received(s).result \in Results
      BY <3>2, MessageTypes DEF Received, Messages
    <3>4. steps[s] \in 0 .. Len(FullTrace[tx[s]])
      BY <1>1, ReplayAssumption DEF TypeOK, ReplayAssumption, Traces
    <3> QED
      BY <1>1, <2>2, <3>1, <3>3, <3>4 DEF Genuine, TypeOK
  <2>4. status[s] = "loading"
    BY <1>5 DEF status, StatusOf
  <2> QED
    BY <1>1, <2>1, <2>3, <2>4, SettlesView DEF Lifecycle!Load
<1> QED
  BY <1>1, <1>2, <1>3, <1>4, <1>5, ReceivedIsGenuine

LEMMA LifecycleOpen ==
  ASSUME SessionInv, NEW s \in Sessions,
         New(s) \/ \E file \in Recordings(tx[s]) : FromCache(s, file)
  PROVE  Lifecycle!Open(s) \/ Lifecycle!OpenSettled(s)
<1>1. /\ TypeOK /\ tx[s] \in Txs
      /\ data[s] = Bare("absent")
  BY DEF SessionInv, ReplayStages, StageOf, New, FromCache, TypeOK
<1>2. /\ status[s] = "absent" /\ position[s] = 0
      /\ length[s] = 0 /\ ending[s] = "aborted"
  BY <1>1, EmptyView DEF Phases
<1>3. CASE New(s)
  <2>1. data' = [data EXCEPT ![s] = Bare("loading")]
    BY <1>3 DEF New
  <2>2. /\ status' = [status EXCEPT ![s] = "loading"]
        /\ position' = [position EXCEPT ![s] = 0]
        /\ length' = [length EXCEPT ![s] = 0]
        /\ ending' = [ending EXCEPT ![s] = "aborted"]
    BY <1>1, <2>1, ViewOfBareUpdate DEF Phases
  <2>3. position' = position /\ length' = length /\ ending' = ending
    BY <1>2, <2>2 DEF position, length, ending
  <2> QED
    BY <1>2, <2>2, <2>3 DEF Lifecycle!Open
<1>4. CASE \E file \in Recordings(tx[s]) : FromCache(s, file)
  <2>1. PICK file \in Recordings(tx[s]) : FromCache(s, file)
    BY <1>4
  <2>2. /\ Len(file.snapshots) \in 0 .. Len(FullTrace[tx[s]])
        /\ Len(file.snapshots) = 0 => file.result # "none"
        /\ file.result \in Results
    BY <1>1, RecordingsLengths, RecordingsType
  <2>3. data' = [data EXCEPT ![s] = Ready(file.snapshots, file.result)]
    BY <2>1 DEF FromCache
  <2> QED
    BY <1>1, <1>2, <2>2, <2>3, SettlesView DEF Lifecycle!OpenSettled
<1> QED
  BY <1>3, <1>4

LEMMA LifecycleCommand ==
  ASSUME SessionInv, NEW s \in Sessions, Command(s)
  PROVE  Lifecycle!Move(s) \/ UNCHANGED Lifecycle!vars
<1>1. TypeOK
  BY DEF SessionInv
<1>2. /\ data \in [Sessions -> Records] /\ data[s] \in Records
      /\ data[s].index \in Nat /\ Len(data[s].snapshots) \in Nat
      /\ data[s].index <= Len(data[s].snapshots)
  BY <1>1 DEF TypeOK, Records, Traces
<1>3. PICK index \in data[s].index .. Len(data[s].snapshots) : MoveTo(s, index)
  BY <1>1, CommandIsMove
<1> DEFINE d == [data[s] EXCEPT !.index = index]
<1>4. /\ data' = [data EXCEPT ![s] = d] /\ data[s].phase = "ready"
      /\ d.phase = "ready" /\ d.index = index /\ d.snapshots = data[s].snapshots
      /\ d.result = data[s].result
  BY <1>2, <1>3 DEF MoveTo, Records
<1>5. CASE index = data[s].index
  <2>1. d = data[s]
    BY <1>2, <1>5 DEF Records
  <2>2. data' = data
    BY <1>2, <1>4, <2>1
  <2> QED
    BY <2>2, LifecycleStutters
<1>6. CASE index # data[s].index
  <2>1. /\ position[s] = data[s].index /\ length[s] = Len(data[s].snapshots)
        /\ ending[s] = StateAt(<<>>, 0, data[s].result)
        /\ index \in position[s] + 1 .. length[s]
    BY <1>2, <1>6 DEF position, length, ending
  <2>2. status[s] = "paused"
    BY <1>2, <1>4, <2>1 DEF status, StatusOf, StateAt
  <2>3. StatusOf(d) = Lifecycle!Reported(index, length[s], ending[s])
    BY <1>2, <1>4, <2>1 DEF StatusOf, StateAt, Lifecycle!Reported
  <2>4. /\ status' = [status EXCEPT ![s] = StatusOf(d)]
        /\ position' = [position EXCEPT ![s] = d.index]
        /\ length' = [length EXCEPT ![s] = Len(d.snapshots)]
        /\ ending' = [ending EXCEPT ![s] = StateAt(<<>>, 0, d.result)]
    BY <1>1, <1>4, ViewOfUpdate
  <2>5. length' = length /\ ending' = ending
    BY <1>4, <2>1, <2>4 DEF length, ending
  <2> QED
    BY <1>4, <2>1, <2>2, <2>3, <2>4, <2>5 DEF Lifecycle!Move
<1> QED
  BY <1>5, <1>6

LEMMA LifecycleAbort ==
  ASSUME SessionInv, NEW s \in Sessions, AbortMark(s)
  PROVE  Lifecycle!Abort(s)
<1>1. TypeOK /\ data' = [data EXCEPT ![s] = Bare("aborted")]
  BY DEF SessionInv, AbortMark
<1>2. data[s].phase \notin {"absent", "gone"}
  BY DEF SessionInv, ReplayStages, StageOf, AbortMark, Exists
<1>3. status[s] \notin {"absent", "gone"}
  BY <1>2 DEF status, StatusOf, StateAt
<1>4. /\ status' = [status EXCEPT ![s] = "aborted"]
      /\ position' = [position EXCEPT ![s] = 0]
      /\ length' = [length EXCEPT ![s] = 0]
      /\ ending' = [ending EXCEPT ![s] = "aborted"]
  BY <1>1, ViewOfBareUpdate DEF Phases
<1> QED
  BY <1>3, <1>4 DEF Lifecycle!Abort

LEMMA LifecycleRestart ==
  ASSUME SessionInv, Restart
  PROVE  Lifecycle!Restart
<1>1. ASSUME NEW s \in Sessions
      PROVE  /\ StatusOf(data'[s]) = IF status[s] = "absent" THEN "absent" ELSE "gone"
             /\ data'[s].index = 0 /\ Len(data'[s].snapshots) = 0
             /\ StateAt(<<>>, 0, data'[s].result) = "aborted"
  <2>1. /\ data'[s] = IF Exists(s) THEN Bare("gone") ELSE data[s]
        /\ data[s].phase # "ready" => data[s] = Bare(data[s].phase)
    BY DEF Restart, SessionInv, ReplayStages, StageOf
  <2>2. CASE Exists(s)
    <3>1. status[s] # "absent"
      BY <2>2 DEF Exists, status, StatusOf, StateAt
    <3> QED
      BY <2>1, <2>2, <3>1, ViewOfBare DEF Phases
  <2>3. CASE ~Exists(s)
    <3>1. data'[s] = data[s] /\ data[s].phase \in {"absent", "gone"}
          /\ data[s] = Bare(data[s].phase)
      BY <2>1, <2>3 DEF Exists
    <3>2. status[s] = data[s].phase
      BY <3>1 DEF status, StatusOf
    <3> QED
      BY <3>1, <3>2, ViewOfBare DEF Phases
  <2> QED
    BY <2>2, <2>3
<1> QED
  BY <1>1 DEF Lifecycle!Restart, status, position, length, ending

(* A debug session with its threads implements the session of the API.     *)
THEOREM ImplementsLifecycleSafely == SafeSpec => Lifecycle!SafeSpec
<1>1. Init => Lifecycle!Init
  BY LifecycleInit
<1>2. SessionInv /\ [Next]_vars => [Lifecycle!Next]_(Lifecycle!vars)
  <2> SUFFICES ASSUME SessionInv, [Next]_vars
               PROVE  Lifecycle!Next \/ UNCHANGED Lifecycle!vars
    OBVIOUS
  <2>1. CASE UNCHANGED vars
    BY <2>1, LifecycleStutters DEF vars
  <2>2. CASE Restart
    BY <2>2, LifecycleRestart DEF Lifecycle!Next
  <2>3. ASSUME NEW s \in Sessions,
               New(s) \/ \E file \in Recordings(tx[s]) : FromCache(s, file)
        PROVE  Lifecycle!Next
    BY <2>3, LifecycleOpen DEF Lifecycle!Next
  <2>4. ASSUME NEW s \in Sessions,
               Spawn(s) \/ EvmRuns(s) \/ EvmBreaks(s) \/ AbortSignal(s)
        PROVE  UNCHANGED Lifecycle!vars
    <3>1. UNCHANGED data
      BY <2>4 DEF Spawn, EvmRuns, EvmStep, EvmHalt, EvmComplete, EvmBreaks, ReplayFails,
                  ReplayPanics, ReplayHangs, EvmSends, AbortSignal, sessionVars
    <3> QED
      BY <3>1, LifecycleStutters
  <2>5. ASSUME NEW s \in Sessions, WaitForSnapshots(s)
        PROVE  Lifecycle!Next \/ UNCHANGED Lifecycle!vars
    BY <2>5, LifecycleWait DEF Lifecycle!Next
  <2>6. ASSUME NEW s \in Sessions, Command(s)
        PROVE  Lifecycle!Next \/ UNCHANGED Lifecycle!vars
    BY <2>6, LifecycleCommand DEF Lifecycle!Next
  <2>7. ASSUME NEW s \in Sessions, AbortMark(s)
        PROVE  Lifecycle!Next
    BY <2>7, LifecycleAbort DEF Lifecycle!Next
  <2> QED
    BY <2>1, <2>2, <2>3, <2>4, <2>5, <2>6, <2>7 DEF Next
<1> QED
  BY <1>1, <1>2, SessionInvariance, PTL DEF SafeSpec, Lifecycle!SafeSpec

(* What a client is told has its types, as the life cycle declares them.   *)
LEMMA ViewType ==
  ASSUME TypeOK
  PROVE  /\ status \in [Sessions -> Lifecycle!Statuses]
         /\ position \in [Sessions -> Nat] /\ length \in [Sessions -> Nat]
         /\ ending \in [Sessions -> Lifecycle!Endings]
<1>1. \A s \in Sessions : data[s] \in Records
  BY DEF TypeOK
<1> SUFFICES ASSUME NEW s \in Sessions
             PROVE  /\ StatusOf(data[s]) \in Lifecycle!Statuses
                    /\ data[s].index \in Nat /\ Len(data[s].snapshots) \in Nat
                    /\ StateAt(<<>>, 0, data[s].result) \in Lifecycle!Endings
  BY DEF status, position, length, ending
<1>2. data[s].index \in Nat /\ Len(data[s].snapshots) \in Nat
  BY <1>1 DEF Records, Traces
<1>3. StatusOf(data[s]) \in Lifecycle!Statuses
  <2>1. data[s].phase \in Phases
    BY <1>1 DEF Records
  <2> QED
    BY <2>1 DEF StatusOf, StateAt, Phases, Lifecycle!Statuses
<1>4. StateAt(<<>>, 0, data[s].result) \in Lifecycle!Endings
  BY DEF StateAt, Lifecycle!Endings
<1> QED
  BY <1>2, <1>3, <1>4

LEMMA LifecycleOnwards ==
  ASSUME TypeOK, [Lifecycle!Next]_(Lifecycle!vars), NEW s \in Sessions
  PROVE  Lifecycle!Onwards(s)
<1>1. /\ status \in [Sessions -> Lifecycle!Statuses]
      /\ position \in [Sessions -> Nat] /\ length \in [Sessions -> Nat]
      /\ ending \in [Sessions -> Lifecycle!Endings]
  BY ViewType
<1>2. ASSUME NEW r \in Sessions, Lifecycle!Open(r) \/ Lifecycle!Fail(r)
      PROVE  Lifecycle!Onwards(s)
  BY <1>1, <1>2 DEF Lifecycle!Open, Lifecycle!Fail, Lifecycle!Onwards
<1>3. ASSUME NEW r \in Sessions, Lifecycle!OpenSettled(r) \/ Lifecycle!Load(r)
      PROVE  Lifecycle!Onwards(s)
  <2>1. PICK n \in Lengths, e \in Lifecycle!Endings : Lifecycle!Settle(r, n, e)
    BY <1>3 DEF Lifecycle!OpenSettled, Lifecycle!Load
  <2>2. /\ status[r] \in {"absent", "loading"}
        /\ Lifecycle!Reported(0, n, e) \in {"paused", "finished", "aborted"}
    BY <1>3 DEF Lifecycle!OpenSettled, Lifecycle!Load, Lifecycle!Reported, Lifecycle!Endings
  <2> QED
    BY <1>1, <2>1, <2>2 DEF Lifecycle!Settle, Lifecycle!Onwards
<1>4. ASSUME NEW r \in Sessions, Lifecycle!Move(r)
      PROVE  Lifecycle!Onwards(s)
  <2>1. PICK p \in position[r] + 1 .. length[r] :
          /\ position' = [position EXCEPT ![r] = p]
          /\ status' = [status EXCEPT ![r] = Lifecycle!Reported(p, length[r], ending[r])]
    BY <1>4 DEF Lifecycle!Move
  <2>2. /\ status[r] = "paused" /\ length' = length /\ ending' = ending
        /\ Lifecycle!Reported(p, length[r], ending[r]) \in {"paused", "finished", "aborted"}
    BY <1>1, <1>4 DEF Lifecycle!Move, Lifecycle!Reported, Lifecycle!Endings
  <2>3. CASE s = r
    BY <1>1, <2>1, <2>2, <2>3 DEF Lifecycle!Onwards
  <2>4. CASE s # r
    BY <1>1, <2>1, <2>2, <2>4 DEF Lifecycle!Onwards
  <2> QED
    BY <2>3, <2>4
<1>5. ASSUME NEW r \in Sessions, Lifecycle!Abort(r) \/ Lifecycle!Collect(r)
      PROVE  Lifecycle!Onwards(s)
  BY <1>1, <1>5 DEF Lifecycle!Abort, Lifecycle!Collect, Lifecycle!Onwards
<1>6. CASE Lifecycle!Restart
  BY <1>6 DEF Lifecycle!Restart, Lifecycle!Onwards
<1>7. CASE UNCHANGED Lifecycle!vars
  BY <1>1, <1>7 DEF Lifecycle!vars, Lifecycle!Onwards
<1> QED
  BY <1>2, <1>3, <1>4, <1>5, <1>6, <1>7 DEF Lifecycle!Next

(* With all its threads, a session never goes back in the eyes of its      *)
(* client: aborted, failed or vanished is final, however late the EVM      *)
(* thread delivers (session.rs:91, 201).                                   *)
THEOREM SessionsNeverGoBack == SafeSpec => Lifecycle!NeverBack
<1>1. TypeOK /\ [Lifecycle!Next]_(Lifecycle!vars)
        => [\A s \in Sessions : Lifecycle!Onwards(s)]_(Lifecycle!vars)
  BY LifecycleOnwards
<1> QED
  BY <1>1, TypeCorrect, ImplementsLifecycleSafely, PTL
  DEF Lifecycle!SafeSpec, Lifecycle!NeverBack
=============================================================================
