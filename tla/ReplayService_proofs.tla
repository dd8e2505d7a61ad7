------------------------- MODULE ReplayService_proofs -------------------------
(***************************************************************************)
(* The replay service, for every set of sessions and every number of       *)
(* permits: what it does to a session is what a session allows, permits    *)
(* are conserved and bound the replays, and the cache holds recordings of  *)
(* its transactions only.                                                  *)
(***************************************************************************)
EXTENDS ReplayService, DebugSession_proofs, FiniteSetTheorems

(* A recording that may be cached: without result only if replays fail.    *)
Cacheable(t) == {file \in Recordings(t) : file.result = "none" => "replay" \in Faults}

Trace(s) == [snapshots |-> data[s].snapshots, result |-> data[s].result]

(* What links the task of a session to its EVM thread, to the copy that it *)
(* saves and to the cache.                                                 *)
TaskInv ==
  /\ \A s \in Sessions : evm[s] \in {"running", "hung"} => task[s] = "replaying"
  /\ \A s \in Sessions : data[s].phase \in {"absent", "gone"} => task[s] = "none"
  /\ \A s \in Sessions : pending[s] \subseteq Cacheable(tx[s])
  /\ \A s \in Sessions : data[s].phase = "ready" => Trace(s) \in Cacheable(tx[s])
  /\ \A t \in Txs : cache[t] \subseteq Cacheable(t)

ServiceInv == SessionInv /\ ServiceTypeOK /\ TaskInv /\ PermitsConserved

-----------------------------------------------------------------------------
(* What a genuine replay shows may be cached.                              *)
LEMMA GenuineIsCacheable ==
  ASSUME TypeOK, NEW s \in Sessions, NEW trace, NEW result, Genuine(s, trace, result)
  PROVE  [snapshots |-> trace, result |-> result] \in Cacheable(tx[s])
<1> DEFINE full == FullTrace[tx[s]]
           n == steps[s]
           file == [snapshots |-> trace, result |-> result]
<1>1. /\ Len(full) \in Nat /\ n \in Nat /\ n <= Len(full)
      /\ trace = SubSeq(full, 1, n)
  BY ReplayAssumption DEF ReplayAssumption, TypeOK, Traces, Genuine, Recorded
<1>2. CASE result = "none"
  <2>1. n \in 1 .. Len(full) /\ "replay" \in Faults
    BY <1>1, <1>2 DEF Genuine
  <2>2. file \in Recordings(tx[s])
    BY <1>1, <1>2, <2>1 DEF Recordings
  <2> QED
    BY <2>1, <2>2 DEF Cacheable
<1>3. CASE result # "none" /\ n = Len(full)
  <2>1. result = Outcome[tx[s]]
    BY <1>3 DEF Genuine
  <2>2. file \in Recordings(tx[s])
    BY <1>1, <1>3, <2>1 DEF Recordings
  <2> QED
    BY <1>3, <2>2 DEF Cacheable
<1>4. CASE result # "none" /\ n # Len(full)
  <2>1. result = "success" /\ n \in 0 .. Len(full) - 1
    BY <1>1, <1>4 DEF Genuine
  <2>2. file \in Recordings(tx[s])
    BY <1>1, <2>1 DEF Recordings
  <2> QED
    BY <1>4, <2>2 DEF Cacheable
<1> QED
  BY <1>2, <1>3, <1>4

(* Every step of the service is a step of its sessions, or leaves them.    *)
LEMMA ServiceStepIsStep ==
  ASSUME ServiceInv, [ServiceNext]_svcVars
  PROVE  [Next]_vars
<1>1. ASSUME NEW s \in Sessions, CreateFromCache(s)
      PROVE  Next
  <2>1. cache[tx[s]] \subseteq Recordings(tx[s])
    BY DEF ServiceInv, TaskInv, Cacheable, SessionInv, TypeOK
  <2> QED
    BY <1>1, <2>1 DEF CreateFromCache, Next
<1>2. ASSUME NEW s \in Sessions, CreateWithReplay(s)
      PROVE  Next
  BY <1>2 DEF CreateWithReplay, Next
<1>3. ASSUME NEW s \in Sessions, TaskStep(s)
      PROVE  [Next]_vars
  BY <1>3 DEF TaskStep, AskPermit, StartReplay, AwaitTrace, CopyTrace, SaveTrace,
              FinishTask, Next
<1>4. ASSUME NEW s \in Sessions, SessionStep(s)
      PROVE  Next
  BY <1>4 DEF SessionStep, Next
<1>5. ASSUME NEW t \in Txs, EvictTrace(t)
      PROVE  UNCHANGED vars
  BY <1>5 DEF EvictTrace
<1>6. CASE ServiceRestart
  BY <1>6 DEF ServiceRestart, Next
<1>7. CASE UNCHANGED svcVars
  BY <1>7 DEF svcVars
<1> QED
  BY <1>1, <1>2, <1>3, <1>4, <1>5, <1>6, <1>7 DEF ServiceNext

(* No step changes which transaction a session is for.                     *)
LEMMA TxIsFixed == ASSUME [Next]_vars PROVE tx' = tx
BY DEF Next, New, FromCache, Spawn, EvmRuns, EvmStep, EvmHalt, EvmComplete, EvmBreaks,
       ReplayFails, ReplayPanics, ReplayHangs, EvmSends, sessionVars, WaitForSnapshots,
       Command, StepInto, StepOver, Continue, MoveTo, AbortSignal, AbortMark, Restart, vars

(* A session that is ready after a step was so before, with the same       *)
(* trace, or has just received what a replay sent, or a cached file.       *)
LEMMA WhereTracesComeFrom ==
  ASSUME SessionInv, NEW s \in Sessions, NEW q \in Sessions,
         \/ New(s)
         \/ Spawn(s) \/ EvmRuns(s) \/ EvmBreaks(s)
         \/ WaitForSnapshots(s) \/ Command(s)
         \/ AbortSignal(s) \/ AbortMark(s),
         data'[q].phase = "ready"
  PROVE  \/ data[q].phase = "ready" /\ Trace(q)' = Trace(q)
         \/ Genuine(q, data'[q].snapshots, data'[q].result)
<1>1. TypeOK /\ \A r \in Sessions : Safe(r)
  BY DEF SessionInv, ReplayStages, ReplayIsGenuine, AbortHolds, Safe
<1>2. CASE New(s)
  BY <1>1, <1>2 DEF New, TypeOK, Bare, Trace
<1>3. CASE Spawn(s) \/ EvmRuns(s) \/ EvmBreaks(s) \/ AbortSignal(s)
  <2>1. data' = data
    BY <1>3 DEF Spawn, EvmRuns, EvmStep, EvmHalt, EvmComplete, EvmBreaks, ReplayFails,
                ReplayPanics, ReplayHangs, EvmSends, sessionVars, AbortSignal
  <2> QED
    BY <2>1 DEF Trace
<1>4. CASE WaitForSnapshots(s)
  <2>1. CASE q # s
    <3>1. data'[q] = data[q]
      BY <1>1, <1>4, <2>1 DEF WaitForSnapshots, TypeOK
    <3> QED
      BY <3>1 DEF Trace
  <2>2. CASE q = s
    <3>1. /\ Received(s).kind \in {"error", "snapshots"}
          /\ Received(s).kind = "snapshots" =>
               Genuine(s, Received(s).snapshots, Received(s).result)
      BY <1>1, ReceivedIsGenuine
    <3>2. data'[s] \in {data[s], Bare("error"),
                        Ready(Received(s).snapshots, Received(s).result)}
          /\ (data[s].phase = "aborted" => data'[s] = data[s])
          /\ (data[s].phase # "aborted" /\ Received(s).kind = "error" =>
                data'[s] = Bare("error"))
          /\ (data[s].phase # "aborted" /\ Received(s).kind # "error" =>
                data'[s] = Ready(Received(s).snapshots, Received(s).result))
      BY <1>1, <1>4 DEF WaitForSnapshots, TypeOK
    <3> QED
      BY <2>2, <3>1, <3>2 DEF Bare, Ready, Trace
  <2> QED
    BY <2>1, <2>2
<1>5. CASE Command(s)
  <2>1. PICK index \in data[s].index .. Len(data[s].snapshots) : MoveTo(s, index)
    BY <1>1, <1>5, CommandIsMove
  <2>2. /\ data[s] \in Records /\ data[s].phase = "ready"
        /\ q = s => data'[q] = [data[s] EXCEPT !.index = index]
        /\ q # s => data'[q] = data[q]
    BY <1>1, <2>1 DEF MoveTo, TypeOK
  <2> QED
    BY <2>2 DEF Records, Trace
<1>6. CASE AbortMark(s)
  BY <1>1, <1>6 DEF AbortMark, TypeOK, Bare, Trace
<1> QED
  BY <1>2, <1>3, <1>4, <1>5, <1>6

-----------------------------------------------------------------------------
(* The actions that leave the service alone.                               *)
SessionAction(s) ==
  \/ New(s) \/ Spawn(s) \/ EvmRuns(s) \/ EvmBreaks(s)
  \/ WaitForSnapshots(s) \/ Command(s) \/ AbortSignal(s) \/ AbortMark(s)

LEMMA ReadyStaysCacheable ==
  ASSUME SessionInv, TaskInv, NEW s \in Sessions, SessionAction(s), tx' = tx,
         NEW q \in Sessions, data'[q].phase = "ready"
  PROVE  Trace(q)' \in Cacheable(tx[q])
<1>1. TypeOK
  BY DEF SessionInv
<1>2. CASE data[q].phase = "ready" /\ Trace(q)' = Trace(q)
  BY <1>2 DEF TaskInv
<1>3. CASE Genuine(q, data'[q].snapshots, data'[q].result)
  BY <1>1, <1>3, GenuineIsCacheable DEF Trace
<1> QED
  BY <1>2, <1>3, WhereTracesComeFrom DEF SessionAction

(* Which actions start and end the EVM thread of a session.                *)
LEMMA RunningThreads ==
  ASSUME TypeOK, NEW s \in Sessions, SessionAction(s), ~Spawn(s), NEW q \in Sessions,
         evm'[q] \in {"running", "hung"}
  PROVE  evm[q] \in {"running", "hung"}
BY DEF SessionAction, New, EvmRuns, EvmStep, EvmHalt, EvmComplete, EvmBreaks, ReplayFails,
       ReplayPanics, ReplayHangs, EvmSends, sessionVars, WaitForSnapshots, Command, StepInto,
       StepOver, Continue, MoveTo, AbortSignal, AbortMark, TypeOK

-----------------------------------------------------------------------------
LEMMA ServiceInvInit == ASSUME ServiceInit PROVE ServiceInv
<1>1. SessionInv
  BY InvInit DEF ServiceInit
<1>2. ServiceTypeOK
  BY ServiceAssumption DEF ServiceInit, ServiceAssumption, ServiceTypeOK
<1>3. TaskInv
  BY DEF ServiceInit, Init, TaskInv, Bare
<1>4. PermitsConserved
  <2>1. Holding = {}
    BY DEF ServiceInit, Holding
  <2> QED
    BY <2>1, FS_EmptySet, ServiceAssumption
    DEF ServiceInit, ServiceAssumption, PermitsConserved
<1> QED
  BY <1>1, <1>2, <1>3, <1>4 DEF ServiceInv

(* Recordings that may be cached have the type of the cache.               *)
LEMMA CacheableType ==
  ASSUME NEW t \in Txs
  PROVE  Cacheable(t) \subseteq UNION {Recordings(r) : r \in Txs}
BY DEF Cacheable

LEMMA ServiceType ==
  ASSUME ServiceInv, [ServiceNext]_svcVars
  PROVE  ServiceTypeOK'
<1> DEFINE files == UNION {Recordings(t) : t \in Txs}
<1>1. /\ ServiceTypeOK /\ TaskInv
      /\ tx \in [Sessions -> Txs]
  BY DEF ServiceInv, SessionInv, TypeOK
<1>2. \A t \in Txs : Cacheable(t) \subseteq files
  BY CacheableType
<1>3. /\ queue \in Seq(Sessions) /\ permits \in Nat
      /\ pending \in [Sessions -> SUBSET files]
      /\ cache \in [Txs -> SUBSET files]
  BY <1>1 DEF ServiceTypeOK
<1> HIDE DEF files
<1>4. ASSUME NEW s \in Sessions, CreateFromCache(s) \/ CreateWithReplay(s) \/ SessionStep(s)
      PROVE  ServiceTypeOK'
  BY <1>1, <1>4 DEF CreateFromCache, CreateWithReplay, SessionStep, serviceVars, taskVars,
                    ServiceTypeOK
<1>5. ASSUME NEW s \in Sessions, AskPermit(s)
      PROVE  ServiceTypeOK'
  BY <1>1, <1>3, <1>5 DEF AskPermit, ServiceTypeOK
<1>6. ASSUME NEW s \in Sessions, StartReplay(s)
      PROVE  ServiceTypeOK'
  <2>1. permits - 1 \in Nat /\ Tail(queue) \in Seq(Sessions)
    BY <1>3, <1>6 DEF StartReplay
  <2> QED
    BY <1>1, <1>6, <2>1 DEF StartReplay, ServiceTypeOK
<1>7. ASSUME NEW s \in Sessions, AwaitTrace(s) \/ FinishTask(s)
      PROVE  ServiceTypeOK'
  BY <1>1, <1>7 DEF AwaitTrace, FinishTask, ServiceTypeOK
<1>8. ASSUME NEW s \in Sessions, CopyTrace(s)
      PROVE  ServiceTypeOK'
  <2>1. pending' \in [Sessions -> SUBSET files]
    <3>1. CASE data[s].phase = "ready"
      <4>1. Trace(s) \in files
        BY <1>1, <1>2, <3>1 DEF TaskInv
      <4> QED
        BY <1>3, <1>8, <3>1, <4>1 DEF CopyTrace, Trace
    <3>2. CASE data[s].phase # "ready"
      BY <1>3, <1>8, <3>2 DEF CopyTrace
    <3> QED
      BY <3>1, <3>2
  <2>2. task' = [task EXCEPT ![s] = "saving"] \/ task' = [task EXCEPT ![s] = "finishing"]
    BY <1>8 DEF CopyTrace
  <2> QED
    BY <1>1, <1>8, <2>1, <2>2 DEF CopyTrace, ServiceTypeOK, files
<1>9. ASSUME NEW s \in Sessions, SaveTrace(s)
      PROVE  ServiceTypeOK'
  <2>1. cache' \in [Txs -> SUBSET files] /\ pending' \in [Sessions -> SUBSET files]
    BY <1>1, <1>3, <1>9 DEF SaveTrace
  <2> QED
    BY <1>1, <1>9, <2>1 DEF SaveTrace, ServiceTypeOK, files
<1>10. ASSUME NEW t \in Txs, EvictTrace(t)
       PROVE  ServiceTypeOK'
  BY <1>1, <1>10 DEF EvictTrace, taskVars, ServiceTypeOK
<1>11. CASE ServiceRestart
  BY <1>1, <1>11, ServiceAssumption DEF ServiceRestart, ServiceTypeOK, ServiceAssumption
<1>12. CASE UNCHANGED svcVars
  BY <1>1, <1>12 DEF svcVars, serviceVars, taskVars, ServiceTypeOK
<1> QED
  BY <1>4, <1>5, <1>6, <1>7, <1>8, <1>9, <1>10, <1>11, <1>12 DEF ServiceNext, TaskStep

-----------------------------------------------------------------------------
(* TaskInv one part at a time.                                             *)
LEMMA ThreadsHaveTasks ==
  ASSUME ServiceInv, [ServiceNext]_svcVars, NEW q \in Sessions,
         evm'[q] \in {"running", "hung"}
  PROVE  task'[q] = "replaying"
<1>1. /\ TypeOK /\ task \in [Sessions -> {"none", "spawned", "queued", "replaying",
                                       "received", "saving", "finishing", "done"}]
      /\ evm[q] \in {"running", "hung"} => task[q] = "replaying"
  BY DEF ServiceInv, SessionInv, ServiceTypeOK, TaskInv
<1>2. ASSUME NEW s \in Sessions, CreateFromCache(s)
      PROVE  task'[q] = "replaying"
  BY <1>1, <1>2 DEF CreateFromCache, FromCache, serviceVars, taskVars
<1>3. ASSUME NEW s \in Sessions, CreateWithReplay(s)
      PROVE  task'[q] = "replaying"
  <2>1. evm' = evm /\ evm[s] = "idle"
    BY <1>3 DEF CreateWithReplay, New, ServiceInv, SessionInv, ReplayStages, StageOf
  <2> QED
    BY <1>1, <1>3, <2>1 DEF CreateWithReplay
<1>4. ASSUME NEW s \in Sessions, StartReplay(s)
      PROVE  task'[q] = "replaying"
  BY <1>1, <1>4 DEF StartReplay, Spawn, TypeOK
<1>5. ASSUME NEW s \in Sessions, AwaitTrace(s)
      PROVE  task'[q] = "replaying"
  BY <1>1, <1>5 DEF AwaitTrace, WaitForSnapshots
<1>6. ASSUME NEW s \in Sessions, AskPermit(s) \/ CopyTrace(s) \/ SaveTrace(s) \/ FinishTask(s)
      PROVE  task'[q] = "replaying"
  <2>1. evm' = evm /\ task[s] # "replaying"
    BY <1>6 DEF AskPermit, CopyTrace, SaveTrace, FinishTask, vars
  <2>2. q # s => task'[q] = task[q]
    BY <1>1, <1>6 DEF AskPermit, CopyTrace, SaveTrace, FinishTask
  <2> QED
    BY <1>1, <2>1, <2>2
<1>7. ASSUME NEW s \in Sessions, SessionStep(s)
      PROVE  task'[q] = "replaying"
  <2>1. SessionAction(s) /\ ~Spawn(s)
    <3>1. SessionAction(s)
      BY <1>7 DEF SessionStep, SessionAction
    <3>2. evm[s] = "idle" => evm'[s] = "idle"
      BY <1>7 DEF SessionStep, EvmRuns, EvmStep, EvmHalt, EvmComplete, EvmBreaks,
                  ReplayFails, ReplayPanics, ReplayHangs, Command, StepInto, StepOver,
                  Continue, MoveTo, AbortSignal, AbortMark
    <3>3. Spawn(s) => evm[s] = "idle" /\ evm'[s] = "running"
      BY <1>1 DEF Spawn, TypeOK
    <3> QED
      BY <3>1, <3>2, <3>3
  <2>2. evm[q] \in {"running", "hung"}
    BY <1>1, <2>1, RunningThreads
  <2> QED
    BY <1>1, <1>7, <2>2 DEF SessionStep, serviceVars, taskVars
<1>8. ASSUME NEW t \in Txs, EvictTrace(t)
      PROVE  task'[q] = "replaying"
  BY <1>1, <1>8 DEF EvictTrace, vars, taskVars
<1>9. CASE ServiceRestart
  BY <1>9 DEF ServiceRestart, Restart
<1>10. CASE UNCHANGED svcVars
  BY <1>1, <1>10 DEF svcVars, vars, serviceVars, taskVars
<1> QED
  BY <1>2, <1>3, <1>4, <1>5, <1>6, <1>7, <1>8, <1>9, <1>10 DEF ServiceNext, TaskStep

LEMMA TasksHaveSessions ==
  ASSUME ServiceInv, [ServiceNext]_svcVars, NEW q \in Sessions,
         data'[q].phase \in {"absent", "gone"}
  PROVE  task'[q] = "none"
<1>1. /\ TypeOK /\ task \in [Sessions -> {"none", "spawned", "queued", "replaying",
                                       "received", "saving", "finishing", "done"}]
      /\ \A s \in Sessions : data[s].phase \in {"absent", "gone"} => task[s] = "none"
  BY DEF ServiceInv, SessionInv, ServiceTypeOK, TaskInv
<1>2. ASSUME NEW s \in Sessions, CreateFromCache(s)
      PROVE  task'[q] = "none"
  BY <1>1, <1>2 DEF CreateFromCache, FromCache, Ready, serviceVars, taskVars, TypeOK
<1>3. ASSUME NEW s \in Sessions, CreateWithReplay(s)
      PROVE  task'[q] = "none"
  BY <1>1, <1>3 DEF CreateWithReplay, New, Bare, TypeOK
<1>4. ASSUME NEW s \in Sessions, task[s] # "none", data' = data, TaskStep(s)
      PROVE  task'[q] = "none"
  BY <1>1, <1>4 DEF TaskStep, AskPermit, StartReplay, AwaitTrace, CopyTrace, SaveTrace,
                    FinishTask
<1>5. ASSUME NEW s \in Sessions, AwaitTrace(s)
      PROVE  task'[q] = "none"
  <2>1. task[s] # "none" /\ data'[s].phase \in {"aborted", "error", "ready"}
    BY <1>1, <1>5 DEF AwaitTrace, WaitForSnapshots, Bare, Ready, TypeOK
  <2>2. q # s /\ data'[q] = data[q] /\ task'[q] = task[q]
    BY <1>1, <1>5, <2>1 DEF AwaitTrace, WaitForSnapshots, TypeOK
  <2> QED
    BY <1>1, <2>2
<1>6. ASSUME NEW s \in Sessions, AskPermit(s) \/ CopyTrace(s) \/ SaveTrace(s)
                                \/ FinishTask(s) \/ StartReplay(s)
      PROVE  task'[q] = "none"
  BY <1>4, <1>6 DEF TaskStep, AskPermit, CopyTrace, SaveTrace, FinishTask, StartReplay,
                    Spawn, vars
<1>7. ASSUME NEW s \in Sessions, SessionStep(s)
      PROVE  task'[q] = "none"
  <2>1. data[q].phase \in {"absent", "gone"}
    <3>1. CASE EvmRuns(s) \/ EvmBreaks(s) \/ AbortSignal(s)
      BY <3>1 DEF EvmRuns, EvmStep, EvmHalt, EvmComplete, EvmBreaks, ReplayFails,
                  ReplayPanics, ReplayHangs, EvmSends, sessionVars, AbortSignal
    <3>2. CASE Command(s)
      <4>1. PICK index : MoveTo(s, index)
        BY <3>2 DEF Command, StepInto, StepOver, Continue
      <4>2. data'[q].phase = data[q].phase
        BY <1>1, <4>1 DEF MoveTo, TypeOK, Records
      <4> QED
        BY <4>2
    <3>3. CASE AbortMark(s)
      BY <1>1, <3>3 DEF AbortMark, Bare, TypeOK
    <3> QED
      BY <1>7, <3>1, <3>2, <3>3 DEF SessionStep
  <2> QED
    BY <1>1, <1>7, <2>1 DEF SessionStep, serviceVars, taskVars
<1>8. ASSUME NEW t \in Txs, EvictTrace(t)
      PROVE  task'[q] = "none"
  BY <1>1, <1>8 DEF EvictTrace, vars, taskVars
<1>9. CASE ServiceRestart
  BY <1>9 DEF ServiceRestart
<1>10. CASE UNCHANGED svcVars
  BY <1>1, <1>10 DEF svcVars, vars, serviceVars, taskVars
<1> QED
  BY <1>2, <1>3, <1>5, <1>6, <1>7, <1>8, <1>9, <1>10 DEF ServiceNext, TaskStep

LEMMA ReadyIsCacheable ==
  ASSUME ServiceInv, [ServiceNext]_svcVars, NEW q \in Sessions, data'[q].phase = "ready"
  PROVE  Trace(q)' \in Cacheable(tx[q])
<1>1. TypeOK /\ SessionInv /\ TaskInv
  BY DEF ServiceInv, SessionInv
<1>2. tx' = tx
  BY ServiceStepIsStep, TxIsFixed
<1>3. ASSUME NEW s \in Sessions, CreateFromCache(s)
      PROVE  Trace(q)' \in Cacheable(tx[q])
  <2>1. PICK file \in cache[tx[s]] : FromCache(s, file)
    BY <1>3 DEF CreateFromCache
  <2>2. file \in Cacheable(tx[s])
    BY <1>1, <2>1 DEF TaskInv, TypeOK
  <2>3. CASE q = s
    <3>1. data'[s] = Ready(file.snapshots, file.result)
      BY <1>1, <2>1 DEF FromCache, TypeOK
    <3>2. file = [snapshots |-> file.snapshots, result |-> file.result]
      BY <2>2 DEF Cacheable, Recordings
    <3> QED
      BY <2>2, <2>3, <3>1, <3>2 DEF Ready, Trace
  <2>4. CASE q # s
    BY <1>1, <2>1, <2>4 DEF FromCache, TypeOK, TaskInv, Trace
  <2> QED
    BY <2>3, <2>4
<1>4. ASSUME NEW s \in Sessions,
             CreateWithReplay(s) \/ StartReplay(s) \/ AwaitTrace(s) \/ SessionStep(s)
      PROVE  Trace(q)' \in Cacheable(tx[q])
  <2>1. SessionAction(s)
    BY <1>4 DEF CreateWithReplay, StartReplay, AwaitTrace, SessionStep, SessionAction
  <2> QED
    BY <1>1, <1>2, <2>1, ReadyStaysCacheable
<1>5. CASE data' = data
  BY <1>1, <1>5 DEF TaskInv, Trace
<1>6. ASSUME NEW s \in Sessions, AskPermit(s) \/ CopyTrace(s) \/ SaveTrace(s) \/ FinishTask(s)
      PROVE  data' = data
  BY <1>6 DEF AskPermit, CopyTrace, SaveTrace, FinishTask, vars
<1>7. ASSUME NEW t \in Txs, EvictTrace(t)
      PROVE  data' = data
  BY <1>7 DEF EvictTrace, vars
<1>8. CASE ServiceRestart
  BY <1>8 DEF ServiceRestart, Restart, Exists, Bare
<1>9. CASE UNCHANGED svcVars
  BY <1>5, <1>9 DEF svcVars, vars
<1> QED
  BY <1>3, <1>4, <1>5, <1>6, <1>7, <1>8, <1>9 DEF ServiceNext, TaskStep

LEMMA PendingIsCacheable ==
  ASSUME ServiceInv, [ServiceNext]_svcVars, NEW q \in Sessions
  PROVE  pending'[q] \subseteq Cacheable(tx[q])
<1>1. /\ pending \in [Sessions -> SUBSET UNION {Recordings(t) : t \in Txs}]
      /\ pending[q] \subseteq Cacheable(tx[q])
  BY DEF ServiceInv, ServiceTypeOK, TaskInv
<1>2. ASSUME NEW s \in Sessions, CopyTrace(s)
      PROVE  pending'[q] \subseteq Cacheable(tx[q])
  <2>1. CASE data[s].phase = "ready"
    <3>1. pending' = [pending EXCEPT ![s] = {Trace(s)}]
      BY <1>2, <2>1 DEF CopyTrace, Trace
    <3>2. Trace(s) \in Cacheable(tx[s])
      BY <2>1 DEF ServiceInv, TaskInv
    <3> QED
      BY <1>1, <3>1, <3>2
  <2>2. CASE data[s].phase # "ready"
    BY <1>1, <1>2, <2>2 DEF CopyTrace
  <2> QED
    BY <2>1, <2>2
<1>3. ASSUME NEW s \in Sessions, SaveTrace(s)
      PROVE  pending'[q] \subseteq Cacheable(tx[q])
  BY <1>1, <1>3 DEF SaveTrace
<1>4. ASSUME NEW s \in Sessions,
             \/ CreateFromCache(s) \/ CreateWithReplay(s) \/ AskPermit(s) \/ StartReplay(s)
             \/ AwaitTrace(s) \/ FinishTask(s) \/ SessionStep(s)
      PROVE  pending'[q] \subseteq Cacheable(tx[q])
  BY <1>1, <1>4 DEF CreateFromCache, CreateWithReplay, AskPermit, StartReplay, AwaitTrace,
                    FinishTask, SessionStep, serviceVars, taskVars
<1>5. ASSUME NEW t \in Txs, EvictTrace(t)
      PROVE  pending'[q] \subseteq Cacheable(tx[q])
  BY <1>1, <1>5 DEF EvictTrace, taskVars
<1>6. CASE ServiceRestart
  BY <1>6 DEF ServiceRestart
<1>7. CASE UNCHANGED svcVars
  BY <1>1, <1>7 DEF svcVars, serviceVars, taskVars
<1> QED
  BY <1>2, <1>3, <1>4, <1>5, <1>6, <1>7 DEF ServiceNext, TaskStep

LEMMA CacheIsCacheable ==
  ASSUME ServiceInv, [ServiceNext]_svcVars, NEW t \in Txs
  PROVE  cache'[t] \subseteq Cacheable(t)
<1>1. /\ cache \in [Txs -> SUBSET UNION {Recordings(r) : r \in Txs}]
      /\ cache[t] \subseteq Cacheable(t)
      /\ \A s \in Sessions : pending[s] \subseteq Cacheable(tx[s])
  BY DEF ServiceInv, ServiceTypeOK, TaskInv
<1>2. ASSUME NEW s \in Sessions, SaveTrace(s)
      PROVE  cache'[t] \subseteq Cacheable(t)
  BY <1>1, <1>2 DEF SaveTrace
<1>3. ASSUME NEW r \in Txs, EvictTrace(r)
      PROVE  cache'[t] \subseteq Cacheable(t)
  BY <1>1, <1>3 DEF EvictTrace
<1>4. ASSUME NEW s \in Sessions,
             \/ CreateFromCache(s) \/ CreateWithReplay(s) \/ AskPermit(s) \/ StartReplay(s)
             \/ AwaitTrace(s) \/ CopyTrace(s) \/ FinishTask(s) \/ SessionStep(s)
      PROVE  cache'[t] \subseteq Cacheable(t)
  BY <1>1, <1>4 DEF CreateFromCache, CreateWithReplay, AskPermit, StartReplay, AwaitTrace,
                    CopyTrace, FinishTask, SessionStep, serviceVars
<1>5. CASE ServiceRestart
  BY <1>1, <1>5 DEF ServiceRestart
<1>6. CASE UNCHANGED svcVars
  BY <1>1, <1>6 DEF svcVars, serviceVars
<1> QED
  BY <1>2, <1>3, <1>4, <1>5, <1>6 DEF ServiceNext, TaskStep

LEMMA TaskNext == ASSUME ServiceInv, [ServiceNext]_svcVars PROVE TaskInv'
<1>1. tx' = tx
  BY ServiceStepIsStep, TxIsFixed
<1>2. \A s \in Sessions : evm'[s] \in {"running", "hung"} => task'[s] = "replaying"
  BY ThreadsHaveTasks
<1>3. \A s \in Sessions : data'[s].phase \in {"absent", "gone"} => task'[s] = "none"
  BY TasksHaveSessions
<1>4. \A s \in Sessions : pending'[s] \subseteq Cacheable(tx[s])
  BY PendingIsCacheable
<1>5. \A s \in Sessions : data'[s].phase = "ready" => Trace(s)' \in Cacheable(tx[s])
  BY ReadyIsCacheable
<1>6. \A t \in Txs : cache'[t] \subseteq Cacheable(t)
  BY CacheIsCacheable
<1> QED
  BY <1>1, <1>2, <1>3, <1>4, <1>5, <1>6 DEF TaskInv, Cacheable, Recordings

-----------------------------------------------------------------------------
(* A task takes a permit when its replay starts and gives it back when it  *)
(* ends; every other step leaves the holders as they are.                  *)
LEMMA PermitsNext == ASSUME ServiceInv, [ServiceNext]_svcVars PROVE PermitsConserved'
<1>1. /\ task \in [Sessions -> {"none", "spawned", "queued", "replaying",
                               "received", "saving", "finishing", "done"}]
      /\ permits \in Nat /\ Permits \in Nat
      /\ permits + Cardinality(Holding) = Permits
  BY ServiceAssumption DEF ServiceInv, ServiceTypeOK, PermitsConserved, ServiceAssumption
<1>2. IsFiniteSet(Holding) /\ Cardinality(Holding) \in Nat
  <2>1. IsFiniteSet(Holding)
    BY ServiceAssumption, FS_Subset DEF ServiceAssumption, Holding
  <2> QED
    BY <2>1, FS_CardinalityType
<1>3. ASSUME Holding' = Holding, permits' = permits
      PROVE  PermitsConserved'
  BY <1>1, <1>3 DEF PermitsConserved
<1>4. ASSUME NEW s \in Sessions, StartReplay(s)
      PROVE  PermitsConserved'
  <2>1. s \notin Holding /\ Holding' = Holding \union {s}
    BY <1>1, <1>4 DEF StartReplay, Holding
  <2>2. Cardinality(Holding') = Cardinality(Holding) + 1
    BY <1>2, <2>1, FS_AddElement
  <2>3. permits' = permits - 1
    BY <1>4 DEF StartReplay
  <2> QED
    BY <1>1, <1>2, <2>2, <2>3 DEF PermitsConserved
<1>5. ASSUME NEW s \in Sessions, FinishTask(s)
      PROVE  PermitsConserved'
  <2>1. s \in Holding /\ Holding' = Holding \ {s}
    BY <1>1, <1>5 DEF FinishTask, Holding
  <2>2. Cardinality(Holding') = Cardinality(Holding) - 1
    BY <1>2, <2>1, FS_RemoveElement
  <2>3. permits' = permits + 1
    BY <1>5 DEF FinishTask
  <2> QED
    BY <1>1, <1>2, <2>2, <2>3 DEF PermitsConserved
<1>6. ASSUME NEW s \in Sessions, AskPermit(s) \/ AwaitTrace(s) \/ CopyTrace(s) \/ SaveTrace(s)
      PROVE  PermitsConserved'
  <2>1. Holding' = Holding
    BY <1>1, <1>6 DEF AskPermit, AwaitTrace, CopyTrace, SaveTrace, Holding
  <2>2. permits' = permits
    BY <1>6 DEF AskPermit, AwaitTrace, CopyTrace, SaveTrace
  <2> QED
    BY <1>3, <2>1, <2>2
<1>7. ASSUME NEW s \in Sessions, CreateWithReplay(s)
      PROVE  PermitsConserved'
  <2>1. s \notin Holding
    <3>1. task[s] \notin {"replaying", "received", "saving", "finishing"}
      BY <1>7 DEF CreateWithReplay, New, ServiceInv, TaskInv
    <3> QED
      BY <3>1 DEF Holding
  <2>2. Holding' = Holding
    BY <1>1, <1>7, <2>1 DEF CreateWithReplay, Holding
  <2> QED
    BY <1>3, <1>7, <2>2 DEF CreateWithReplay
<1>8. ASSUME NEW s \in Sessions, CreateFromCache(s) \/ SessionStep(s)
      PROVE  PermitsConserved'
  BY <1>3, <1>8 DEF CreateFromCache, SessionStep, serviceVars, taskVars, Holding
<1>9. ASSUME NEW t \in Txs, EvictTrace(t)
      PROVE  PermitsConserved'
  BY <1>3, <1>9 DEF EvictTrace, taskVars, Holding
<1>10. CASE ServiceRestart
  <2>1. Holding' = {} /\ permits' = Permits
    BY <1>10 DEF ServiceRestart, Holding
  <2> QED
    BY <1>1, <2>1, FS_EmptySet DEF PermitsConserved
<1>11. CASE UNCHANGED svcVars
  BY <1>3, <1>11 DEF svcVars, serviceVars, taskVars, Holding
<1> QED
  BY <1>4, <1>5, <1>6, <1>7, <1>8, <1>9, <1>10, <1>11 DEF ServiceNext, TaskStep

LEMMA ServiceInvNext == ASSUME ServiceInv, [ServiceNext]_svcVars PROVE ServiceInv'
<1>1. SessionInv'
  BY ServiceStepIsStep, InvNext DEF ServiceInv
<1> QED
  BY <1>1, ServiceType, TaskNext, PermitsNext DEF ServiceInv

-----------------------------------------------------------------------------
(* Whatever the clients, the replays and the disk do, the invariant of the *)
(* sessions, the types of the service, what its tasks hold and the number  *)
(* of permits are kept (session_service.rs, create_session and its task).  *)
THEOREM ServiceInvariance == ServiceSafeSpec => []ServiceInv
<1>1. ServiceInit => ServiceInv
  BY ServiceInvInit
<1>2. ServiceInv /\ [ServiceNext]_svcVars => ServiceInv'
  BY ServiceInvNext
<1> QED
  BY <1>1, <1>2, PTL DEF ServiceSafeSpec

(* Every variable of the service has its type.                             *)
THEOREM ServiceTypeCorrect == ServiceSafeSpec => []ServiceTypeOK
<1>1. ServiceInv => ServiceTypeOK
  BY DEF ServiceInv
<1> QED
  BY <1>1, ServiceInvariance, PTL

(* No permit is lost or made, whichever way a replay ends: completed,      *)
(* aborted, failed, panicked or with a failed save (session_service.rs).   *)
THEOREM PermitsAreConserved == ServiceSafeSpec => []PermitsConserved
<1>1. ServiceInv => PermitsConserved
  BY DEF ServiceInv
<1> QED
  BY <1>1, ServiceInvariance, PTL

(* Never more EVM threads than permits: a thread lives within the task     *)
(* that holds the permit for it.                                           *)
THEOREM ReplaysAreBounded == ServiceSafeSpec => []ReplaysBounded
<1>1. ASSUME ServiceInv PROVE ReplaysBounded
  <2> DEFINE running == {s \in Sessions : evm[s] \in {"running", "hung"}}
  <2>1. running \subseteq Holding
    BY <1>1 DEF ServiceInv, TaskInv, Holding
  <2>2. IsFiniteSet(Holding)
    BY ServiceAssumption, FS_Subset DEF ServiceAssumption, Holding
  <2>3. /\ IsFiniteSet(running) /\ Cardinality(running) <= Cardinality(Holding)
    BY <2>1, <2>2, FS_Subset
  <2>4. Cardinality(running) \in Nat /\ Cardinality(Holding) \in Nat
    BY <2>2, <2>3, FS_CardinalityType
  <2>5. permits \in Nat /\ Permits \in Nat /\ permits + Cardinality(Holding) = Permits
    BY <1>1, ServiceAssumption
    DEF ServiceInv, ServiceTypeOK, PermitsConserved, ServiceAssumption
  <2> QED
    BY <2>3, <2>4, <2>5 DEF ReplaysBounded
<1> QED
  BY <1>1, ServiceInvariance, PTL

(* The cache holds, for each transaction, recordings of that transaction,  *)
(* however many replays of it save at the same time.                       *)
THEOREM CacheStaysGenuine == ServiceSafeSpec => []CacheIsGenuine
<1>1. ServiceInv => CacheIsGenuine
  BY DEF ServiceInv, TaskInv, CacheIsGenuine, Cacheable
<1> QED
  BY <1>1, ServiceInvariance, PTL

(* The service is a correct user of its sessions: it does nothing to one   *)
(* that the session's own specification does not allow, so that everything *)
(* proved of a session holds inside the service.                           *)
THEOREM ServiceUsesSessions == ServiceSafeSpec => SafeSpec
<1>1. ServiceInit => Init
  BY DEF ServiceInit
<1>2. ServiceInv /\ [ServiceNext]_svcVars => [Next]_vars
  BY ServiceStepIsStep
<1> QED
  BY <1>1, <1>2, ServiceInvariance, PTL DEF ServiceSafeSpec, SafeSpec

(* Within the service too: an abort that has returned is final, and every  *)
(* session follows the life cycle that the API promises.                   *)
THEOREM ServiceKeepsAborts == ServiceSafeSpec => []AbortHolds
BY ServiceUsesSessions, AbortIsFinal, PTL

THEOREM ServiceImplementsLifecycle == ServiceSafeSpec => Lifecycle!SafeSpec
BY ServiceUsesSessions, ImplementsLifecycleSafely, PTL

(* And so no client of the service sees its session go back, whatever the  *)
(* other sessions, the queue and the cache do.                             *)
THEOREM ServiceNeverGoesBack == ServiceSafeSpec => Lifecycle!NeverBack
BY ServiceUsesSessions, SessionsNeverGoBack, PTL
-----------------------------------------------------------------------------
(* A queue without repetition stays one when a newcomer joins it or its    *)
(* head leaves.                                                            *)
Lists(seq, s) == \E i \in 1 .. Len(seq) : seq[i] = s

NoneTwice(seq) == \A i, j \in 1 .. Len(seq) : seq[i] = seq[j] => i = j

LEMMA QueueGrows ==
  ASSUME NEW S, NEW seq \in Seq(S), NoneTwice(seq), NEW s \in S, ~Lists(seq, s)
  PROVE  /\ NoneTwice(Append(seq, s))
         /\ \A q : Lists(Append(seq, s), q) <=> Lists(seq, q) \/ q = s
<1>1. /\ Len(seq) \in Nat /\ Len(Append(seq, s)) = Len(seq) + 1
      /\ \A i \in 1 .. Len(seq) : Append(seq, s)[i] = seq[i]
      /\ Append(seq, s)[Len(seq) + 1] = s
  OBVIOUS
<1>2. \A i \in 1 .. Len(seq) + 1 : i \in 1 .. Len(seq) \/ i = Len(seq) + 1
  BY <1>1
<1>3. NoneTwice(Append(seq, s))
  BY <1>1, <1>2 DEF NoneTwice, Lists
<1>4. ASSUME NEW q
      PROVE  Lists(Append(seq, s), q) <=> Lists(seq, q) \/ q = s
  <2>1. Lists(Append(seq, s), q) => Lists(seq, q) \/ q = s
    BY <1>1, <1>2 DEF Lists
  <2>2. Lists(seq, q) => Lists(Append(seq, s), q)
    BY <1>1 DEF Lists
  <2>3. q = s => Lists(Append(seq, s), q)
    BY <1>1 DEF Lists
  <2> QED
    BY <2>1, <2>2, <2>3
<1> QED
  BY <1>3, <1>4

LEMMA QueueShrinks ==
  ASSUME NEW S, NEW seq \in Seq(S), NoneTwice(seq), seq # <<>>
  PROVE  /\ NoneTwice(Tail(seq))
         /\ \A q : Lists(Tail(seq), q) <=> Lists(seq, q) /\ q # Head(seq)
<1>1. /\ Len(seq) \in Nat /\ Len(seq) > 0 /\ Len(Tail(seq)) = Len(seq) - 1
      /\ \A i \in 1 .. Len(seq) - 1 : Tail(seq)[i] = seq[i + 1]
      /\ Head(seq) = seq[1]
  OBVIOUS
<1>2. NoneTwice(Tail(seq))
  <2> SUFFICES ASSUME NEW i \in 1 .. Len(seq) - 1, NEW j \in 1 .. Len(seq) - 1,
                      Tail(seq)[i] = Tail(seq)[j]
               PROVE  i = j
    BY <1>1 DEF NoneTwice
  <2>1. i + 1 \in 1 .. Len(seq) /\ j + 1 \in 1 .. Len(seq) /\ seq[i + 1] = seq[j + 1]
    BY <1>1
  <2> QED
    BY <2>1 DEF NoneTwice
<1>3. ASSUME NEW q
      PROVE  Lists(Tail(seq), q) <=> Lists(seq, q) /\ q # Head(seq)
  <2>1. ASSUME NEW i \in 1 .. Len(seq) - 1, Tail(seq)[i] = q
        PROVE  Lists(seq, q) /\ q # Head(seq)
    <3>1. i + 1 \in 1 .. Len(seq) /\ seq[i + 1] = q /\ i + 1 # 1 /\ 1 \in 1 .. Len(seq)
      BY <1>1, <2>1
    <3> QED
      BY <1>1, <3>1 DEF Lists, NoneTwice
  <2>2. ASSUME NEW i \in 1 .. Len(seq), seq[i] = q, q # Head(seq)
        PROVE  Lists(Tail(seq), q)
    <3>1. i - 1 \in 1 .. Len(seq) - 1 /\ Tail(seq)[i - 1] = q
      BY <1>1, <2>2
    <3> QED
      BY <1>1, <3>1 DEF Lists
  <2> QED
    BY <1>1, <2>1, <2>2 DEF Lists
<1> QED
  BY <1>2, <1>3

-----------------------------------------------------------------------------
(* TasksServeSessions is inductive beside ServiceInv, session by session.  *)
ServedAt(s) ==
  /\ waiting[s] <=> task[s] \in {"spawned", "queued", "replaying"}
  /\ task[s] \in {"spawned", "queued"} => evm[s] = "idle"
  /\ task[s] = "replaying" => evm[s] # "idle"
  /\ task[s] = "queued" <=> Lists(queue, s)

LEMMA ServedParts ==
  TasksServeSessions <=> (\A s \in Sessions : ServedAt(s)) /\ NoneTwice(queue)
BY DEF TasksServeSessions, ServedAt, NoneTwice, Lists

(* What the other threads do takes no receiver and starts no EVM thread.   *)
LEMMA SessionStepServes ==
  ASSUME TypeOK, NEW s \in Sessions, SessionStep(s), NEW q \in Sessions
  PROVE  waiting'[q] = waiting[q] /\ (evm'[q] = "idle" <=> evm[q] = "idle")
<1>1. CASE EvmRuns(s) \/ EvmBreaks(s)
  BY <1>1 DEF EvmRuns, EvmStep, EvmHalt, EvmComplete, EvmBreaks, ReplayFails, ReplayPanics,
              ReplayHangs, EvmSends, sessionVars, TypeOK
<1>2. CASE Command(s) \/ AbortSignal(s) \/ AbortMark(s)
  BY <1>2 DEF Command, StepInto, StepOver, Continue, MoveTo, AbortSignal, AbortMark
<1> QED
  BY <1>1, <1>2 DEF SessionStep

LEMMA ServedNext ==
  ASSUME ServiceInv, TasksServeSessions, [ServiceNext]_svcVars
  PROVE  TasksServeSessions'
<1>1. /\ TypeOK /\ queue \in Seq(Sessions)
      /\ task \in [Sessions -> {"none", "spawned", "queued", "replaying",
                               "received", "saving", "finishing", "done"}]
      /\ waiting \in [Sessions -> BOOLEAN]
      /\ evm \in [Sessions -> {"idle", "running", "hung", "exited"}]
      /\ \A s \in Sessions : StageOf(s)
  BY DEF ServiceInv, SessionInv, ServiceTypeOK, TypeOK, ReplayStages
<1>2. (\A s \in Sessions : ServedAt(s)) /\ NoneTwice(queue)
  BY ServedParts
<1>3. SUFFICES (\A q \in Sessions : ServedAt(q)') /\ NoneTwice(queue')
  BY DEF TasksServeSessions, ServedAt, NoneTwice, Lists
<1>4. ASSUME task' = task, queue' = queue,
             \A q \in Sessions : /\ waiting'[q] = waiting[q]
                                 /\ evm'[q] = "idle" <=> evm[q] = "idle"
      PROVE  (\A q \in Sessions : ServedAt(q)') /\ NoneTwice(queue')
  BY <1>2, <1>4 DEF ServedAt
<1>5. ASSUME NEW s \in Sessions, CreateFromCache(s)
      PROVE  (\A q \in Sessions : ServedAt(q)') /\ NoneTwice(queue')
  BY <1>4, <1>5 DEF CreateFromCache, FromCache, serviceVars, taskVars
<1>6. ASSUME NEW s \in Sessions, CreateWithReplay(s)
      PROVE  (\A q \in Sessions : ServedAt(q)') /\ NoneTwice(queue')
  <2>1. /\ evm[s] = "idle" /\ evm' = evm /\ queue' = queue
        /\ waiting' = [waiting EXCEPT ![s] = TRUE]
        /\ task' = [task EXCEPT ![s] = "spawned"]
        /\ ~waiting[s]
    BY <1>1, <1>6 DEF CreateWithReplay, New, StageOf
  <2>2. task[s] # "queued" /\ ~Lists(queue, s)
    BY <1>2, <2>1 DEF ServedAt
  <2>3. ASSUME NEW q \in Sessions PROVE ServedAt(q)'
    <3>1. CASE q = s
      BY <1>1, <2>1, <2>2, <3>1 DEF ServedAt
    <3>2. CASE q # s
      BY <1>1, <1>2, <2>1, <3>2 DEF ServedAt
    <3> QED
      BY <3>1, <3>2
  <2> QED
    BY <1>2, <2>1, <2>3
<1>7. ASSUME NEW s \in Sessions, AskPermit(s)
      PROVE  (\A q \in Sessions : ServedAt(q)') /\ NoneTwice(queue')
  <2>1. /\ task[s] = "spawned" /\ evm' = evm /\ waiting' = waiting
        /\ task' = [task EXCEPT ![s] = "queued"]
        /\ queue' = Append(queue, s)
    BY <1>7 DEF AskPermit, vars
  <2>2. ~Lists(queue, s)
    BY <1>2, <2>1 DEF ServedAt
  <2>3. /\ NoneTwice(queue')
        /\ \A q : Lists(queue', q) <=> Lists(queue, q) \/ q = s
    BY <1>1, <1>2, <2>1, <2>2, QueueGrows
  <2>4. ASSUME NEW q \in Sessions PROVE ServedAt(q)'
    <3>1. CASE q = s
      BY <1>1, <1>2, <2>1, <2>3, <3>1 DEF ServedAt
    <3>2. CASE q # s
      BY <1>1, <1>2, <2>1, <2>3, <3>2 DEF ServedAt
    <3> QED
      BY <3>1, <3>2
  <2> QED
    BY <2>3, <2>4
<1>8. ASSUME NEW s \in Sessions, StartReplay(s)
      PROVE  (\A q \in Sessions : ServedAt(q)') /\ NoneTwice(queue')
  <2>1. /\ task[s] = "queued" /\ queue # <<>> /\ s = Head(queue)
        /\ evm' = [evm EXCEPT ![s] = "running"] /\ waiting' = waiting /\ waiting[s]
        /\ task' = [task EXCEPT ![s] = "replaying"]
        /\ queue' = Tail(queue)
    BY <1>8 DEF StartReplay, Spawn
  <2>2. /\ NoneTwice(queue')
        /\ \A q : Lists(queue', q) <=> Lists(queue, q) /\ q # s
    BY <1>1, <1>2, <2>1, QueueShrinks
  <2>3. ASSUME NEW q \in Sessions PROVE ServedAt(q)'
    <3>1. CASE q = s
      BY <1>1, <2>1, <2>2, <3>1 DEF ServedAt
    <3>2. CASE q # s
      BY <1>1, <1>2, <2>1, <2>2, <3>2 DEF ServedAt
    <3> QED
      BY <3>1, <3>2
  <2> QED
    BY <2>2, <2>3
<1>9. ASSUME NEW s \in Sessions, AwaitTrace(s)
      PROVE  (\A q \in Sessions : ServedAt(q)') /\ NoneTwice(queue')
  <2>1. /\ task[s] = "replaying" /\ evm' = evm /\ queue' = queue
        /\ waiting' = [waiting EXCEPT ![s] = FALSE]
        /\ task' = [task EXCEPT ![s] = "received"]
    BY <1>9 DEF AwaitTrace, WaitForSnapshots
  <2>2. ASSUME NEW q \in Sessions PROVE ServedAt(q)'
    <3>1. CASE q = s
      BY <1>1, <1>2, <2>1, <3>1 DEF ServedAt
    <3>2. CASE q # s
      BY <1>1, <1>2, <2>1, <3>2 DEF ServedAt
    <3> QED
      BY <3>1, <3>2
  <2> QED
    BY <1>2, <2>1, <2>2
<1>10. ASSUME NEW s \in Sessions, CopyTrace(s) \/ SaveTrace(s) \/ FinishTask(s)
       PROVE  (\A q \in Sessions : ServedAt(q)') /\ NoneTwice(queue')
  <2>1. /\ task[s] \in {"received", "saving", "finishing"}
        /\ evm' = evm /\ waiting' = waiting /\ queue' = queue
        /\ task' \in {[task EXCEPT ![s] = at] : at \in {"saving", "finishing", "done"}}
    BY <1>10 DEF CopyTrace, SaveTrace, FinishTask, vars
  <2>2. PICK at \in {"saving", "finishing", "done"} : task' = [task EXCEPT ![s] = at]
    BY <2>1
  <2>3. ASSUME NEW q \in Sessions PROVE ServedAt(q)'
    <3>1. CASE q = s
      BY <1>1, <1>2, <2>1, <2>2, <3>1 DEF ServedAt
    <3>2. CASE q # s
      BY <1>1, <1>2, <2>1, <2>2, <3>2 DEF ServedAt
    <3> QED
      BY <3>1, <3>2
  <2> QED
    BY <1>2, <2>1, <2>3
<1>11. ASSUME NEW s \in Sessions, SessionStep(s)
       PROVE  (\A q \in Sessions : ServedAt(q)') /\ NoneTwice(queue')
  <2>1. task' = task /\ queue' = queue
    BY <1>11 DEF SessionStep, serviceVars, taskVars
  <2> QED
    BY <1>1, <1>4, <1>11, <2>1, SessionStepServes
<1>12. ASSUME NEW t \in Txs, EvictTrace(t)
       PROVE  (\A q \in Sessions : ServedAt(q)') /\ NoneTwice(queue')
  BY <1>4, <1>12 DEF EvictTrace, vars, taskVars
<1>13. CASE ServiceRestart
  <2>1. /\ task' = [q \in Sessions |-> "none"] /\ queue' = <<>>
        /\ waiting' = [q \in Sessions |-> FALSE]
    BY <1>13 DEF ServiceRestart, Restart
  <2>2. NoneTwice(queue') /\ \A q : ~Lists(queue', q)
    BY <2>1 DEF NoneTwice, Lists
  <2> QED
    BY <2>1, <2>2 DEF ServedAt
<1>14. CASE UNCHANGED svcVars
  BY <1>4, <1>14 DEF svcVars, vars, serviceVars, taskVars
<1> QED
  BY <1>5, <1>6, <1>7, <1>8, <1>9, <1>10, <1>11, <1>12, <1>13, <1>14
  DEF ServiceNext, TaskStep

(* No session is stranded by its task: its receiver is there when the task *)
(* comes for it and only then, its EVM thread starts once and not early,   *)
(* and the queue of the semaphore holds exactly the tasks that wait        *)
(* (session_service.rs:128-138, session.rs:91).                            *)
THEOREM NoSessionIsStranded == ServiceSafeSpec => []TasksServeSessions
<1>1. ServiceInit => TasksServeSessions
  BY DEF ServiceInit, Init, TasksServeSessions
<1>2. ServiceInv /\ TasksServeSessions /\ [ServiceNext]_svcVars => TasksServeSessions'
  BY ServedNext
<1> QED
  BY <1>1, <1>2, ServiceInvariance, PTL DEF ServiceSafeSpec

-----------------------------------------------------------------------------
(* What the session of a task or the task itself does next needs nothing   *)
(* that another one has: the guard of one of its steps holds.              *)
CanGoOn(s) ==
  \/ task[s] = "queued" /\ permits > 0 /\ s = Head(queue) /\ waiting[s] /\ evm[s] = "idle"
  \/ task[s] = "replaying" /\ evm[s] = "running"
  \/ task[s] = "replaying" /\ evm[s] = "exited" /\ waiting[s]
  \/ task[s] \in {"received", "saving", "finishing"}

Hung == {s \in Sessions : evm[s] = "hung"}

(* As long as one permit is not taken by a replay that hangs, the queue is *)
(* not stuck: its head can start, or a task that holds a permit can go on  *)
(* towards giving it back.                                                 *)
QueueMoves ==
  queue # <<>> /\ Cardinality(Hung) < Permits => \E s \in Sessions : CanGoOn(s)

(* Only replays that hang can block the queue, and only when they hold     *)
(* every permit; aborts, failures and panics never do                      *)
(* (session_service.rs:129; executor.rs:45, whose requests may hang).      *)
THEOREM OnlyHungReplaysBlock == ServiceSafeSpec => []QueueMoves
<1>1. ASSUME ServiceInv, TasksServeSessions
      PROVE  QueueMoves
  <2>1. /\ permits \in Nat /\ Permits \in Nat
        /\ permits + Cardinality(Holding) = Permits
        /\ queue \in Seq(Sessions)
        /\ evm \in [Sessions -> {"idle", "running", "hung", "exited"}]
        /\ \A s \in Sessions : ServedAt(s)
    BY <1>1, ServiceAssumption, ServedParts
    DEF ServiceInv, SessionInv, TypeOK, ServiceTypeOK, PermitsConserved, ServiceAssumption
  <2>2. IsFiniteSet(Hung) /\ Cardinality(Hung) \in Nat
    <3>1. IsFiniteSet(Hung)
      BY ServiceAssumption, FS_Subset DEF ServiceAssumption, Hung
    <3> QED
      BY <3>1, FS_CardinalityType
  <2>3. CASE queue # <<>> /\ permits > 0
    <3>1. Head(queue) \in Sessions /\ Lists(queue, Head(queue))
      <4>1. 1 \in 1 .. Len(queue) /\ Head(queue) = queue[1] /\ queue[1] \in Sessions
        BY <2>1, <2>3
      <4> QED
        BY <4>1 DEF Lists
    <3>2. CanGoOn(Head(queue))
      BY <2>1, <2>3, <3>1 DEF ServedAt, CanGoOn
    <3> QED
      BY <3>1, <3>2 DEF QueueMoves
  <2>4. CASE permits = 0 /\ Cardinality(Hung) < Permits
    <3>1. ~(Holding \subseteq Hung)
      <4>1. Cardinality(Holding) = Permits
        BY <2>1, <2>2, <2>4, FS_CardinalityType, ServiceAssumption, FS_Subset
        DEF ServiceAssumption, Holding
      <4>2. Holding \subseteq Hung => Cardinality(Holding) <= Cardinality(Hung)
        BY <2>2, FS_Subset
      <4> QED
        BY <2>1, <2>2, <2>4, <4>1, <4>2
    <3>2. PICK s \in Holding : s \notin Hung
      BY <3>1
    <3>3. s \in Sessions /\ CanGoOn(s)
      BY <2>1, <3>2 DEF Holding, Hung, ServedAt, CanGoOn
    <3> QED
      BY <3>3 DEF QueueMoves
  <2>5. permits > 0 \/ permits = 0
    BY <2>1
  <2> QED
    BY <2>3, <2>4, <2>5 DEF QueueMoves
<1> QED
  BY <1>1, ServiceInvariance, NoSessionIsStranded, PTL

(* A semaphore without permits, EVM_DEBUGGER_EVM_CONCURRENCY = 0           *)
(* (main.rs:34), replays nothing: a session that misses the cache loads    *)
(* until it is aborted or the process ends, and the cache gains nothing.   *)
NothingReplayed ==
  /\ \A s \in Sessions : task[s] \in {"none", "spawned", "queued"} /\ evm[s] = "idle"
  /\ \A t \in Txs : cache[t] = {}
  /\ \A s \in Sessions : data[s].phase \notin {"ready", "error"}

LEMMA NothingReplayedNext ==
  ASSUME Permits = 0, ServiceInv, NothingReplayed, [ServiceNext]_svcVars
  PROVE  NothingReplayed'
<1>1. /\ permits = 0 /\ TypeOK
      /\ task \in [Sessions -> {"none", "spawned", "queued", "replaying",
                               "received", "saving", "finishing", "done"}]
      /\ \A s \in Sessions : evm[s] = "idle" /\ task[s] \in {"none", "spawned", "queued"}
      /\ \A s \in Sessions : data[s].phase \notin {"ready", "error"}
      /\ \A t \in Txs : cache[t] = {}
  <2>1. IsFiniteSet(Holding)
    BY ServiceAssumption, FS_Subset DEF ServiceAssumption, Holding
  <2>2. permits \in Nat /\ Cardinality(Holding) \in Nat /\ permits + Cardinality(Holding) = 0
    BY <2>1, FS_CardinalityType DEF ServiceInv, ServiceTypeOK, PermitsConserved
  <2> QED
    BY <2>2 DEF ServiceInv, SessionInv, ServiceTypeOK, NothingReplayed
<1>2. ASSUME NEW s \in Sessions, CreateFromCache(s) PROVE FALSE
  BY <1>1, <1>2 DEF CreateFromCache, TypeOK
<1>3. ASSUME NEW s \in Sessions, CreateWithReplay(s) PROVE NothingReplayed'
  BY <1>1, <1>3 DEF CreateWithReplay, New, Bare, TypeOK, NothingReplayed
<1>4. ASSUME NEW s \in Sessions, AskPermit(s) PROVE NothingReplayed'
  BY <1>1, <1>4 DEF AskPermit, vars, NothingReplayed
<1>5. ASSUME NEW s \in Sessions,
             \/ StartReplay(s) \/ AwaitTrace(s) \/ CopyTrace(s)
             \/ SaveTrace(s) \/ FinishTask(s)
      PROVE  FALSE
  BY <1>1, <1>5 DEF StartReplay, AwaitTrace, CopyTrace, SaveTrace, FinishTask
<1>6. ASSUME NEW s \in Sessions, SessionStep(s) PROVE NothingReplayed'
  <2>1. ~EvmRuns(s) /\ ~EvmBreaks(s) /\ ~Command(s)
    BY <1>1 DEF EvmRuns, EvmStep, EvmHalt, EvmComplete, EvmBreaks, ReplayFails, ReplayPanics,
                ReplayHangs, Command, StepInto, StepOver, Continue, MoveTo
  <2>2. AbortSignal(s) \/ AbortMark(s)
    BY <1>6, <2>1 DEF SessionStep
  <2>3. evm' = evm
    BY <2>2 DEF AbortSignal, AbortMark
  <2>4. \A q \in Sessions : data'[q].phase \notin {"ready", "error"}
    <3>1. CASE AbortSignal(s)
      BY <1>1, <3>1 DEF AbortSignal
    <3>2. CASE AbortMark(s)
      BY <1>1, <3>2 DEF AbortMark, Bare, TypeOK
    <3> QED
      BY <2>2, <3>1, <3>2
  <2>5. task' = task /\ cache' = cache
    BY <1>6 DEF SessionStep, serviceVars, taskVars
  <2> QED
    BY <1>1, <2>3, <2>4, <2>5 DEF NothingReplayed
<1>7. ASSUME NEW t \in Txs, EvictTrace(t) PROVE FALSE
  BY <1>1, <1>7 DEF EvictTrace
<1>8. CASE ServiceRestart
  BY <1>1, <1>8 DEF ServiceRestart, Restart, Bare, NothingReplayed
<1>9. CASE UNCHANGED svcVars
  BY <1>9 DEF svcVars, vars, serviceVars, taskVars, NothingReplayed
<1> QED
  BY <1>2, <1>3, <1>4, <1>5, <1>6, <1>7, <1>8, <1>9 DEF ServiceNext, TaskStep

THEOREM NoPermitsNoReplay == Permits = 0 => (ServiceSafeSpec => []NothingReplayed)
<1> SUFFICES ASSUME Permits = 0
             PROVE  ServiceSafeSpec => []NothingReplayed
  OBVIOUS
<1>1. ServiceInit => NothingReplayed
  BY DEF ServiceInit, Init, NothingReplayed, Bare
<1>2. ServiceInv /\ NothingReplayed /\ [ServiceNext]_svcVars => NothingReplayed'
  BY NothingReplayedNext
<1> QED
  BY <1>1, <1>2, ServiceInvariance, PTL DEF ServiceSafeSpec
=============================================================================
