---------------------------- MODULE ReplayService ----------------------------
(***************************************************************************)
(* The session service (session_service.rs): how sessions are created from *)
(* the trace cache or by a replay, how many replays run at a time, and     *)
(* what the replays leave in the cache.  Every session that misses the     *)
(* cache has a background task which queues for a permit of the semaphore, *)
(* starts the EVM thread, waits for its trace, saves it, and only then     *)
(* drops the permit.  The sessions themselves are those of DebugSession:   *)
(* every action here that touches one is conjoined with its action there.  *)
(*                                                                         *)
(* create_session is one action: it awaits only the fetch of the           *)
(* transaction, before which it has done nothing and whose failure leaves  *)
(* nothing behind, and the cache lookup and the insertion follow without   *)
(* a pause of their own.                                                   *)
(***************************************************************************)
EXTENDS DebugSession, FiniteSets

CONSTANTS Permits,    \* EVM_DEBUGGER_EVM_CONCURRENCY
          SavesFail   \* whether writing a cache file may fail

ASSUME ServiceAssumption ==
  /\ IsFiniteSet(Sessions)
  /\ Permits \in Nat
  /\ SavesFail \in BOOLEAN

VARIABLES task,     \* where the background task of a session is
          queue,    \* tasks that wait for a permit, in the order they asked
          permits,  \* permits left in the semaphore
          pending,  \* the copy of the trace that a task is about to save
          cache     \* the cache file of each transaction, {} when there is none

taskVars    == <<task, queue, permits, pending>>
serviceVars == <<taskVars, cache>>
svcVars     == <<vars, serviceVars>>

-----------------------------------------------------------------------------
ServiceInit ==
  /\ Init
  /\ task = [s \in Sessions |-> "none"]
  /\ queue = <<>>
  /\ permits = Permits
  /\ pending = [s \in Sessions |-> {}]
  /\ cache = [t \in Txs |-> {}]

(* create_session finds a cache file: the session is ready at once.        *)
CreateFromCache(s) ==
  /\ \E file \in cache[tx[s]] : FromCache(s, file)
  /\ UNCHANGED serviceVars

(* create_session finds none: the session is loading and has a task.       *)
CreateWithReplay(s) ==
  /\ cache[tx[s]] = {}
  /\ New(s)
  /\ task' = [task EXCEPT ![s] = "spawned"]
  /\ UNCHANGED <<queue, permits, pending, cache>>

(* The task calls acquire_owned; the semaphore serves in order.            *)
AskPermit(s) ==
  /\ task[s] = "spawned"
  /\ task' = [task EXCEPT ![s] = "queued"]
  /\ queue' = Append(queue, s)
  /\ UNCHANGED <<vars, permits, pending, cache>>

(* Mutants: the task does not wait until a permit is free; and             *)
(* "let _ = ..." in place of "let _permit = ..." drops the permit in the  *)
(* statement that acquires it.                                             *)
StartReplayUngated(s) ==
  /\ task[s] = "queued"
  /\ queue # <<>> /\ s = Head(queue)
  /\ Spawn(s)
  /\ queue' = Tail(queue)
  /\ permits' = permits - 1
  /\ task' = [task EXCEPT ![s] = "replaying"]
  /\ UNCHANGED <<pending, cache>>

StartReplayUnheld(s) ==
  /\ task[s] = "queued"
  /\ permits > 0
  /\ queue # <<>> /\ s = Head(queue)
  /\ Spawn(s)
  /\ queue' = Tail(queue)
  /\ task' = [task EXCEPT ![s] = "replaying"]
  /\ UNCHANGED <<permits, pending, cache>>

StartReplay(s) ==
  /\ task[s] = "queued"
  /\ permits > 0
  /\ queue # <<>> /\ s = Head(queue)
  /\ Spawn(s)
  /\ queue' = Tail(queue)
  /\ permits' = permits - 1
  /\ task' = [task EXCEPT ![s] = "replaying"]
  /\ UNCHANGED <<pending, cache>>

AwaitTrace(s) ==
  /\ task[s] = "replaying"
  /\ WaitForSnapshots(s)
  /\ task' = [task EXCEPT ![s] = "received"]
  /\ UNCHANGED <<queue, permits, pending, cache>>

(* snapshots_for_cache, under the lock again: only a ready session has     *)
(* something to save.                                                      *)
CopyTrace(s) ==
  /\ task[s] = "received"
  /\ IF data[s].phase = "ready"
     THEN /\ pending' = [pending EXCEPT ![s] =
               {[snapshots |-> data[s].snapshots, result |-> data[s].result]}]
          /\ task' = [task EXCEPT ![s] = "saving"]
     ELSE /\ task' = [task EXCEPT ![s] = "finishing"]
          /\ UNCHANGED pending
  /\ UNCHANGED <<vars, queue, permits, cache>>

(* cache.save replaces the file in one rename; its error is dropped.       *)
SaveTrace(s) ==
  /\ task[s] = "saving"
  /\ \/ cache' = [cache EXCEPT ![tx[s]] = pending[s]]
     \/ SavesFail /\ UNCHANGED cache
  /\ pending' = [pending EXCEPT ![s] = {}]
  /\ task' = [task EXCEPT ![s] = "finishing"]
  /\ UNCHANGED <<vars, queue, permits>>

(* A mutant: the permit is forgotten instead of dropped.                   *)
FinishTaskLeaks(s) ==
  /\ task[s] = "finishing"
  /\ task' = [task EXCEPT ![s] = "done"]
  /\ UNCHANGED <<vars, queue, permits, pending, cache>>

(* The task ends and drops its permit.                                     *)
FinishTask(s) ==
  /\ task[s] = "finishing"
  /\ task' = [task EXCEPT ![s] = "done"]
  /\ permits' = permits + 1
  /\ UNCHANGED <<vars, queue, pending, cache>>

-----------------------------------------------------------------------------
(* What the other threads do to a session while its task is anywhere.      *)
SessionStep(s) ==
  /\ EvmRuns(s) \/ EvmBreaks(s) \/ Command(s) \/ AbortSignal(s) \/ AbortMark(s)
  /\ UNCHANGED serviceVars

(* cleanup_cache_dir removes a file that has grown old.                    *)
EvictTrace(t) ==
  /\ cache[t] # {}
  /\ cache' = [cache EXCEPT ![t] = {}]
  /\ UNCHANGED <<vars, taskVars>>

(* The process ends and starts again: only the cache survives.             *)
ServiceRestart ==
  /\ Restart
  /\ task' = [s \in Sessions |-> "none"]
  /\ queue' = <<>>
  /\ permits' = Permits
  /\ pending' = [s \in Sessions |-> {}]
  /\ UNCHANGED cache

TaskStep(s) ==
  \/ AskPermit(s) \/ StartReplay(s) \/ AwaitTrace(s)
  \/ CopyTrace(s) \/ SaveTrace(s) \/ FinishTask(s)

ServiceNext ==
  \/ \E s \in Sessions :
       CreateFromCache(s) \/ CreateWithReplay(s) \/ TaskStep(s) \/ SessionStep(s)
  \/ \E t \in Txs : EvictTrace(t)
  \/ ServiceRestart

(* Every task, EVM thread and abort handler that can go on does.           *)
ServiceFairness ==
  \A s \in Sessions :
    /\ WF_svcVars(TaskStep(s))
    /\ WF_svcVars(EvmRuns(s) /\ UNCHANGED serviceVars)
    /\ WF_svcVars(AbortMark(s) /\ UNCHANGED serviceVars)

ServiceSafeSpec == ServiceInit /\ [][ServiceNext]_svcVars
ServiceSpec == ServiceSafeSpec /\ ServiceFairness

-----------------------------------------------------------------------------
Holding == {s \in Sessions : task[s] \in {"replaying", "received", "saving", "finishing"}}

(* Every variable has its type.                                            *)
ServiceTypeOK ==
  /\ task \in [Sessions -> {"none", "spawned", "queued", "replaying",
                            "received", "saving", "finishing", "done"}]
  /\ queue \in Seq(Sessions)
  /\ permits \in Nat
  /\ pending \in [Sessions -> SUBSET UNION {Recordings(t) : t \in Txs}]
  /\ cache \in [Txs -> SUBSET UNION {Recordings(t) : t \in Txs}]

(* No permit is lost or made: the permits left and the tasks that hold one *)
(* add up to the configured number, whichever way a replay ends            *)
(* (session_service.rs:129, _permit lives as long as the task).            *)
PermitsConserved == permits + Cardinality(Holding) = Permits

(* At no time do more EVM threads run than EVM_DEBUGGER_EVM_CONCURRENCY    *)
(* allows, whatever is aborted, fails or hangs (README.md, main.rs:34).    *)
ReplaysBounded ==
  Cardinality({s \in Sessions : evm[s] \in {"running", "hung"}}) <= Permits

(* No session is stranded by its task.  The receiver of a session is there *)
(* exactly while its task has yet to take it, so that wait_for_snapshots   *)
(* never finds it consumed and none is left behind (session.rs:91); the    *)
(* EVM thread is started neither early nor twice; and the tasks that wait  *)
(* for a permit stand in the queue, each once, so that a permit never goes *)
(* to a task that has left.  All of it whatever is aborted meanwhile.      *)
TasksServeSessions ==
  /\ \A s \in Sessions :
       /\ waiting[s] <=> task[s] \in {"spawned", "queued", "replaying"}
       /\ task[s] \in {"spawned", "queued"} => evm[s] = "idle"
       /\ task[s] = "replaying" => evm[s] # "idle"
       /\ task[s] = "queued" <=> \E i \in 1 .. Len(queue) : queue[i] = s
  /\ \A i, j \in 1 .. Len(queue) : queue[i] = queue[j] => i = j

(* What the cache holds for a transaction is a recording of that           *)
(* transaction: a save never lands on another transaction's file, is never *)
(* empty without a result, and no interleaving of two replays of one       *)
(* transaction mixes their traces.                                         *)
CacheIsGenuine ==
  \A t \in Txs : \A file \in cache[t] :
    /\ file \in Recordings(t)
    /\ file.result = "none" => "replay" \in Faults

(* Every session that was queued for a replay is served: its task ends, and *)
(* with it the use of its permit, however many sessions compete for it.    *)
EverySessionServed ==
  \A s \in Sessions : task[s] = "spawned" ~> task[s] \in {"done", "none"}

(* The service gives each session the fairness DebugSession asks for: no   *)
(* session that is created is forgotten in the queue.                      *)
ServesSessions == Spec

(* README.md:56: the cache keeps complete execution traces, all of their  *)
(* steps and their result.                                                 *)
CachedTracesAreComplete ==
  \A t \in Txs : \A file \in cache[t] :
    file.snapshots = FullTrace[t] /\ file.result = Outcome[t]
=============================================================================
