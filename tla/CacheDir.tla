------------------------------- MODULE CacheDir -------------------------------
(***************************************************************************)
(* The cache directory: what create_session does with the two files of a   *)
(* transaction, cache/<hash>.json with its data (fetcher.rs) and           *)
(* cache/trace_*.json with its trace (trace_cache.rs), how both are        *)
(* written (fs_utils.rs), and how old files are removed (main.rs).         *)
(*                                                                         *)
(* A request looks for the transaction's file, reads it or asks the RPC    *)
(* node and writes it; then it looks for the trace, reads it or replays,   *)
(* and writes it in the end.  Each call into the file system is a step of  *)
(* its own, and everything may happen between two of them: another request *)
(* for the same transaction, the clean-up, the end of the process.  Files  *)
(* of other transactions have other names and are never touched.           *)
(***************************************************************************)
EXTENDS Naturals

CONSTANTS Requests,    \* calls of create_session for the transaction
          Nobody,      \* no request: the suffix of a final name
          DiskFails,   \* whether writing to the disk may fail
          Ttl,         \* EVM_DEBUGGER_CACHE_TTL_SECS
          MaxNow,      \* bound of the clock
          MaxRestarts  \* bound on the restarts of the process

ASSUME CacheAssumption ==
  /\ Nobody \notin Requests
  /\ DiskFails \in BOOLEAN
  /\ Ttl \in Nat /\ MaxNow \in Nat /\ MaxRestarts \in Nat

VARIABLES files,      \* [Names -> Files]: the directory
          now,        \* the clock, in seconds
          pc,         \* where each request is
          kind,       \* the file it is concerned with
          found,      \* the request whose trace it was served
          cleaner,    \* where cleanup_cache_dir is
          clean_now,  \* the time it has read
          unseen,     \* names its iteration has still to visit
          doomed,     \* the name it is about to remove
          restarts,
          rewritten,  \* history: doomed was written after its age was read
          moved,      \* history: names given by a rename during the clean-up
          robbed      \* history: requests whose file left while they looked

requestVars == <<pc, kind, found>>
cleanerVars == <<cleaner, clean_now, unseen, doomed>>
historyVars == <<rewritten, moved, robbed>>
vars == <<files, now, requestVars, cleanerVars, restarts, historyVars>>

-----------------------------------------------------------------------------
Kinds == {"tx", "trace"}

(* A temporary name carries the id of its write, and a request writes each *)
(* of its files once: the request stands for the id.                       *)
Names    == Kinds \X (Requests \union {Nobody})
Final(k) == <<k, Nobody>>

Absent == [state |-> "absent", by |-> Nobody, mtime |-> 0]
Files  == {Absent} \union [state : {"partial", "whole"}, by : Requests, mtime : Nat]
Present(n) == files[n].state # "absent"
Written(state, r) == [state |-> state, by |-> r, mtime |-> now]

Init ==
  /\ files = [n \in Names |-> Absent]
  /\ now = 0
  /\ pc = [r \in Requests |-> "idle"]
  /\ kind = [r \in Requests |-> "tx"]
  /\ found = [r \in Requests |-> Nobody]
  /\ cleaner = "asleep"
  /\ clean_now = 0
  /\ unseen = {}
  /\ doomed = Final("tx")
  /\ restarts = 0
  /\ rewritten = FALSE
  /\ moved = {}
  /\ robbed = {}

Tick ==
  /\ now < MaxNow
  /\ now' = now + 1
  /\ UNCHANGED <<files, requestVars, cleanerVars, restarts, historyVars>>

(* The request goes on to another step.                                    *)
Goto(r, step) ==
  /\ pc' = [pc EXCEPT ![r] = step]
  /\ UNCHANGED <<now, kind, cleanerVars, restarts>>

(* The transaction is known: the next file is the trace.                   *)
GotoTrace(r) ==
  /\ pc' = [pc EXCEPT ![r] = "exists"]
  /\ kind' = [kind EXCEPT ![r] = "trace"]
  /\ UNCHANGED <<now, cleanerVars, restarts>>

-----------------------------------------------------------------------------
(* create_session begins.  The name of the older releases' cache file is   *)
(* made from the hash as it was entered; create_session has brought that   *)
(* into canonical form, so that both names are the same.                   *)
Begin(r) ==
  /\ pc[r] = "idle"
  /\ Goto(r, "exists")
  /\ UNCHANGED <<files, found, historyVars>>

(* Path::exists, in fetch_tx_info and in load_trace_cache.                 *)
Look(r) ==
  /\ pc[r] = "exists"
  /\ Goto(r, IF Present(Final(kind[r])) THEN "read"
             ELSE IF kind[r] = "tx" THEN "exists_legacy" ELSE "replay")
  /\ robbed' = robbed \ {r}
  /\ UNCHANGED <<files, found, rewritten, moved>>

LookAgain(r) ==
  /\ pc[r] = "exists_legacy"
  /\ Goto(r, IF Present(Final("tx")) THEN "read" ELSE "ask_tx")
  /\ UNCHANGED <<files, found, historyVars>>

(* A mutant: a file that has vanished is read as an empty trace.           *)
ReadVanished(r) ==
  /\ pc[r] = "read"
  /\ IF kind[r] = "tx" THEN GotoTrace(r) /\ UNCHANGED found
     ELSE Goto(r, "ready") /\ found' = [found EXCEPT ![r] = files[Final("trace")].by]
  /\ UNCHANGED <<files, historyVars>>

(* read_to_string and from_str.  A file that has vanished, or that cannot  *)
(* be parsed, fails the request.                                           *)
Read(r) ==
  /\ pc[r] = "read"
  /\ IF files[Final(kind[r])].state # "whole" THEN Goto(r, "failed") /\ UNCHANGED found
     ELSE IF kind[r] = "tx" THEN GotoTrace(r) /\ UNCHANGED found
     ELSE Goto(r, "ready") /\ found' = [found EXCEPT ![r] = files[Final("trace")].by]
  /\ UNCHANGED <<files, historyVars>>

(* The node answers the request for the transaction, then for its block.   *)
RpcAnswers(r) ==
  /\ \/ pc[r] = "ask_tx" /\ Goto(r, "ask_block")
     \/ pc[r] = "ask_block" /\ Goto(r, "open")
  /\ UNCHANGED <<files, found, historyVars>>

(* A mutant: the requests have no timeout.                                 *)
RpcFailsIfAnswered(r) == FALSE

(* It answers with an error, or that there is no such transaction or block *)
(* or none yet, or not in time; or the client hangs up, which drops the    *)
(* handler where it awaits.                                                *)
RpcFails(r) ==
  /\ pc[r] \in {"ask_tx", "ask_block"}
  /\ Goto(r, "failed")
  /\ UNCHANGED <<files, found, historyVars>>

-----------------------------------------------------------------------------
(* write_atomic: create, write, rename.  In the mutant TargetFinal it      *)
(* writes in place.                                                        *)
TargetFinal(r) == Final(kind[r])

Target(r) == <<kind[r], r>>

(* The temporary file exists, and is empty or holds a part.                *)
Open(r) ==
  /\ pc[r] = "open"
  /\ Goto(r, "fill")
  /\ files' = [files EXCEPT ![Target(r)] = Written("partial", r)]
  /\ rewritten' = (rewritten \/ doomed = Target(r))
  /\ UNCHANGED <<found, moved, robbed>>

(* All of it is written; if the clean-up has removed the name meanwhile,   *)
(* to a file that nobody can find.                                         *)
Fill(r) ==
  /\ pc[r] = "fill"
  /\ Goto(r, "rename")
  /\ files' = IF Present(Target(r))
              THEN [files EXCEPT ![Target(r)] = Written("whole", r)] ELSE files
  /\ rewritten' = (rewritten \/ doomed = Target(r))
  /\ UNCHANGED <<found, moved, robbed>>

(* A mutant: a transaction that had to be fetched has no trace, it is      *)
(* assumed, and is replayed without a look.                                *)
RenameSkipsLook(r) ==
  /\ pc[r] = "rename"
  /\ Present(Target(r))
  /\ pc' = [pc EXCEPT ![r] = IF kind[r] = "tx" THEN "replay" ELSE "done"]
  /\ kind' = [kind EXCEPT ![r] = "trace"]
  /\ files' = [files EXCEPT ![Target(r)] = Absent, ![Final(kind[r])] = files[Target(r)]]
  /\ rewritten' = (rewritten \/ doomed = Final(kind[r]))
  /\ moved' = IF cleaner = "asleep" THEN moved ELSE moved \union {Final(kind[r])}
  /\ UNCHANGED <<now, found, cleanerVars, restarts, robbed>>

(* The rename replaces whatever has the final name.                        *)
Rename(r) ==
  /\ pc[r] = "rename"
  /\ Present(Target(r))
  /\ IF kind[r] = "tx" THEN GotoTrace(r) ELSE Goto(r, "done")
  /\ files' = [files EXCEPT ![Target(r)] = Absent, ![Final(kind[r])] = files[Target(r)]]
  /\ rewritten' = (rewritten \/ doomed = Final(kind[r]))
  /\ moved' = IF cleaner = "asleep" THEN moved ELSE moved \union {Final(kind[r])}
  /\ UNCHANGED <<found, robbed>>

(* A step of write_atomic fails: fetch_tx_info passes the error on, the    *)
(* background task drops it.  What was written stays where it is.          *)
WriteFails(r) ==
  /\ \/ DiskFails /\ pc[r] \in {"open", "fill", "rename"}
     \/ pc[r] = "rename" /\ ~Present(Target(r))
  /\ Goto(r, IF kind[r] = "tx" THEN "failed" ELSE "done")
  /\ UNCHANGED <<files, found, historyVars>>

(* The replay ends, and there is a trace to save or there is none.         *)
ReplayEnds(r) ==
  /\ pc[r] = "replay"
  /\ Goto(r, "open") \/ Goto(r, "done")
  /\ UNCHANGED <<files, found, historyVars>>

-----------------------------------------------------------------------------
(* cleanup_cache_dir.  A file that appears in the directory later than the *)
(* iteration is too young to be removed, whether or not it is listed.      *)
CleanStart ==
  /\ cleaner = "asleep"
  /\ cleaner' = "reading"
  /\ clean_now' = now
  /\ unseen' = {n \in Names : Present(n)}
  /\ moved' = {}
  /\ UNCHANGED <<files, now, requestVars, doomed, restarts, rewritten, robbed>>

(* Mutants of the comparison: one that removes a file which is just as old *)
(* as allowed, and no clean-up.                                            *)
ExpiredEarly(n) == clean_now >= files[n].mtime + Ttl
ExpiredNever(n) == FALSE

Expired(n) == clean_now > files[n].mtime + Ttl

(* A mutant: an entry that has vanished ends the iteration.                *)
CleanLookStops(n) ==
  /\ cleaner = "reading"
  /\ n \in unseen
  /\ unseen' = IF Present(n) THEN unseen \ {n} ELSE {}
  /\ IF Present(n) /\ Expired(n)
     THEN cleaner' = "removing" /\ doomed' = n /\ rewritten' = FALSE
     ELSE UNCHANGED <<cleaner, doomed, rewritten>>
  /\ UNCHANGED <<files, now, requestVars, clean_now, restarts, moved, robbed>>

(* The iteration comes to a name; one that has vanished is passed over.    *)
CleanLook(n) ==
  /\ cleaner = "reading"
  /\ n \in unseen
  /\ unseen' = unseen \ {n}
  /\ IF Present(n) /\ Expired(n)
     THEN cleaner' = "removing" /\ doomed' = n /\ rewritten' = FALSE
     ELSE UNCHANGED <<cleaner, doomed, rewritten>>
  /\ UNCHANGED <<files, now, requestVars, clean_now, restarts, moved, robbed>>

(* remove_file, by name.                                                   *)
CleanRemove ==
  /\ cleaner = "removing"
  /\ cleaner' = "reading"
  /\ files' = [files EXCEPT ![doomed] = Absent]
  /\ robbed' = robbed \union {r \in Requests : pc[r] = "read" /\ Final(kind[r]) = doomed}
  /\ UNCHANGED <<now, requestVars, clean_now, unseen, doomed, restarts, rewritten, moved>>

CleanEnd ==
  /\ cleaner = "reading"
  /\ unseen = {}
  /\ cleaner' = "asleep"
  /\ moved' = {}
  /\ UNCHANGED <<files, now, requestVars, clean_now, unseen, doomed, restarts, rewritten, robbed>>

CleanStep == CleanStart \/ CleanRemove \/ CleanEnd \/ \E n \in Names : CleanLook(n)

-----------------------------------------------------------------------------
Ended == {"ready", "done", "failed", "gone"}

(* The process ends and starts again; only the directory stays.            *)
Restart ==
  /\ restarts < MaxRestarts
  /\ restarts' = restarts + 1
  /\ pc' = [r \in Requests |-> IF pc[r] \in Ended \union {"idle"} THEN pc[r] ELSE "gone"]
  /\ cleaner' = "asleep"
  /\ unseen' = {}
  /\ moved' = {}
  /\ UNCHANGED <<files, now, kind, found, clean_now, doomed, rewritten, robbed>>

RequestStep(r) ==
  \/ Look(r) \/ LookAgain(r) \/ Read(r) \/ RpcFails(r)
  \/ Open(r) \/ Fill(r) \/ Rename(r) \/ WriteFails(r)

Next ==
  \/ \E r \in Requests : Begin(r) \/ RequestStep(r) \/ RpcAnswers(r) \/ ReplayEnds(r)
  \/ CleanStep
  \/ Tick
  \/ Restart

(* A request that can go on does; RpcFails is among its steps because of   *)
(* the timeouts.  Nobody has to send a request, nor the node to answer,    *)
(* nor need a replay end.  The clean-up runs again and again.              *)
Fairness ==
  /\ \A r \in Requests : WF_vars(RequestStep(r))
  /\ WF_vars(CleanStep)

SafeSpec == Init /\ [][Next]_vars
Spec == SafeSpec /\ Fairness

-----------------------------------------------------------------------------
Steps == {"idle", "exists", "exists_legacy", "read", "ask_tx", "ask_block",
          "open", "fill", "rename", "replay"} \union Ended

(* Every variable has its type, and who was served from the cache was      *)
(* served a replay.                                                        *)
TypeOK ==
  /\ files \in [Names -> Files]
  /\ now \in Nat
  /\ pc \in [Requests -> Steps]
  /\ kind \in [Requests -> Kinds]
  /\ found \in [Requests -> Requests \union {Nobody}]
  /\ \A r \in Requests : pc[r] = "ready" => found[r] # Nobody
  /\ cleaner \in {"asleep", "reading", "removing"}
  /\ clean_now \in Nat
  /\ unseen \subseteq Names
  /\ doomed \in Names
  /\ restarts \in Nat
  /\ rewritten \in BOOLEAN
  /\ moved \subseteq Names
  /\ robbed \subseteq Requests

(* A file with a final name is always whole, whatever fails, crashes or is *)
(* removed half-way (fs_utils.rs: why it writes to a temporary file), so   *)
(* that no request ever parses a part of one.                              *)
FinalFilesWhole == \A k \in Kinds : files[Final(k)].state # "partial"

(* A request fails over a cache file only if the clean-up removed the file *)
(* between exists and read_to_string (trace_cache.rs:25, fetcher.rs:27);   *)
(* the traffic of other requests, renames included, never makes it fail.   *)
ReadsFailWhenRobbed ==
  [][\A r \in Requests :
       pc[r] = "read" /\ pc'[r] = "failed" => r \in robbed]_vars

(* A file leaves its name only by the rename of its own write, or removed  *)
(* by the clean-up after its time to live.  Its age may be read too early: *)
(* a file that was written anew after that is lost although it is young,   *)
(* but no other is (main.rs:100-112, fs_utils.rs:14).                      *)
OnlyOldFilesLeave ==
  [][\A n \in Names :
       Present(n) /\ files'[n] = Absent =>
         \/ \E r \in Requests : pc[r] = "rename" /\ files'[Final(n[1])] = files[n]
         \/ clean_now > files[n].mtime + Ttl
         \/ n = doomed /\ rewritten]_vars

(* A clean-up misses none: once it has seen every name, no file is too old *)
(* by the time it has read, although requests write and rename files while *)
(* it goes through the directory.  Only a rename hides one from it, which  *)
(* moves an old temporary file to a name it has passed (main.rs:96-112).   *)
CleanUpMissesNone ==
  cleaner = "reading" /\ unseen = {} =>
    \A n \in Names : Present(n) => clean_now <= files[n].mtime + Ttl \/ n \in moved

(* What is too old leaves the directory, the temporary files of writes     *)
(* that failed or died with the process included (main.rs:84-86).          *)
OldFilesLeave ==
  \A n \in Names :
    (Present(n) /\ now > files[n].mtime + Ttl)
      ~> (~Present(n) \/ now <= files[n].mtime + Ttl)

(* create_session answers every request, even if the node never does       *)
(* (fetcher.rs:69, the timeout), unless the process ends first.            *)
Creating(r) ==
  \/ pc[r] \in {"exists", "exists_legacy", "read", "ask_tx", "ask_block"}
  \/ kind[r] = "tx" /\ pc[r] \in {"open", "fill", "rename"}

RequestsAnswered == \A r \in Requests : Creating(r) ~> ~Creating(r)

-----------------------------------------------------------------------------
(* The cache that these steps amount to.                                   *)
AnswerOf(r) ==
  CASE pc[r] = "idle" \/ Creating(r) -> "open"
    [] pc[r] = "ready"               -> "hit"
    [] pc[r] \in {"failed", "gone"}  -> pc[r]
    [] OTHER                         -> "miss"

cached  == files[Final("trace")].by
answers == [r \in Requests |-> AnswerOf(r)]

Store == INSTANCE TraceStore WITH value <- cached, answer <- answers

(* Seen from the program, the trace file is looked up, replaced and        *)
(* removed atomically: the assumption on which ReplayService rests.        *)
ImplementsTraceStore == Store!Spec
=============================================================================
