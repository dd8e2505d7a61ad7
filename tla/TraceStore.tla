------------------------------ MODULE TraceStore ------------------------------
(***************************************************************************)
(* What the rest of the program takes the trace cache of a transaction to  *)
(* be: one value that is looked up, replaced and removed in a single step  *)
(* each, and that survives the process.  ReplayService is written against  *)
(* such a cache; CacheDir, where every one of these steps is several and   *)
(* the files are shared with a clean-up, is shown to implement it.         *)
(***************************************************************************)
CONSTANTS Requests,  \* calls of create_session for the transaction
          Nobody     \* no request

VARIABLES value,     \* the request whose replay is cached, or Nobody
          answer,    \* what each request was told
          found      \* the replay that a request was served
vars == <<value, answer, found>>

Init ==
  /\ value = Nobody
  /\ answer = [r \in Requests |-> "open"]
  /\ found = [r \in Requests |-> Nobody]

(* A request is served from the cache.                                     *)
Hit(r) ==
  /\ answer[r] = "open"
  /\ value # Nobody
  /\ answer' = [answer EXCEPT ![r] = "hit"]
  /\ found' = [found EXCEPT ![r] = value]
  /\ UNCHANGED value

(* The cache is empty, and the request replays the transaction.            *)
Miss(r) ==
  /\ answer[r] = "open"
  /\ value = Nobody
  /\ answer' = [answer EXCEPT ![r] = "miss"]
  /\ UNCHANGED <<value, found>>

(* The request is refused; it has changed nothing.                         *)
Fail(r) ==
  /\ answer[r] = "open"
  /\ answer' = [answer EXCEPT ![r] = "failed"]
  /\ UNCHANGED <<value, found>>

(* Only a request that replayed its transaction saves a trace.             *)
Save(r) ==
  /\ answer[r] = "miss"
  /\ value' = r
  /\ UNCHANGED <<answer, found>>

Evict ==
  /\ value # Nobody
  /\ value' = Nobody
  /\ UNCHANGED <<answer, found>>

(* The process ends, and the requests that it was serving; not the cache.  *)
Restart ==
  /\ \E lost \in SUBSET {r \in Requests : answer[r] \in {"open", "miss"}} :
       answer' = [r \in Requests |-> IF r \in lost THEN "gone" ELSE answer[r]]
  /\ UNCHANGED <<value, found>>

Next ==
  \/ \E r \in Requests : Hit(r) \/ Miss(r) \/ Fail(r) \/ Save(r)
  \/ Evict
  \/ Restart

Spec == Init /\ [][Next]_vars

-----------------------------------------------------------------------------
(* Whoever is served from the cache is served what another request         *)
(* replayed and saved, be that request still there or not, and that        *)
(* request itself was not served: no trace comes out of a cache that a     *)
(* replay did not put into it.                                             *)
ServedByMisses ==
  /\ value # Nobody => value \in Requests /\ answer[value] \in {"miss", "gone"}
  /\ \A r \in Requests :
       answer[r] = "hit" =>
         found[r] \in Requests \ {r} /\ answer[found[r]] \in {"miss", "gone"}
=============================================================================
