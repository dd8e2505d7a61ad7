--------------------------- MODULE SessionLifecycle ---------------------------
(***************************************************************************)
(* What a debug session promises to the client that drives it through the  *)
(* HTTP API, with no threads, channels or flags: it is opened, its trace   *)
(* settles once, commands only ever move it forwards through that trace,   *)
(* it can be aborted at any time, and an aborted or failed session never   *)
(* comes back.  DebugSession is shown to implement this; the collector,    *)
(* which takes a session from the map and leaves it alone otherwise, is in *)
(* SessionRegistry.                                                        *)
(***************************************************************************)
EXTENDS Integers

CONSTANTS Sessions,  \* session ids, never reused (Uuid::new_v4)
          Lengths    \* the lengths a recorded trace may have, natural numbers

VARIABLES status,    \* the kind of SessionState a client is told
          position,  \* how far the commands have moved through the trace
          length,    \* the length of the recorded trace
          ending     \* the status at the end of the trace
vars == <<status, position, length, ending>>

Statuses == {"absent", "loading", "paused", "finished", "aborted", "error", "gone"}
Endings  == {"finished", "aborted"}

Init ==
  /\ status = [s \in Sessions |-> "absent"]
  /\ position = [s \in Sessions |-> 0]
  /\ length = [s \in Sessions |-> 0]
  /\ ending = [s \in Sessions |-> "aborted"]

Reported(p, n, e) == IF p < n THEN "paused" ELSE e

(* The trace of s is known: from now on it has n snapshots and ending e.   *)
(* A session without a single step always has a result to show.            *)
Settle(s, n, e) ==
  /\ n = 0 => e = "finished"
  /\ status' = [status EXCEPT ![s] = Reported(0, n, e)]
  /\ position' = [position EXCEPT ![s] = 0]
  /\ length' = [length EXCEPT ![s] = n]
  /\ ending' = [ending EXCEPT ![s] = e]

Open(s) ==
  /\ status[s] = "absent"
  /\ status' = [status EXCEPT ![s] = "loading"]
  /\ UNCHANGED <<position, length, ending>>

OpenSettled(s) ==
  /\ status[s] = "absent"
  /\ \E n \in Lengths, e \in Endings : Settle(s, n, e)

Load(s) ==
  /\ status[s] = "loading"
  /\ \E n \in Lengths, e \in Endings : Settle(s, n, e)

Fail(s) ==
  /\ status[s] = "loading"
  /\ status' = [status EXCEPT ![s] = "error"]
  /\ UNCHANGED <<position, length, ending>>

(* A command moves a paused session to a later position and no other.      *)
Move(s) ==
  /\ status[s] = "paused"
  /\ \E p \in position[s] + 1 .. length[s] :
       /\ position' = [position EXCEPT ![s] = p]
       /\ status' = [status EXCEPT ![s] = Reported(p, length[s], ending[s])]
  /\ UNCHANGED <<length, ending>>

Abort(s) ==
  /\ status[s] \notin {"absent", "gone"}
  /\ status' = [status EXCEPT ![s] = "aborted"]
  /\ position' = [position EXCEPT ![s] = 0]
  /\ length' = [length EXCEPT ![s] = 0]
  /\ ending' = [ending EXCEPT ![s] = "aborted"]

(* The garbage collector forgets one session, whatever state it is in.     *)
Collect(s) ==
  /\ status[s] \notin {"absent", "gone"}
  /\ status' = [status EXCEPT ![s] = "gone"]
  /\ position' = [position EXCEPT ![s] = 0]
  /\ length' = [length EXCEPT ![s] = 0]
  /\ ending' = [ending EXCEPT ![s] = "aborted"]

(* The process ends, and every session that was opened with it.            *)
Restart ==
  /\ status' = [s \in Sessions |-> IF status[s] = "absent" THEN "absent" ELSE "gone"]
  /\ position' = [s \in Sessions |-> 0]
  /\ length' = [s \in Sessions |-> 0]
  /\ ending' = [s \in Sessions |-> "aborted"]

Next ==
  \/ \E s \in Sessions :
       Open(s) \/ OpenSettled(s) \/ Load(s) \/ Fail(s) \/ Move(s) \/ Abort(s) \/ Collect(s)
  \/ Restart

SafeSpec == Init /\ [][Next]_vars

(* No session stays in "loading" for ever: what holds as long as there is  *)
(* a permit and every request of a replay is answered or fails.            *)
Spec == SafeSpec /\ \A s \in Sessions : WF_vars(Load(s) \/ Fail(s))

-----------------------------------------------------------------------------
(* A client never sees a session go back: it does not load twice, what has *)
(* been aborted, has failed or has vanished does not come to life again,   *)
(* and until then its trace stays the same and its position only grows.    *)
Onwards(s) ==
  /\ status'[s] = "absent" => status[s] = "absent"
  /\ status'[s] = "loading" => status[s] \in {"absent", "loading"}
  /\ status'[s] = "error" => status[s] \in {"loading", "error"}
  /\ status[s] = "finished" => status'[s] \in {"finished", "aborted", "gone"}
  /\ status[s] = "error" => status'[s] \in {"error", "aborted", "gone"}
  /\ status[s] = "aborted" => status'[s] \in {"aborted", "gone"}
  /\ status[s] = "gone" => status'[s] = "gone"
  /\ status[s] = "paused" /\ status'[s] \in {"paused", "finished"} =>
       /\ length'[s] = length[s] /\ ending'[s] = ending[s]
       /\ position'[s] >= position[s]

NeverBack == [][\A s \in Sessions : Onwards(s)]_vars
=============================================================================
