---------------------------- MODULE SessionRegistry ----------------------------
(***************************************************************************)
(* The session map (main.rs, app_state.rs) between the HTTP handlers of    *)
(* server.rs and the garbage collector of main.rs.  A handler looks its    *)
(* session up and touches it; get_session and get_trace_steps answer while *)
(* they hold the map's guard, the others take a copy of the Arc and let    *)
(* the guard go before they run their command.  The collector wakes up     *)
(* once a minute, reads the clock, goes through the map while others use   *)
(* it, and removes what it found idle in a second pass.                    *)
(*                                                                         *)
(* What a command does to a session is in DebugSession; here it matters    *)
(* which sessions it still reaches.                                        *)
(***************************************************************************)
EXTENDS Naturals, FiniteSets

CONSTANTS Ids,        \* session ids, random and never repeated
          Clients,    \* clients, one request of each at a time
          Ttl,        \* EVM_DEBUGGER_SESSION_TTL_SECS
          CleanEvery, \* rounds of the collector per clean-up of the cache, 10
          MaxNow      \* bound of the clock

ASSUME RegistryAssumption ==
  /\ Ttl \in Nat /\ MaxNow \in Nat
  /\ CleanEvery \in Nat \ {0}

VARIABLES sessions,     \* ids in the map
          unused,       \* ids that have not been drawn yet
          last_access,  \* last_access_secs of each session
          now,          \* the wall clock, in seconds
          running,      \* [Clients -> SUBSET Ids]: the session a command runs on
          gc,           \* where the collector is
          now_secs,     \* the time it has read
          unseen,       \* ids that its iteration has still to visit
          remove_keys,
          tick,
          touched       \* history: ids touched since the collector read the time

gcVars == <<gc, now_secs, unseen, remove_keys, tick>>
vars   == <<sessions, unused, last_access, now, running, gcVars, touched>>

Init ==
  /\ sessions = {}
  /\ unused = Ids
  /\ last_access = [id \in Ids |-> 0]
  /\ now \in 0 .. MaxNow
  /\ running = [c \in Clients |-> {}]
  /\ gc = "sleeping"
  /\ now_secs = 0
  /\ unseen = {}
  /\ remove_keys = {}
  /\ tick = 0
  /\ touched = {}

-----------------------------------------------------------------------------
(* The clock of the machine goes on, or is set back.                       *)
ClockMoves ==
  /\ now' \in (0 .. now) \union ({now + 1} \cap 0 .. MaxNow)
  /\ UNCHANGED <<sessions, unused, last_access, running, gcVars, touched>>

(* DebugSession::touch, which DebugSession::new does as well.              *)
Touch(id) ==
  /\ last_access' = [last_access EXCEPT ![id] = now]
  /\ touched' = touched \union {id}

(* create_session draws an id and inserts the new session.  An iteration   *)
(* that is under way may or may not come across it.                        *)
CreateSession(id) ==
  /\ id \in unused
  /\ unused' = unused \ {id}
  /\ sessions' = sessions \union {id}
  /\ \/ unseen' = unseen
     \/ gc = "scanning" /\ unseen' = unseen \union {id}
  /\ Touch(id)
  /\ UNCHANGED <<now, running, gc, now_secs, remove_keys, tick>>

(* get_session and get_trace_steps: all of it under the guard of the map.  *)
Query(id) ==
  /\ id \in sessions
  /\ Touch(id)
  /\ UNCHANGED <<sessions, unused, now, running, gcVars>>

(* step_into, step_over, continue_exec and abort_session begin: the guard  *)
(* is gone when the command runs.  Without session the answer is 404, and  *)
(* nothing changes.                                                        *)
BeginCommand(c, id) ==
  /\ running[c] = {}
  /\ id \in sessions
  /\ running' = [running EXCEPT ![c] = {id}]
  /\ Touch(id)
  /\ UNCHANGED <<sessions, unused, now, gcVars>>

(* A mutant: the handler puts the session that it has used into the map.   *)
EndCommandInserts(c) ==
  /\ running[c] # {}
  /\ running' = [running EXCEPT ![c] = {}]
  /\ sessions' = sessions \union running[c]
  /\ UNCHANGED <<unused, last_access, now, gcVars, touched>>

(* The command has run on the Arc and is answered, whether or not the      *)
(* session is still in the map.                                            *)
EndCommand(c) ==
  /\ running[c] # {}
  /\ running' = [running EXCEPT ![c] = {}]
  /\ UNCHANGED <<sessions, unused, last_access, now, gcVars, touched>>

-----------------------------------------------------------------------------
(* The minute is over: session_gc_task reads the clock.                    *)
GcWake ==
  /\ gc = "sleeping"
  /\ gc' = "scanning"
  /\ now_secs' = now
  /\ unseen' = sessions
  /\ remove_keys' = {}
  /\ touched' = {}
  /\ UNCHANGED <<sessions, unused, last_access, now, running, tick>>

(* saturating_sub.                                                         *)
Idle(from, to) == IF to > from THEN to - from ELSE 0

(* Mutants of the comparison: a plain difference, which wraps around when  *)
(* the clock has been set back, and a difference the wrong way round.      *)
ExpiredWrapping(id) == now_secs < last_access[id] \/ Idle(last_access[id], now_secs) > Ttl
ExpiredSwapped(id)  == Idle(now_secs, last_access[id]) > Ttl

Expired(id) == Idle(last_access[id], now_secs) > Ttl

(* A mutant: the iteration stops at the first session that is idle.        *)
GcLookFirst(id) ==
  /\ gc = "scanning"
  /\ id \in unseen
  /\ remove_keys' = IF Expired(id) THEN remove_keys \union {id} ELSE remove_keys
  /\ unseen' = IF Expired(id) THEN {} ELSE unseen \ {id}
  /\ UNCHANGED <<sessions, unused, last_access, now, running, gc, now_secs, tick, touched>>

(* The iteration comes to a session.                                       *)
GcLook(id) ==
  /\ gc = "scanning"
  /\ id \in unseen
  /\ remove_keys' = IF Expired(id) THEN remove_keys \union {id} ELSE remove_keys
  /\ unseen' = unseen \ {id}
  /\ UNCHANGED <<sessions, unused, last_access, now, running, gc, now_secs, tick, touched>>

GcLooked ==
  /\ gc = "scanning"
  /\ unseen = {}
  /\ gc' = "removing"
  /\ UNCHANGED <<sessions, unused, last_access, now, running, now_secs, unseen,
                 remove_keys, tick, touched>>

(* A mutant: the keys are iterated by reference and kept for the next time. *)
GcRemoveKeeps(id) ==
  /\ gc = "removing"
  /\ id \in remove_keys
  /\ sessions' = sessions \ {id}
  /\ UNCHANGED <<unused, last_access, now, running, gcVars, touched>>

GcRemove(id) ==
  /\ gc = "removing"
  /\ id \in remove_keys
  /\ sessions' = sessions \ {id}
  /\ remove_keys' = remove_keys \ {id}
  /\ UNCHANGED <<unused, last_access, now, running, gc, now_secs, unseen, tick, touched>>

(* All keys are removed; every so many rounds the cache is cleaned up.     *)
(* tick counts modulo CleanEvery, which is all that the code asks of it.   *)
GcRemoved ==
  /\ gc = "removing"
  /\ remove_keys = {}
  /\ tick' = IF tick + 1 = CleanEvery THEN 0 ELSE tick + 1
  /\ gc' = IF tick' = 0 THEN "cleaning" ELSE "sleeping"
  /\ UNCHANGED <<sessions, unused, last_access, now, running, now_secs, unseen,
                 remove_keys, touched>>

(* cleanup_cache_dir has ended, in whatever way.                           *)
GcCleaned ==
  /\ gc = "cleaning"
  /\ gc' = "sleeping"
  /\ UNCHANGED <<sessions, unused, last_access, now, running, now_secs, unseen,
                 remove_keys, tick, touched>>

GcStep ==
  \/ GcWake \/ GcLooked \/ GcRemoved \/ GcCleaned
  \/ \E id \in Ids : GcLook(id) \/ GcRemove(id)

Next ==
  \/ ClockMoves
  \/ \E id \in Ids :
       \/ CreateSession(id) \/ Query(id)
       \/ \E c \in Clients : BeginCommand(c, id)
  \/ \E c \in Clients : EndCommand(c)
  \/ GcStep

(* The collector is a task of its own and goes on for ever; a command that *)
(* has begun ends.  Nobody has to send a request, nor need the clock move. *)
Fairness == WF_vars(GcStep) /\ \A c \in Clients : WF_vars(EndCommand(c))

SafeSpec == Init /\ [][Next]_vars
Spec == SafeSpec /\ Fairness

-----------------------------------------------------------------------------
(* Every variable has its type.                                            *)
TypeOK ==
  /\ sessions \subseteq Ids
  /\ unused \subseteq Ids \ sessions
  /\ last_access \in [Ids -> Nat]
  /\ now \in Nat
  /\ running \in [Clients -> SUBSET Ids]
  /\ gc \in {"sleeping", "scanning", "removing", "cleaning"}
  /\ now_secs \in Nat
  /\ unseen \subseteq sessions
  /\ remove_keys \subseteq sessions
  /\ tick \in Nat
  /\ touched \subseteq Ids

(* A session that leaves the map has been idle for longer than its time to *)
(* live at the moment at which the collector read the clock, unless it was *)
(* used after that moment: such a session is lost although it is in use,   *)
(* but no other is, even if the clock is set back (main.rs:72-82).         *)
OnlyIdleSessionsLeave ==
  [][\A id \in sessions \ sessions' :
       id \in touched \/ now_secs > last_access[id] + Ttl]_vars

(* A round misses none: until the collector wakes up again, every session  *)
(* in the map has been used since the round began or was not idle for      *)
(* longer than its time to live then, although sessions are created, used  *)
(* and removed while the map is iterated (main.rs:74-82).                  *)
IdleSessionsCollected ==
  gc \in {"sleeping", "cleaning"} =>
    \A id \in sessions : id \in touched \/ now_secs <= last_access[id] + Ttl

(* A session that has left the map does not come back, although handlers   *)
(* may still hold it and finish their commands on it (server.rs).          *)
GoneStaysGone ==
  [][\A id \in Ids : id \notin sessions \union unused => id \notin sessions']_vars

(* A session that nobody uses leaves: sessions do not pile up.  The clock  *)
(* may be set back, and is then what decides (main.rs, session_gc_task).   *)
IdleSessionsLeave ==
  \A id \in Ids :
    (id \in sessions /\ now > last_access[id] + Ttl)
      ~> (id \notin sessions \/ now <= last_access[id] + Ttl)
=============================================================================
