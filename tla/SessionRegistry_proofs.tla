------------------------ MODULE SessionRegistry_proofs ------------------------
(***************************************************************************)
(* The garbage collector removes idle sessions only, and misses none,      *)
(* whatever the clock does and however many clients use the map meanwhile. *)
(***************************************************************************)
EXTENDS SessionRegistry, TLAPS

(* What the collector has noted stays justified until it is removed.       *)
Justified(id) == id \in touched \/ now_secs > last_access[id] + Ttl

RegistryInv ==
  /\ TypeOK
  /\ gc # "scanning" => unseen = {}
  /\ gc \in {"sleeping", "cleaning"} => remove_keys = {}
  /\ \A id \in remove_keys : Justified(id)

(* Whoever is idle in a round is noted, or has still to be visited.        *)
RoundInv ==
  \A id \in sessions : \/ id \in touched \/ now_secs <= last_access[id] + Ttl
                       \/ id \in unseen \/ id \in remove_keys

-----------------------------------------------------------------------------
LEMMA RegistryInit == ASSUME Init PROVE RegistryInv
BY RegistryAssumption DEF RegistryAssumption, Init, RegistryInv, TypeOK

(* An access justifies itself and leaves other sessions as they are.       *)
LEMMA TouchJustifies ==
  ASSUME RegistryInv, NEW id \in Ids, Touch(id),
         UNCHANGED <<now, now_secs, remove_keys>>
  PROVE  /\ last_access' \in [Ids -> Nat] /\ touched' \subseteq Ids
         /\ \A r \in remove_keys' : Justified(r)'
BY DEF RegistryInv, TypeOK, Touch, Justified

(* The comparison of the collector, in spite of saturating_sub.            *)
LEMMA ExpiredIsIdle ==
  ASSUME RegistryInv, NEW id \in Ids, Expired(id)
  PROVE  now_secs > last_access[id] + Ttl
BY RegistryAssumption DEF RegistryAssumption, RegistryInv, TypeOK, Expired, Idle

LEMMA RegistryNext == ASSUME RegistryInv, [Next]_vars PROVE RegistryInv'
<1> USE DEF RegistryInv, TypeOK, gcVars
<1>1. CASE ClockMoves
  BY <1>1, RegistryAssumption DEF ClockMoves, Justified, RegistryAssumption
<1>2. ASSUME NEW id \in Ids, CreateSession(id)
      PROVE  RegistryInv'
  BY <1>2, TouchJustifies DEF CreateSession, Touch
<1>3. ASSUME NEW id \in Ids, Query(id)
      PROVE  RegistryInv'
  BY <1>3, TouchJustifies DEF Query, Touch
<1>4. ASSUME NEW id \in Ids, NEW c \in Clients, BeginCommand(c, id)
      PROVE  RegistryInv'
  BY <1>4, TouchJustifies DEF BeginCommand, Touch
<1>5. ASSUME NEW c \in Clients, EndCommand(c)
      PROVE  RegistryInv'
  BY <1>5 DEF EndCommand, Justified
<1>6. CASE GcWake
  BY <1>6 DEF GcWake, Justified
<1>7. ASSUME NEW id \in Ids, GcLook(id)
      PROVE  RegistryInv'
  <2>1. remove_keys' \subseteq remove_keys \union {id}
        /\ (id \in remove_keys' => id \in remove_keys \/ Expired(id))
    BY <1>7 DEF GcLook
  <2>2. \A r \in remove_keys' : Justified(r)'
    BY <1>7, <2>1, ExpiredIsIdle DEF GcLook, Justified
  <2> QED
    BY <1>7, <2>1, <2>2 DEF GcLook
<1>8. CASE GcLooked
  BY <1>8 DEF GcLooked, Justified
<1>9. ASSUME NEW id \in Ids, GcRemove(id)
      PROVE  RegistryInv'
  BY <1>9 DEF GcRemove, Justified
<1>10. CASE GcRemoved
  BY <1>10, RegistryAssumption DEF GcRemoved, Justified, RegistryAssumption
<1>11. CASE GcCleaned
  BY <1>11 DEF GcCleaned, Justified
<1>12. CASE UNCHANGED vars
  BY <1>12 DEF vars, Justified
<1> QED
  BY <1>1, <1>2, <1>3, <1>4, <1>5, <1>6, <1>7, <1>8, <1>9, <1>10, <1>11, <1>12
  DEF Next, GcStep

(* The map, the collector and the handlers keep their invariant: every key *)
(* that waits to be removed was idle when the collector read the clock, or *)
(* has been used since (main.rs, session_gc_task).                         *)
THEOREM RegistryInvariance == SafeSpec => []RegistryInv
<1>1. Init => RegistryInv
  BY RegistryInit
<1>2. RegistryInv /\ [Next]_vars => RegistryInv'
  BY RegistryNext
<1> QED
  BY <1>1, <1>2, PTL DEF SafeSpec

(* Every variable has its type, for every set of ids and clients, without  *)
(* a bound on the clock's steps.                                           *)
THEOREM RegistryTypeCorrect == SafeSpec => []TypeOK
<1>1. RegistryInv => TypeOK
  BY DEF RegistryInv
<1> QED
  BY <1>1, RegistryInvariance, PTL

(* No session leaves the map that was not idle when the collector read the *)
(* clock, but for those that were used between that moment and the removal.*)
THEOREM CollectsIdleOnly == SafeSpec => OnlyIdleSessionsLeave
<1> DEFINE Step == \A id \in sessions \ sessions' :
                     id \in touched \/ now_secs > last_access[id] + Ttl
<1>1. ASSUME RegistryInv, [Next]_vars
      PROVE  [Step]_vars
  <2>1. ASSUME NEW id \in Ids, GcRemove(id)
        PROVE  Step
    BY <1>1, <2>1 DEF GcRemove, RegistryInv, Justified
  <2>2. CASE sessions \subseteq sessions'
    BY <2>2
  <2>3. \/ sessions \subseteq sessions'
        \/ \E id \in Ids : GcRemove(id)
    BY <1>1 DEF Next, GcStep, ClockMoves, CreateSession, Query, BeginCommand, EndCommand,
                GcWake, GcLook, GcLooked, GcRemoved, GcCleaned, vars
  <2> QED
    BY <2>1, <2>2, <2>3
<1> QED
  BY <1>1, RegistryInvariance, PTL DEF SafeSpec, OnlyIdleSessionsLeave

LEMMA RoundInit == ASSUME Init PROVE RoundInv
BY DEF Init, RoundInv

LEMMA RoundNext == ASSUME RegistryInv, RoundInv, [Next]_vars PROVE RoundInv'
<1> USE DEF gcVars, RoundInv
<1>1. CASE ClockMoves
  BY <1>1 DEF ClockMoves
<1>2. ASSUME NEW id \in Ids, CreateSession(id)
      PROVE  RoundInv'
  <2>1. UNCHANGED <<now_secs, remove_keys>> /\ unseen \subseteq unseen'
    BY <1>2 DEF CreateSession
  <2> QED
    BY <1>2, <2>1 DEF CreateSession, Touch, RegistryInv, TypeOK
<1>3. ASSUME NEW id \in Ids, Query(id)
      PROVE  RoundInv'
  BY <1>3 DEF Query, Touch, RegistryInv, TypeOK
<1>4. ASSUME NEW id \in Ids, NEW c \in Clients, BeginCommand(c, id)
      PROVE  RoundInv'
  BY <1>4 DEF BeginCommand, Touch, RegistryInv, TypeOK
<1>5. ASSUME NEW c \in Clients, EndCommand(c)
      PROVE  RoundInv'
  BY <1>5 DEF EndCommand
<1>6. CASE GcWake
  BY <1>6 DEF GcWake
<1>7. ASSUME NEW id \in Ids, GcLook(id)
      PROVE  RoundInv'
  <2>1. Expired(id) \/ now_secs <= last_access[id] + Ttl
    BY RegistryAssumption DEF RegistryAssumption, RegistryInv, TypeOK, Expired, Idle
  <2> QED
    BY <1>7, <2>1 DEF GcLook, Expired
<1>8. CASE GcLooked
  BY <1>8 DEF GcLooked
<1>9. ASSUME NEW id \in Ids, GcRemove(id)
      PROVE  RoundInv'
  BY <1>9 DEF GcRemove
<1>10. CASE GcRemoved \/ GcCleaned \/ UNCHANGED vars
  BY <1>10 DEF GcRemoved, GcCleaned, vars
<1> QED
  BY <1>1, <1>2, <1>3, <1>4, <1>5, <1>6, <1>7, <1>8, <1>9, <1>10 DEF Next, GcStep

(* A round misses no idle session, although others create, use and remove  *)
(* sessions while the map is iterated (main.rs:74-82).                     *)
THEOREM RoundsMissNone == SafeSpec => []IdleSessionsCollected
<1>1. Init => RoundInv
  BY RoundInit
<1>2. RegistryInv /\ RoundInv /\ [Next]_vars => RoundInv'
  BY RoundNext
<1>3. RegistryInv /\ RoundInv => IdleSessionsCollected
  BY DEF RegistryInv, RoundInv, IdleSessionsCollected
<1> QED
  BY <1>1, <1>2, <1>3, RegistryInvariance, PTL DEF SafeSpec

(* An id that has left the map never answers again.                        *)
THEOREM GoneIsFinal == SafeSpec => GoneStaysGone
<1> DEFINE Step == \A id \in Ids : id \notin sessions \union unused => id \notin sessions'
<1>1. ASSUME [Next]_vars
      PROVE  [Step]_vars
  <2>1. ASSUME NEW id \in Ids, CreateSession(id)
        PROVE  Step
    BY <2>1 DEF CreateSession
  <2>2. CASE sessions' \subseteq sessions
    BY <2>2
  <2>3. \/ sessions' \subseteq sessions
        \/ \E id \in Ids : CreateSession(id)
    BY <1>1 DEF Next, GcStep, ClockMoves, Query, BeginCommand, EndCommand,
                GcWake, GcLook, GcLooked, GcRemove, GcRemoved, GcCleaned, vars
  <2> QED
    BY <2>1, <2>2, <2>3
<1> QED
  BY <1>1, PTL DEF SafeSpec, GoneStaysGone
=============================================================================
