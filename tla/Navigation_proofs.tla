-------------------------- MODULE Navigation_proofs --------------------------
(***************************************************************************)
(* What the cursor arithmetic of a session computes, for every trace.      *)
(***************************************************************************)
EXTENDS Navigation, WellFoundedInduction, TLAPS

(* StepOverIndex is determined by what it promises: a stop position below  *)
(* all the others is the one that CHOOSE returns (session.rs, step_over).  *)
LEMMA LeastStop ==
  ASSUME NEW t \in Traces, NEW i \in 0 .. Len(t) - 1,
         NEW c \in StopPositions(t, i),
         \A k \in StopPositions(t, i) : c <= k
  PROVE  StepOverIndex(t, i) = c
<1> DEFINE S == StopPositions(t, i)
           Least(j) == \A k \in S : j <= k
<1>1. S \subseteq Int
  BY DEF StopPositions, Traces
<1>2. \A j \in S : Least(j) => j = c
  <2> SUFFICES ASSUME NEW j \in S, Least(j)
               PROVE  j = c
    OBVIOUS
  <2>1. j <= c /\ c <= j
    OBVIOUS
  <2>2. j \in Int /\ c \in Int
    BY <1>1
  <2> HIDE DEF S
  <2> QED
    BY <2>1, <2>2
<1>3. ~(i >= Len(t))
  BY DEF Traces
<1>4. StepOverIndex(t, i) = CHOOSE j \in S : Least(j)
  BY <1>3 DEF StepOverIndex
<1>5. c \in S /\ Least(c)
  OBVIOUS
<1> HIDE DEF S, Least
<1> QED
  BY <1>2, <1>4, <1>5

(* Where step_over lands from a snapshot of the trace: further on, never   *)
(* past the end, and with nothing but callees of the frame in between.     *)
THEOREM StepOverLands ==
  ASSUME NEW t \in Traces, NEW i \in 0 .. Len(t) - 1
  PROVE  /\ StepOverIndex(t, i) \in i + 1 .. Len(t)
         /\ StepOverIndex(t, i) < Len(t) =>
              t[StepOverIndex(t, i) + 1] <= t[i + 1]
         /\ \A k \in i + 1 .. StepOverIndex(t, i) - 1 : t[k + 1] > t[i + 1]
<1> DEFINE S == StopPositions(t, i)
<1>1. Len(t) \in Nat /\ i \in Nat /\ S \subseteq Nat
  BY DEF StopPositions, Traces
<1>2. Len(t) \in S
  BY <1>1 DEF StopPositions
<1>3. PICK c \in S : \A k \in S : c <= k
  <2>1. PICK d \in S : \A k \in S : ~(<<k, d>> \in OpToRel(<, Nat))
    BY <1>1, <1>2, NatLessThanWellFounded, WFMin
  <2>2. ASSUME NEW k \in S, k < d
        PROVE  <<k, d>> \in OpToRel(<, Nat)
    <3>1. <<k, d>> \in Nat \X Nat
      BY <1>1
    <3>2. <<k, d>>[1] < <<k, d>>[2]
      BY <2>2
    <3> QED
      BY <3>1, <3>2, Zenon DEF OpToRel
  <2>3. ASSUME NEW k \in S
        PROVE  d <= k
    <3>1. ~(k < d)
      BY <2>1, <2>2
    <3>2. k \in Nat /\ d \in Nat
      BY <1>1
    <3> HIDE DEF S
    <3> QED
      BY <3>1, <3>2
  <2> QED
    BY <2>3
<1>4. StepOverIndex(t, i) = c
  BY <1>3, LeastStop
<1>5. c \in i + 1 .. Len(t) /\ (c < Len(t) => t[c + 1] <= t[i + 1])
  BY <1>3 DEF StopPositions
<1>6. ASSUME NEW k \in i + 1 .. c - 1
      PROVE  t[k + 1] > t[i + 1]
  <2>1. k \in i + 1 .. Len(t) /\ k < Len(t) /\ ~(c <= k)
    BY <1>1, <1>5
  <2>2. k \notin S
    BY <1>3, <2>1
  <2>3. ~(t[k + 1] <= t[i + 1])
    BY <2>1, <2>2 DEF StopPositions
  <2>4. t[k + 1] \in Nat /\ t[i + 1] \in Nat
    BY <1>1, <2>1 DEF Traces
  <2> QED
    BY <2>3, <2>4
<1> QED
  BY <1>4, <1>5, <1>6

(* Every command keeps the cursor inside the trace, or one past its end,   *)
(* and never moves it back (step_into, step_over, continue_exec).          *)
THEOREM CommandsMoveForward ==
  ASSUME NEW t \in Traces, NEW i \in 0 .. Len(t)
  PROVE  /\ StepIntoIndex(t, i) \in i .. Len(t)
         /\ StepOverIndex(t, i) \in i .. Len(t)
         /\ ContinueIndex(t, i) \in i .. Len(t)
<1>1. Len(t) \in Nat
  BY DEF Traces
<1>2. StepIntoIndex(t, i) \in i .. Len(t) /\ ContinueIndex(t, i) \in i .. Len(t)
  BY <1>1 DEF StepIntoIndex, ContinueIndex
<1>3. CASE i = Len(t)
  BY <1>1, <1>2, <1>3 DEF StepOverIndex
<1>4. CASE i < Len(t)
  <2>1. StepOverIndex(t, i) \in i + 1 .. Len(t)
    BY <1>1, <1>4, StepOverLands
  <2> QED
    BY <1>1, <1>2, <2>1
<1> QED
  BY <1>1, <1>3, <1>4

(* Before the end of the trace every command moves, step_over at least as  *)
(* far as step_into and continue_exec at least as far as step_over; and    *)
(* step_over does what step_into does exactly when the next snapshot is    *)
(* not in a callee of the current one.                                     *)
THEOREM CommandsAreOrdered ==
  ASSUME NEW t \in Traces, NEW i \in 0 .. Len(t) - 1
  PROVE  /\ i < StepIntoIndex(t, i)
         /\ StepIntoIndex(t, i) <= StepOverIndex(t, i)
         /\ StepOverIndex(t, i) <= ContinueIndex(t, i)
         /\ StepOverIndex(t, i) = StepIntoIndex(t, i)
              <=> (i + 1 < Len(t) => t[i + 2] <= t[i + 1])
<1>1. /\ Len(t) \in Nat /\ i \in Nat /\ i < Len(t)
      /\ StepIntoIndex(t, i) = i + 1 /\ ContinueIndex(t, i) = Len(t)
  BY DEF Traces, StepIntoIndex, ContinueIndex
<1> DEFINE o == StepOverIndex(t, i)
<1>2. /\ o \in i + 1 .. Len(t)
      /\ o < Len(t) => t[o + 1] <= t[i + 1]
      /\ \A k \in i + 1 .. o - 1 : t[k + 1] > t[i + 1]
  BY StepOverLands
<1> HIDE DEF o
<1>3. \A k \in 0 .. Len(t) - 1 : t[k + 1] \in Nat
  BY DEF Traces
<1>4. ASSUME o = i + 1, i + 1 < Len(t)
      PROVE  t[i + 2] <= t[i + 1]
  <2>1. o + 1 = i + 2
    BY <1>1, <1>4
  <2> QED
    BY <1>2, <1>4, <2>1
<1>5. ASSUME o # i + 1
      PROVE  i + 1 < Len(t) /\ ~(t[i + 2] <= t[i + 1])
  <2>1. /\ i + 1 \in i + 1 .. o - 1 /\ i + 1 < Len(t)
        /\ i + 1 \in 0 .. Len(t) - 1 /\ (i + 1) + 1 = i + 2
    BY <1>1, <1>2, <1>5
  <2>2. t[i + 2] > t[i + 1] /\ t[i + 2] \in Nat /\ t[i + 1] \in Nat
    BY <1>2, <1>3, <2>1
  <2> QED
    BY <2>1, <2>2
<1> QED
  BY <1>1, <1>2, <1>4, <1>5 DEF o
=============================================================================
