--------------------------- MODULE CacheDir_proofs ----------------------------
(***************************************************************************)
(* The cache directory keeps its promises for every number of requests,    *)
(* every time to live and any number of restarts: no final name ever holds *)
(* part of a file, only the clean-up can make a request fail over one,     *)
(* only old files leave, and together the two files, the temporary names   *)
(* and the clean-up amount to the atomic store of TraceStore.              *)
(***************************************************************************)
EXTENDS CacheDir, TLAPS

(* What a temporary name holds was written by the request in its name, and *)
(* it is whole, or gone, by the time it is renamed.                        *)
DirInv ==
  /\ FinalFilesWhole
  /\ \A r \in Requests, k \in Kinds : Present(<<k, r>>) => files[<<k, r>>].by = r
  /\ \A r \in Requests : pc[r] = "rename" => files[Target(r)].state # "partial"

(* Where a request is tells which file it is concerned with, and that it   *)
(* has seen the file that it reads.                                        *)
StageInv ==
  \A r \in Requests :
    /\ pc[r] \in {"exists_legacy", "ask_tx", "ask_block"} => kind[r] = "tx"
    /\ pc[r] = "replay" => kind[r] = "trace"
    /\ pc[r] = "read" /\ r \notin robbed => Present(Final(kind[r]))

(* The clean-up has read that what it is about to remove is old.           *)
CleanInv ==
  cleaner = "removing" /\ ~rewritten /\ Present(doomed)
    => clean_now > files[doomed].mtime + Ttl

CacheInv == TypeOK /\ DirInv /\ StageInv /\ CleanInv

-----------------------------------------------------------------------------
LEMMA NameFacts ==
  ASSUME NEW r \in Requests, NEW k \in Kinds
  PROVE  /\ Final(k) \in Names /\ <<k, r>> \in Names
         /\ \A q \in Requests, l \in Kinds :
              /\ <<k, r>> # Final(l)
              /\ <<k, r>> = <<l, q>> => k = l /\ r = q
              /\ Final(k) = Final(l) => k = l
BY CacheAssumption DEF Names, Final

LEMMA TargetFacts ==
  ASSUME TypeOK, NEW r \in Requests
  PROVE  /\ kind[r] \in Kinds
         /\ Target(r) = <<kind[r], r>>
         /\ Target(r) \in Names /\ Final(kind[r]) \in Names
         /\ \A l \in Kinds : Target(r) # Final(l) /\ Final(l) \in Names
         /\ \A q \in Requests : q # r => Target(r) # Target(q)
<1>1. \A q \in Requests : kind[q] \in Kinds
  BY DEF TypeOK
<1> QED
  BY <1>1, NameFacts DEF Target

LEMMA FileFacts ==
  ASSUME TypeOK
  PROVE  /\ Absent \in Files
         /\ \A r \in Requests : Written("partial", r) \in Files /\ Written("whole", r) \in Files
         /\ \A n \in Names :
              /\ files[n] \in Files
              /\ files[n].state \in {"absent", "partial", "whole"}
              /\ files[n].by \in Requests \union {Nobody}
              /\ files[n].mtime \in Nat
              /\ Present(n) => files[n].by \in Requests
              /\ ~Present(n) => files[n] = Absent
BY DEF TypeOK, Files, Absent, Written, Present

LEMMA CacheInit == ASSUME Init PROVE CacheInv
<1>1. Final("tx") \in Names
  BY DEF Names, Final, Kinds
<1>2. TypeOK
  BY <1>1, CacheAssumption DEF Init, TypeOK, Files, Absent, Steps, Kinds
<1>3. \A k \in Kinds : Final(k) \in Names
  BY DEF Names, Final
<1>4. DirInv
  <2>1. \A r \in Requests, k \in Kinds : <<k, r>> \in Names
    BY DEF Names
  <2> QED
    BY <1>3, <2>1 DEF Init, DirInv, FinalFilesWhole, Present, Absent
<1> QED
  BY <1>2, <1>4 DEF CacheInv, StageInv, CleanInv, Init

-----------------------------------------------------------------------------
LEMMA TypeStep == ASSUME TypeOK, [Next]_vars PROVE TypeOK'
<1> USE DEF requestVars, cleanerVars, historyVars
<1>0. ASSUME NEW r \in Requests, NEW step \in Steps \ {"ready"},
             pc' = [pc EXCEPT ![r] = step], UNCHANGED found
      PROVE  /\ pc' \in [Requests -> Steps]
             /\ \A q \in Requests : pc'[q] = "ready" => found'[q] # Nobody
  BY <1>0 DEF TypeOK
<1>1. CASE UNCHANGED vars
  BY <1>1 DEF vars, TypeOK
<1>2. CASE Tick
  BY <1>2 DEF Tick, TypeOK
<1>3. ASSUME NEW r \in Requests,
             Begin(r) \/ Look(r) \/ LookAgain(r) \/ RpcFails(r) \/ RpcAnswers(r)
               \/ WriteFails(r) \/ ReplayEnds(r)
      PROVE  TypeOK'
  <2>1. \E step \in Steps \ {"ready"} : pc' = [pc EXCEPT ![r] = step]
    BY <1>3 DEF Begin, Look, LookAgain, RpcFails, RpcAnswers, WriteFails, ReplayEnds, Goto, Steps, Ended
  <2>2. UNCHANGED <<files, now, kind, found, cleanerVars, restarts, rewritten>>
        /\ moved' = moved /\ robbed' \subseteq Requests
    BY <1>3 DEF Begin, Look, LookAgain, RpcFails, RpcAnswers, WriteFails, ReplayEnds, Goto, TypeOK
  <2> QED
    BY <2>1, <2>2 DEF TypeOK
<1>4. ASSUME NEW r \in Requests, Read(r)
      PROVE  TypeOK'
  <2>1. files[Final(kind[r])].state = "whole" => files[Final(kind[r])].by \in Requests
    BY FileFacts, TargetFacts DEF Present
  <2>2. CASE kind[r] = "trace" /\ files[Final(kind[r])].state = "whole"
    BY <1>4, <2>1, <2>2, CacheAssumption DEF Read, Goto, TypeOK, Steps, Ended
  <2>3. CASE ~(kind[r] = "trace" /\ files[Final(kind[r])].state = "whole")
    <3>1. kind[r] \in Kinds
      BY DEF TypeOK
    <3>2. /\ \E step \in Steps \ {"ready"} : pc' = [pc EXCEPT ![r] = step]
          /\ kind' \in [Requests -> Kinds]
          /\ UNCHANGED <<files, now, found, cleanerVars, restarts, historyVars>>
      BY <1>4, <2>3, <3>1 DEF Read, Goto, GotoTrace, TypeOK, Steps, Ended, Kinds
    <3> QED
      BY <3>2, <1>0 DEF TypeOK
  <2> QED
    BY <2>2, <2>3
<1>5. ASSUME NEW r \in Requests, Open(r) \/ Fill(r) \/ Rename(r)
      PROVE  TypeOK'
  <2>1. /\ \E step \in Steps \ {"ready"} : pc' = [pc EXCEPT ![r] = step]
        /\ kind' \in [Requests -> Kinds]
        /\ UNCHANGED <<now, found, cleanerVars, restarts, robbed>>
    BY <1>5 DEF Open, Fill, Rename, Goto, GotoTrace, TypeOK, Steps, Ended, Kinds
  <2>2. files' \in [Names -> Files]
    <3>1. files \in [Names -> Files]
      BY DEF TypeOK
    <3> QED
      BY <1>5, <3>1, FileFacts, TargetFacts DEF Open, Fill, Rename
  <2>3. rewritten' \in BOOLEAN /\ moved' \subseteq Names
    BY <1>5, TargetFacts DEF Open, Fill, Rename, TypeOK
  <2> QED
    BY <2>1, <2>2, <2>3, <1>0 DEF TypeOK
<1>6. CASE CleanStep
  <2>1. files' \in [Names -> Files]
    BY <1>6, FileFacts DEF CleanStep, CleanStart, CleanRemove, CleanEnd, CleanLook, TypeOK
  <2> QED
    BY <1>6, <2>1 DEF CleanStep, CleanStart, CleanRemove, CleanEnd, CleanLook, TypeOK
<1>7. CASE Restart
  BY <1>7 DEF Restart, TypeOK, Steps, Ended
<1> QED
  BY <1>1, <1>2, <1>3, <1>4, <1>5, <1>6, <1>7 DEF Next, RequestStep

-----------------------------------------------------------------------------
LEMMA DirStep == ASSUME TypeOK, DirInv, [Next]_vars PROVE DirInv'
<1> USE DEF requestVars, cleanerVars, historyVars
<1>1. CASE /\ UNCHANGED <<files, kind>>
           /\ \A q \in Requests : pc'[q] = "rename" => pc[q] = "rename"
  BY <1>1 DEF DirInv, FinalFilesWhole, Present, Target
<1>2. CASE UNCHANGED vars \/ Tick \/ Restart \/ CleanStart \/ CleanEnd
           \/ \E n \in Names : CleanLook(n)
  <2>1. /\ UNCHANGED <<files, kind>>
        /\ \A q \in Requests : pc'[q] = "rename" => pc[q] = "rename"
    BY <1>2 DEF vars, Tick, Restart, CleanStart, CleanEnd, CleanLook, Ended
  <2> QED
    BY <2>1, <1>1
<1>3. ASSUME NEW r \in Requests,
             Begin(r) \/ Look(r) \/ LookAgain(r) \/ RpcFails(r) \/ RpcAnswers(r)
               \/ WriteFails(r) \/ ReplayEnds(r)
      PROVE  DirInv'
  <2>1. \E step \in Steps \ {"rename"} : pc' = [pc EXCEPT ![r] = step]
    BY <1>3 DEF Begin, Look, LookAgain, RpcFails, RpcAnswers, WriteFails, ReplayEnds, Goto, Steps, Ended
  <2>2. UNCHANGED <<files, kind>>
    BY <1>3 DEF Begin, Look, LookAgain, RpcFails, RpcAnswers, WriteFails, ReplayEnds, Goto
  <2>3. \A q \in Requests : pc'[q] = "rename" => pc[q] = "rename"
    BY <2>1 DEF TypeOK
  <2> QED
    BY <2>2, <2>3, <1>1
<1>4. ASSUME NEW r \in Requests, Read(r)
      PROVE  DirInv'
  <2>1. /\ \E step \in Steps \ {"rename"} : pc' = [pc EXCEPT ![r] = step]
        /\ \A q \in Requests : q # r => kind'[q] = kind[q]
        /\ UNCHANGED files
    BY <1>4 DEF Read, Goto, GotoTrace, Steps, Ended, TypeOK
  <2>2. \A q \in Requests : pc'[q] = "rename" => pc[q] = "rename" /\ q # r
    BY <2>1 DEF TypeOK
  <2> QED
    BY <2>1, <2>2 DEF DirInv, FinalFilesWhole, Present, Target
<1>5. ASSUME NEW r \in Requests, Open(r) \/ Fill(r)
      PROVE  DirInv'
  <2>1. PICK state \in {"partial", "whole"}, step \in {"fill", "rename"} :
           /\ step = "rename" => state = "whole"
           /\ pc' = [pc EXCEPT ![r] = step] /\ UNCHANGED kind
           /\ \/ files' = [files EXCEPT ![Target(r)] = Written(state, r)]
              \/ UNCHANGED files /\ ~Present(Target(r))
    BY <1>5 DEF Open, Fill, Goto
  <2>2. /\ \A n \in Names : n # Target(r) => files'[n] = files[n]
        /\ files'[Target(r)] = Written(state, r) \/ files'[Target(r)] = files[Target(r)]
    BY <2>1, TargetFacts DEF TypeOK
  <2>3. FinalFilesWhole'
    BY <2>2, TargetFacts DEF DirInv, FinalFilesWhole
  <2>4. \A q \in Requests, k \in Kinds : Present(<<k, q>>)' => files'[<<k, q>>].by = q
    BY <2>2, NameFacts, TargetFacts DEF DirInv, Present, Written
  <2>5. ASSUME NEW q \in Requests, pc'[q] = "rename"
        PROVE  files'[Target(q)'].state # "partial"
    <3>1. Target(q)' = Target(q)
      BY <2>1 DEF Target
    <3>2. CASE q = r
      BY <2>1, <2>5, <3>1, <3>2, TargetFacts DEF Written, TypeOK, Present
    <3>3. CASE q # r
      <4>1. pc[q] = "rename"
        BY <2>1, <2>5, <3>3 DEF TypeOK
      <4> QED
        BY <2>2, <3>1, <3>3, <4>1, TargetFacts DEF DirInv
    <3> QED
      BY <3>2, <3>3
  <2> QED
    BY <2>3, <2>4, <2>5 DEF DirInv
<1>6. ASSUME NEW r \in Requests, Rename(r)
      PROVE  DirInv'
  <2>1. /\ Present(Target(r)) /\ files[Target(r)].state # "partial"
        /\ files' = [files EXCEPT ![Target(r)] = Absent, ![Final(kind[r])] = files[Target(r)]]
        /\ \E step \in Steps \ {"rename"} : pc' = [pc EXCEPT ![r] = step]
        /\ \A q \in Requests : q # r => kind'[q] = kind[q]
    BY <1>6 DEF Rename, DirInv, Goto, GotoTrace, Steps, Ended, TypeOK
  <2>2. /\ files'[Target(r)] = Absent
        /\ files'[Final(kind[r])] = files[Target(r)]
        /\ \A n \in Names : n \notin {Target(r), Final(kind[r])} => files'[n] = files[n]
    BY <2>1, TargetFacts DEF TypeOK
  <2>3. FinalFilesWhole'
    <3>1. \A k \in Kinds : k # kind[r] => files'[Final(k)] = files[Final(k)]
      BY <2>2, TargetFacts, NameFacts
    <3> QED
      BY <2>1, <2>2, <3>1 DEF DirInv, FinalFilesWhole
  <2>4. \A q \in Requests, k \in Kinds : Present(<<k, q>>)' => files'[<<k, q>>].by = q
    BY <2>2, NameFacts, TargetFacts DEF DirInv, Present, Absent
  <2>5. ASSUME NEW q \in Requests, pc'[q] = "rename"
        PROVE  files'[Target(q)'].state # "partial"
    <3>1. q # r /\ pc[q] = "rename" /\ Target(q)' = Target(q)
      BY <2>1, <2>5 DEF TypeOK, Target
    <3> QED
      BY <2>2, <3>1, TargetFacts DEF DirInv
  <2> QED
    BY <2>3, <2>4, <2>5 DEF DirInv
<1>7. CASE CleanRemove
  <2>1. UNCHANGED <<pc, kind>>
        /\ \A n \in Names : files'[n] = files[n] \/ files'[n] = Absent
    BY <1>7 DEF CleanRemove, TypeOK
  <2>2. \A q \in Requests : Target(q)' = Target(q)
    BY <2>1 DEF Target
  <2>3. FinalFilesWhole'
    BY <2>1, TargetFacts, NameFacts DEF DirInv, FinalFilesWhole, Absent, Final, Names
  <2>4. \A q \in Requests, k \in Kinds : Present(<<k, q>>)' => files'[<<k, q>>].by = q
    BY <2>1, NameFacts DEF DirInv, Present, Absent
  <2> QED
    BY <2>1, <2>2, <2>3, <2>4, TargetFacts DEF DirInv, Absent
<1> QED
  BY <1>2, <1>3, <1>4, <1>5, <1>6, <1>7 DEF Next, RequestStep, CleanStep

-----------------------------------------------------------------------------
(* A file with a final name, or any other, goes away by no other step than *)
(* its removal or the rename of its write.                                 *)
LEMMA FilesKept ==
  ASSUME TypeOK, [Next]_vars, NEW n \in Names, Present(n), ~Present(n)'
  PROVE  \/ \E r \in Requests : Rename(r) /\ n = Target(r)
         \/ CleanRemove /\ n = doomed
<1> USE DEF requestVars, cleanerVars, historyVars
<1>1. files'[n] # files[n]
  BY DEF Present
<1>2. CASE \E r \in Requests : Open(r) \/ Fill(r)
  <2>1. \A r \in Requests : Written("partial", r).state # "absent" /\ Written("whole", r).state # "absent"
    BY DEF Written
  <2> QED
    BY <1>1, <1>2, <2>1 DEF Open, Fill, Present, TypeOK
<1>3. ASSUME NEW r \in Requests, Rename(r)
      PROVE  n = Target(r)
  <2>1. /\ \A m \in Names : m \notin {Target(r), Final(kind[r])} => files'[m] = files[m]
        /\ files'[Final(kind[r])] = files[Target(r)]
    BY <1>3, TargetFacts DEF Rename, TypeOK
  <2> QED
    BY <1>1, <1>3, <2>1 DEF Rename, Present
<1>4. CASE CleanRemove
  BY <1>1, <1>4 DEF CleanRemove, TypeOK
<1>5. CASE UNCHANGED files
  BY <1>1, <1>5
<1> QED
  BY <1>2, <1>3, <1>4, <1>5
  DEF Next, vars, RequestStep, CleanStep, Tick, Restart, Begin, Look, LookAgain, Read,
      RpcAnswers, RpcFails, WriteFails, ReplayEnds, CleanStart, CleanLook, CleanEnd

LEMMA StageStep == ASSUME TypeOK, StageInv, [Next]_vars PROVE StageInv'
<1> USE DEF requestVars, cleanerVars, historyVars
<1>1. ASSUME NEW q \in Requests, pc'[q] = pc[q], kind'[q] = kind[q],
             q \in robbed => q \in robbed'
      PROVE  /\ pc'[q] \in {"exists_legacy", "ask_tx", "ask_block"} => kind'[q] = "tx"
             /\ pc'[q] = "replay" => kind'[q] = "trace"
             /\ pc'[q] = "read" /\ q \notin robbed' => Present(Final(kind[q]))'
  <2>1. kind[q] \in Kinds /\ Final(kind[q]) \in Names
    BY TargetFacts
  <2>2. ASSUME pc'[q] = "read", q \notin robbed'
        PROVE  Present(Final(kind[q]))'
    <3>1. PICK n \in Names : n = Final(kind[q])
      BY <2>1
    <3>2. Present(n)
      BY <1>1, <2>2, <3>1 DEF StageInv
    <3>3. ~CleanRemove \/ n # doomed
      BY <1>1, <2>2, <3>1 DEF CleanRemove
    <3>4. \A r \in Requests : n # Target(r)
      BY <2>1, <3>1, TargetFacts
    <3>5. Present(n)'
      BY <3>2, <3>3, <3>4, FilesKept
    <3> QED
      BY <1>1, <3>1, <3>5 DEF Present, Final
  <2> QED
    BY <1>1, <2>2 DEF StageInv
<1>2. CASE \/ UNCHANGED vars \/ Tick \/ CleanStep
  <2>1. UNCHANGED <<pc, kind>> /\ robbed \subseteq robbed'
    BY <1>2 DEF vars, Tick, CleanStep, CleanStart, CleanLook, CleanRemove, CleanEnd
  <2> QED
    BY <2>1, <1>1 DEF StageInv, Present, Final
<1>3. CASE Restart
  <2>1. /\ UNCHANGED <<kind, robbed>>
        /\ \A q \in Requests : pc'[q] = pc[q] \/ pc'[q] = "gone"
    BY <1>3 DEF Restart
  <2> QED
    BY <2>1, <1>1 DEF StageInv, Present, Final
<1>4. ASSUME NEW r \in Requests,
             Begin(r) \/ RequestStep(r) \/ RpcAnswers(r) \/ ReplayEnds(r)
      PROVE  StageInv'
  <2>1. \A q \in Requests \ {r} :
          pc'[q] = pc[q] /\ kind'[q] = kind[q] /\ (q \in robbed => q \in robbed')
    BY <1>4 DEF RequestStep, Begin, Look, LookAgain, Read, RpcAnswers, RpcFails, Open, Fill, Rename,
                WriteFails, ReplayEnds, Goto, GotoTrace, TypeOK
  <2>2. kind[r] \in Kinds /\ pc \in [Requests -> Steps] /\ kind \in [Requests -> Kinds]
    BY DEF TypeOK
  <2>3. /\ pc'[r] \in {"exists_legacy", "ask_tx", "ask_block"} => kind'[r] = "tx"
        /\ pc'[r] = "replay" => kind'[r] = "trace"
        /\ pc'[r] = "read" /\ r \notin robbed' => Present(Final(kind[r]))'
    <3>1. CASE Look(r)
      BY <2>2, <3>1 DEF Look, Goto, Present, Final, Kinds
    <3>2. CASE LookAgain(r)
      BY <2>2, <3>2 DEF LookAgain, Goto, Present, Final, StageInv
    <3>3. CASE RpcAnswers(r)
      BY <2>2, <3>3 DEF RpcAnswers, Goto, StageInv
    <3>4. CASE Begin(r) \/ Read(r) \/ RpcFails(r) \/ Open(r) \/ Fill(r) \/ Rename(r)
               \/ WriteFails(r) \/ ReplayEnds(r)
      <4>1. pc'[r] \notin {"exists_legacy", "ask_tx", "ask_block", "replay", "read"}
        BY <2>2, <3>4 DEF Begin, Read, RpcFails, Open, Fill, Rename, WriteFails, ReplayEnds,
                          Goto, GotoTrace
      <4> QED
        BY <4>1
    <3> QED
      BY <1>4, <3>1, <3>2, <3>3, <3>4 DEF RequestStep
  <2> QED
    BY <1>1, <2>1, <2>3 DEF StageInv
<1> QED
  BY <1>2, <1>3, <1>4 DEF Next

LEMMA CleanInvStep == ASSUME TypeOK, CleanInv, [Next]_vars PROVE CleanInv'
<1> USE DEF requestVars, cleanerVars, historyVars
<1>1. CASE /\ UNCHANGED <<cleaner, doomed, clean_now>>
           /\ rewritten => rewritten'
           /\ files'[doomed] = files[doomed] \/ files'[doomed] = Absent \/ rewritten'
  BY <1>1 DEF CleanInv, Present, Absent
<1>2. ASSUME NEW r \in Requests, Open(r) \/ Fill(r) \/ Rename(r)
      PROVE  CleanInv'
  <2>1. /\ UNCHANGED <<cleaner, doomed, clean_now>>
        /\ rewritten => rewritten'
    BY <1>2 DEF Open, Fill, Rename, Goto, GotoTrace
  <2>2. files'[doomed] = files[doomed] \/ files'[doomed] = Absent \/ rewritten'
    BY <1>2, TargetFacts DEF Open, Fill, Rename, TypeOK
  <2> QED
    BY <2>1, <2>2, <1>1
<1>3. CASE CleanStart \/ CleanRemove \/ CleanEnd \/ Restart
  BY <1>3 DEF CleanStart, CleanRemove, CleanEnd, Restart, CleanInv, TypeOK
<1>4. ASSUME NEW n \in Names, CleanLook(n)
      PROVE  CleanInv'
  BY <1>4 DEF CleanLook, CleanInv, Present, Expired
<1>5. CASE UNCHANGED <<files, cleanerVars, rewritten>>
  BY <1>5, <1>1
<1> QED
  BY <1>2, <1>3, <1>4, <1>5
  DEF Next, vars, RequestStep, CleanStep, Tick, Begin, Look, LookAgain, Read,
      RpcAnswers, RpcFails, WriteFails, ReplayEnds, Goto, GotoTrace

(* What is too old for the clean-up under way is still to be visited, or   *)
(* about to be removed, or was renamed behind its back.                    *)
RoundInv ==
  cleaner # "asleep" =>
    /\ clean_now <= now
    /\ \A n \in Names : Present(n) =>
         \/ clean_now <= files[n].mtime + Ttl
         \/ n \in moved \/ n \in unseen
         \/ cleaner = "removing" /\ n = doomed

LEMMA RoundStep == ASSUME TypeOK, RoundInv, [Next]_vars PROVE RoundInv'
<1> USE DEF requestVars, cleanerVars, historyVars
<1>1. CASE UNCHANGED <<files, cleanerVars, moved>> /\ (now' = now \/ now' = now + 1)
  BY <1>1 DEF RoundInv, Present, TypeOK
<1>2. ASSUME NEW r \in Requests, Open(r) \/ Fill(r)
      PROVE  RoundInv'
  <2>1. UNCHANGED <<now, cleanerVars, moved>>
    BY <1>2 DEF Open, Fill, Goto
  <2>2. \A n \in Names : files'[n] = files[n] \/ files'[n].mtime = now
    BY <1>2, TargetFacts DEF Open, Fill, TypeOK, Written
  <2>3. now \in Nat /\ clean_now \in Nat /\ Ttl \in Nat
    BY CacheAssumption DEF TypeOK
  <2> QED
    BY <2>1, <2>2, <2>3 DEF RoundInv, Present
<1>3. ASSUME NEW r \in Requests, Rename(r)
      PROVE  RoundInv'
  <2>1. /\ UNCHANGED <<now, cleanerVars>>
        /\ moved' = IF cleaner = "asleep" THEN moved ELSE moved \union {Final(kind[r])}
    BY <1>3 DEF Rename, Goto, GotoTrace
  <2>2. \A n \in Names : \/ files'[n] = files[n] \/ n = Final(kind[r])
                         \/ files'[n].state = "absent"
    BY <1>3, TargetFacts DEF Rename, TypeOK, Absent
  <2> QED
    BY <2>1, <2>2 DEF RoundInv, Present
<1>4. CASE CleanStart
  BY <1>4 DEF CleanStart, RoundInv, Present, TypeOK
<1>5. ASSUME NEW n \in Names, CleanLook(n)
      PROVE  RoundInv'
  <2>1. Present(n) /\ ~Expired(n) => clean_now <= files[n].mtime + Ttl
    BY CacheAssumption, FileFacts DEF Expired, TypeOK
  <2>2. UNCHANGED <<files, now, clean_now, moved>> /\ unseen' = unseen \ {n}
    BY <1>5 DEF CleanLook
  <2>3. cleaner = "reading" /\ cleaner' # "asleep" /\ clean_now <= now
    BY <1>5 DEF CleanLook, RoundInv
  <2>4. \/ cleaner' = "removing" /\ doomed' = n
        \/ cleaner' = "reading" /\ ~(Present(n) /\ Expired(n))
    BY <1>5 DEF CleanLook
  <2> QED
    BY <2>1, <2>2, <2>3, <2>4 DEF RoundInv, Present
<1>6. CASE CleanRemove
  BY <1>6 DEF CleanRemove, RoundInv, Present, Absent, TypeOK
<1>7. CASE CleanEnd \/ Restart
  BY <1>7 DEF CleanEnd, Restart, RoundInv
<1> QED
  BY <1>1, <1>2, <1>3, <1>4, <1>5, <1>6, <1>7
  DEF Next, vars, RequestStep, CleanStep, Tick, Begin, Look, LookAgain, Read,
      RpcAnswers, RpcFails, WriteFails, ReplayEnds, Goto, GotoTrace

LEMMA CacheInvariance == SafeSpec => []CacheInv
<1>1. Init => CacheInv
  BY CacheInit
<1>2. CacheInv /\ [Next]_vars => CacheInv'
  BY TypeStep, DirStep, StageStep, CleanInvStep DEF CacheInv
<1> QED
  BY <1>1, <1>2, PTL DEF SafeSpec

(* Type correctness, and whoever is served from the cache gets a replay.   *)
THEOREM TypeCorrect == SafeSpec => []TypeOK
BY CacheInvariance, PTL DEF CacheInv

(* write_atomic keeps its word: no request ever finds part of a file under *)
(* a final name, whoever writes, fails, crashes or cleans up meanwhile.    *)
THEOREM FinalNamesHoldWholeFiles == SafeSpec => []FinalFilesWhole
BY CacheInvariance, PTL DEF CacheInv, DirInv

(* The clean-up misses no old file but one that a rename hides from it.    *)
THEOREM CleanUpIsComplete == SafeSpec => []CleanUpMissesNone
<1>1. Init => RoundInv
  BY DEF Init, RoundInv
<1>2. CacheInv /\ RoundInv /\ [Next]_vars => RoundInv'
  BY RoundStep DEF CacheInv
<1>3. CacheInv /\ RoundInv => CleanUpMissesNone
  BY DEF RoundInv, CleanUpMissesNone
<1> QED
  BY <1>1, <1>2, <1>3, CacheInvariance, PTL DEF SafeSpec

(* A cache file makes a request fail only if the clean-up took it away.    *)
THEOREM OnlyCleanUpFailsReads == SafeSpec => ReadsFailWhenRobbed
<1>1. ASSUME CacheInv, [Next]_vars, NEW r \in Requests, pc[r] = "read", pc'[r] = "failed"
      PROVE  r \in robbed
  <2>1. TypeOK /\ pc \in [Requests -> Steps]
    BY <1>1 DEF CacheInv, TypeOK
  <2>2. Read(r)
    <3>1. \A q \in Requests : Begin(q) \/ RequestStep(q) \/ RpcAnswers(q) \/ ReplayEnds(q) => q = r
      BY <1>1, <2>1 DEF RequestStep, Begin, Look, LookAgain, Read, RpcAnswers, RpcFails, Open, Fill,
                        Rename, WriteFails, ReplayEnds, Goto, GotoTrace
    <3>2. ~Restart /\ ~Tick /\ ~CleanStep /\ ~UNCHANGED vars
      BY <1>1, <2>1 DEF Restart, Tick, CleanStep, CleanStart, CleanLook, CleanRemove, CleanEnd,
                        vars, requestVars, Ended
    <3>3. Begin(r) \/ RequestStep(r) \/ RpcAnswers(r) \/ ReplayEnds(r)
      BY <1>1, <3>1, <3>2 DEF Next
    <3> QED
      BY <1>1, <3>3 DEF RequestStep, Begin, Look, LookAgain, RpcAnswers, RpcFails, Open, Fill,
                        Rename, WriteFails, ReplayEnds
  <2>3. files[Final(kind[r])].state # "whole"
    BY <1>1, <2>1, <2>2 DEF Read, Goto, GotoTrace
  <2>4. kind[r] \in Kinds /\ Final(kind[r]) \in Names
    BY <2>1, TargetFacts
  <2>5. files[Final(kind[r])].state # "partial" /\ files[Final(kind[r])].state \in {"absent", "partial", "whole"}
    BY <1>1, <2>1, <2>4, FileFacts DEF CacheInv, DirInv, FinalFilesWhole
  <2> QED
    BY <1>1, <2>3, <2>5 DEF CacheInv, StageInv, Present
<1>2. CacheInv /\ [Next]_vars =>
        [\A r \in Requests : pc[r] = "read" /\ pc'[r] = "failed" => r \in robbed]_vars
  BY <1>1
<1> QED
  BY <1>2, CacheInvariance, PTL DEF SafeSpec, ReadsFailWhenRobbed

(* Only what is older than its time to live leaves the directory, or what  *)
(* was old when the clean-up read its age.                                 *)
THEOREM OnlyOldFilesAreRemoved == SafeSpec => OnlyOldFilesLeave
<1>1. ASSUME CacheInv, [Next]_vars, NEW n \in Names, Present(n), files'[n] = Absent
      PROVE  \/ \E r \in Requests : pc[r] = "rename" /\ files'[Final(n[1])] = files[n]
             \/ clean_now > files[n].mtime + Ttl
             \/ n = doomed /\ rewritten
  <2>1. TypeOK /\ ~Present(n)'
    BY <1>1 DEF CacheInv, Present, Absent
  <2>2. ASSUME NEW r \in Requests, Rename(r), n = Target(r)
        PROVE  pc[r] = "rename" /\ files'[Final(n[1])] = files[n]
    <3>1. n[1] = kind[r]
      BY <2>1, <2>2, TargetFacts
    <3> QED
      BY <2>1, <2>2, <3>1, TargetFacts DEF Rename, TypeOK
  <2>3. CASE CleanRemove /\ n = doomed
    BY <1>1, <2>3 DEF CacheInv, CleanInv, CleanRemove
  <2> QED
    BY <1>1, <2>1, <2>2, <2>3, FilesKept
<1>2. CacheInv /\ [Next]_vars =>
        [\A n \in Names :
           Present(n) /\ files'[n] = Absent =>
             \/ \E r \in Requests : pc[r] = "rename" /\ files'[Final(n[1])] = files[n]
             \/ clean_now > files[n].mtime + Ttl
             \/ n = doomed /\ rewritten]_vars
  BY <1>1
<1> QED
  BY <1>2, CacheInvariance, PTL DEF SafeSpec, OnlyOldFilesLeave

-----------------------------------------------------------------------------
(* The steps of TraceStore in terms of one request's answer.               *)
LEMMA StoreStep ==
  ASSUME NEW r \in Requests,
         \A q \in Requests \ {r} : AnswerOf(q)' = AnswerOf(q)
  PROVE  /\ AnswerOf(r)' = AnswerOf(r) => answers' = answers
         /\ answers' = [answers EXCEPT ![r] = AnswerOf(r)']
         /\ answers[r] = AnswerOf(r)
BY DEF answers

LEMMA CachedUnlessTrace ==
  ASSUME TypeOK, [Next]_vars,
         \A r \in Requests : ~(Rename(r) /\ kind[r] = "trace"),
         ~(CleanRemove /\ doomed = Final("trace"))
  PROVE  cached' = cached
<1> USE DEF requestVars, cleanerVars, historyVars
<1>1. PICK n \in Names : n = Final("trace") /\ \A r \in Requests : Target(r) # n
  <2>1. Final("trace") \in Names
    BY DEF Names, Final, Kinds
  <2>2. \A r \in Requests : Target(r) # Final("trace")
    BY TargetFacts DEF Kinds
  <2> QED
    BY <2>1, <2>2
<1>2. ASSUME NEW r \in Requests, Open(r) \/ Fill(r) \/ Rename(r)
      PROVE  files'[n] = files[n]
  <2>1. Rename(r) => Final(kind[r]) # n
    BY <1>1, TargetFacts DEF Kinds, Final
  <2> QED
    BY <1>1, <1>2, <2>1, TargetFacts DEF Open, Fill, Rename, TypeOK
<1>3. CASE CleanRemove
  BY <1>1, <1>3 DEF CleanRemove, TypeOK, cached, Final
<1>4. CASE UNCHANGED files
  BY <1>4 DEF cached, Final
<1> QED
  BY <1>1, <1>2, <1>3, <1>4
  DEF cached, Final, Next, vars, RequestStep, CleanStep, Tick, Restart, Begin, Look, LookAgain,
      Read, RpcAnswers, RpcFails, WriteFails, ReplayEnds, CleanStart, CleanLook, CleanEnd

LEMMA StoreRequest ==
  ASSUME CacheInv, [Next]_vars, NEW r \in Requests,
         Begin(r) \/ RequestStep(r) \/ RpcAnswers(r) \/ ReplayEnds(r)
  PROVE  Store!Next \/ UNCHANGED Store!vars
<1>1. /\ TypeOK /\ StageInv
      /\ pc \in [Requests -> Steps] /\ kind \in [Requests -> Kinds] /\ kind[r] \in Kinds
      /\ found \in [Requests -> Requests \union {Nobody}]
  BY DEF CacheInv, TypeOK
<1>2. \A q \in Requests \ {r} : pc'[q] = pc[q] /\ kind'[q] = kind[q]
  BY <1>1 DEF RequestStep, Begin, Look, LookAgain, Read, RpcAnswers, RpcFails, Open, Fill,
              Rename, WriteFails, ReplayEnds, Goto, GotoTrace
<1>3. \A q \in Requests \ {r} : AnswerOf(q)' = AnswerOf(q)
  BY <1>2 DEF AnswerOf, Creating
<1>4. \A q \in Requests : ~CleanRemove /\ (Rename(q) => q = r /\ Rename(r))
  BY <1>1 DEF RequestStep, Begin, Look, LookAgain, Read, RpcAnswers, RpcFails, Open, Fill,
              Rename, WriteFails, ReplayEnds, Goto, GotoTrace, CleanRemove, requestVars
<1>5. ~(Rename(r) /\ kind[r] = "trace") => cached' = cached
  BY <1>1, <1>4, CachedUnlessTrace
<1>6. CASE Look(r) /\ pc'[r] = "replay"
  <2>1. kind[r] = "trace" /\ ~Present(Final("trace")) /\ UNCHANGED <<kind, found>>
    BY <1>1, <1>6 DEF Look, Goto, Kinds
  <2>2. cached = Nobody /\ cached' = cached
    BY <1>1, <1>5, <1>6, <2>1, FileFacts, TargetFacts DEF cached, Absent, Look, Rename, Kinds
  <2>3. AnswerOf(r) = "open" /\ AnswerOf(r)' = "miss"
    BY <1>1, <1>6, <2>1 DEF Look, AnswerOf, Creating
  <2>4. Store!Miss(r)
    BY <1>3, <2>1, <2>2, <2>3, StoreStep DEF Store!Miss
  <2> QED
    BY <2>4 DEF Store!Next
<1>7. CASE Read(r) /\ pc'[r] = "ready"
  <2>1. /\ kind[r] = "trace" /\ Present(Final("trace")) /\ UNCHANGED kind
        /\ found' = [found EXCEPT ![r] = cached]
    BY <1>1, <1>7 DEF Read, Goto, GotoTrace, Kinds, Present, cached
  <2>2. cached \in Requests /\ cached' = cached
    BY <1>1, <1>5, <1>7, <2>1, FileFacts, TargetFacts DEF cached, Read, Rename, Kinds
  <2>3. AnswerOf(r) = "open" /\ AnswerOf(r)' = "hit"
    BY <1>1, <1>7, <2>1 DEF Read, AnswerOf, Creating
  <2>4. Store!Hit(r)
    BY <1>3, <2>1, <2>2, <2>3, StoreStep, CacheAssumption DEF Store!Hit
  <2> QED
    BY <2>4 DEF Store!Next
<1>8. CASE pc'[r] = "failed"
  <2>1. AnswerOf(r)' = "failed" /\ UNCHANGED <<kind, found>> /\ cached' = cached
    BY <1>1, <1>5, <1>8
    DEF RequestStep, Begin, Look, LookAgain, Read, RpcAnswers, RpcFails, Open, Fill,
        Rename, WriteFails, ReplayEnds, Goto, GotoTrace, AnswerOf, Creating
  <2>2. AnswerOf(r) = "open"
    BY <1>1, <1>8
    DEF RequestStep, Begin, Look, LookAgain, Read, RpcAnswers, RpcFails, Open, Fill,
        Rename, WriteFails, ReplayEnds, Goto, GotoTrace, AnswerOf, Creating, StageInv
  <2>3. Store!Fail(r)
    BY <1>3, <2>1, <2>2, StoreStep DEF Store!Fail
  <2> QED
    BY <2>3 DEF Store!Next
<1>9. CASE Rename(r) /\ kind[r] = "trace"
  <2>1. /\ files' = [files EXCEPT ![Target(r)] = Absent, ![Final("trace")] = files[Target(r)]]
        /\ Present(Target(r)) /\ files[Target(r)].by = r
        /\ UNCHANGED <<kind, found>>
    BY <1>1, <1>9, TargetFacts DEF Rename, Goto, CacheInv, DirInv
  <2>2. cached' = r
    BY <1>1, <2>1, TargetFacts, FileFacts DEF cached, TypeOK, Final, Kinds
  <2>3. AnswerOf(r) = "miss" /\ AnswerOf(r)' = "miss"
    BY <1>1, <1>9, <2>1 DEF Rename, Goto, AnswerOf, Creating
  <2>4. Store!Save(r)
    BY <1>3, <2>1, <2>2, <2>3, StoreStep DEF Store!Save
  <2> QED
    BY <2>4 DEF Store!Next
<1>10. CASE /\ ~(Look(r) /\ pc'[r] = "replay") /\ ~(Read(r) /\ pc'[r] = "ready")
            /\ pc'[r] # "failed" /\ ~(Rename(r) /\ kind[r] = "trace")
  <2>1. AnswerOf(r)' = AnswerOf(r)
    BY <1>1, <1>10
    DEF RequestStep, Begin, Look, LookAgain, Read, RpcAnswers, RpcFails, Open, Fill,
        Rename, WriteFails, ReplayEnds, Goto, GotoTrace, AnswerOf, Creating, StageInv, Kinds
  <2>2. UNCHANGED found
    BY <1>1, <1>10
    DEF RequestStep, Begin, Look, LookAgain, Read, RpcAnswers, RpcFails, Open, Fill,
        Rename, WriteFails, ReplayEnds, Goto, GotoTrace
  <2> QED
    BY <1>3, <1>5, <1>10, <2>1, <2>2, StoreStep DEF Store!vars
<1> QED
  BY <1>6, <1>7, <1>8, <1>9, <1>10

LEMMA StoreRestart ==
  ASSUME CacheInv, Restart
  PROVE  Store!Restart
<1> DEFINE lost == {r \in Requests : pc[r] \notin Ended \union {"idle"}}
<1>1. TypeOK /\ pc \in [Requests -> Steps]
  BY DEF CacheInv, TypeOK
<1>2. /\ pc' = [r \in Requests |-> IF r \in lost THEN "gone" ELSE pc[r]]
      /\ UNCHANGED <<files, kind, found>>
  BY <1>1 DEF Restart
<1>3. \A r \in Requests : AnswerOf(r)' = IF r \in lost THEN "gone" ELSE AnswerOf(r)
  BY <1>1, <1>2 DEF AnswerOf, Creating
<1>4. \A r \in lost : AnswerOf(r) \in {"open", "miss"}
  BY <1>1 DEF AnswerOf, Creating, Ended
<1>5. lost \in SUBSET {r \in Requests : answers[r] \in {"open", "miss"}}
  BY <1>4 DEF answers
<1>6. answers' = [r \in Requests |-> IF r \in lost THEN "gone" ELSE answers[r]]
  BY <1>3 DEF answers
<1> HIDE DEF lost
<1>7. cached' = cached
  BY <1>2 DEF cached, Final
<1> QED
  BY <1>2, <1>5, <1>6, <1>7 DEF Store!Restart

(* Seen from the program, the trace file is one value that is looked up,   *)
(* replaced and removed in single steps.                                   *)
THEOREM CacheImplementsStore == SafeSpec => ImplementsTraceStore
<1>1. ASSUME Init PROVE Store!Init
  <2>1. Final("trace") \in Names
    BY DEF Names, Final, Kinds
  <2>2. cached = Nobody
    BY <1>1, <2>1 DEF Init, cached, Absent
  <2>3. answers = [r \in Requests |-> "open"]
    BY <1>1 DEF Init, answers, AnswerOf
  <2> QED
    BY <1>1, <2>2, <2>3 DEF Init, Store!Init
<1>2. ASSUME CacheInv, [Next]_vars
      PROVE  Store!Next \/ UNCHANGED Store!vars
  <2>1. TypeOK
    BY <1>2 DEF CacheInv
  <2>2. CASE \E r \in Requests : Begin(r) \/ RequestStep(r) \/ RpcAnswers(r) \/ ReplayEnds(r)
    BY <1>2, <2>2, StoreRequest
  <2>3. CASE Restart
    BY <1>2, <2>3, StoreRestart DEF Store!Next
  <2>4. CASE CleanRemove /\ doomed = Final("trace")
    <3>1. UNCHANGED <<answers, found>> /\ cached' = Nobody
      BY <2>1, <2>4 DEF CleanRemove, requestVars, answers, AnswerOf, Creating, TypeOK, cached,
                        Absent, Final
    <3> QED
      BY <3>1 DEF Store!Next, Store!Evict, Store!vars
  <2>5. CASE \/ UNCHANGED vars \/ Tick
             \/ CleanStep /\ ~(CleanRemove /\ doomed = Final("trace"))
    <3>1. UNCHANGED <<pc, kind, found>>
      BY <2>5 DEF vars, Tick, CleanStep, CleanStart, CleanLook, CleanRemove, CleanEnd, requestVars
    <3>2. UNCHANGED answers
      BY <3>1 DEF answers, AnswerOf, Creating
    <3>3. UNCHANGED cached
      <4>1. \A r \in Requests : ~(Rename(r) /\ kind[r] = "trace")
        BY <2>1, <3>1 DEF Rename, Goto, TypeOK
      <4>2. ~(CleanRemove /\ doomed = Final("trace"))
        BY <2>5 DEF vars, cleanerVars, Tick, CleanRemove
      <4> QED
        BY <1>2, <2>1, <4>1, <4>2, CachedUnlessTrace
    <3> QED
      BY <3>1, <3>2, <3>3 DEF Store!vars
  <2> QED
    BY <1>2, <2>2, <2>3, <2>4, <2>5 DEF Next
<1>3. CacheInv /\ [Next]_vars => [Store!Next]_(Store!vars)
  BY <1>2
<1> QED
  BY <1>1, <1>3, CacheInvariance, PTL DEF SafeSpec, ImplementsTraceStore, Store!Spec

(* Through all the steps of the directory, every request that is served    *)
(* from the cache is served what another one replayed: never the part of a *)
(* file, a file that no request wrote, or its own.                         *)
THEOREM HitsComeFromReplays == SafeSpec => []Store!ServedByMisses
<1> DEFINE Typed == /\ answers \in [Requests -> {"open", "hit", "miss", "failed", "gone"}]
                    /\ found \in [Requests -> Requests \union {Nobody}]
<1>1. ASSUME TypeOK PROVE Typed
  <2>1. \A r \in Requests : AnswerOf(r) \in {"open", "hit", "miss", "failed", "gone"}
    BY DEF AnswerOf
  <2> QED
    BY <1>1, <2>1 DEF answers, TypeOK
<1>2. ASSUME Store!Init PROVE Store!ServedByMisses
  BY <1>2 DEF Store!Init, Store!ServedByMisses
<1> HIDE DEF Typed
<1>3. ASSUME Typed, Store!ServedByMisses, [Store!Next]_(Store!vars)
      PROVE  Store!ServedByMisses'
  <2> USE <1>3 DEF Typed
  <2>1. ASSUME NEW r \in Requests, Store!Hit(r)
        PROVE  Store!ServedByMisses'
    <3>1. /\ answers[r] = "open" /\ cached \in Requests \ {r}
          /\ answers[cached] \in {"miss", "gone"}
      BY <2>1 DEF Store!Hit, Store!ServedByMisses
    <3> QED
      BY <2>1, <3>1 DEF Store!Hit, Store!ServedByMisses
  <2>2. ASSUME NEW r \in Requests, Store!Miss(r) \/ Store!Fail(r)
        PROVE  Store!ServedByMisses'
    BY <2>2 DEF Store!Miss, Store!Fail, Store!ServedByMisses
  <2>3. ASSUME NEW r \in Requests, Store!Save(r)
        PROVE  Store!ServedByMisses'
    BY <2>3 DEF Store!Save, Store!ServedByMisses
  <2>4. CASE Store!Evict
    BY <2>4 DEF Store!Evict, Store!ServedByMisses
  <2>5. CASE Store!Restart
    BY <2>5 DEF Store!Restart, Store!ServedByMisses
  <2>6. CASE UNCHANGED Store!vars
    BY <2>6 DEF Store!vars, Store!ServedByMisses
  <2> QED
    BY <2>1, <2>2, <2>3, <2>4, <2>5, <2>6 DEF Store!Next
<1>4. TypeOK => Typed
  BY <1>1
<1> QED
  BY <1>2, <1>3, <1>4, TypeCorrect, CacheImplementsStore, PTL
  DEF ImplementsTraceStore, Store!Spec
=============================================================================
