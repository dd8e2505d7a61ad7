--------------------------- MODULE Frontend_proofs ----------------------------
(***************************************************************************)
(* The page stays consistent with the server however many of its functions *)
(* are under way at once, whatever is lost and whatever vanishes: the list *)
(* of opcodes is that of the current session, a function that has the page *)
(* to itself leaves it showing what the server says, no session is shown   *)
(* ahead of where it is, and lost commands give the buttons back.          *)
(***************************************************************************)
EXTENDS Frontend, TLAPS

ServerType ==
  /\ status \in [Sessions -> Server!Statuses]
  /\ position \in [Sessions -> Nat] /\ length \in [Sessions -> Nat]
  /\ ending \in [Sessions -> Server!Endings]

Busy(c)  == calls[c].at # "idle"
Loads(c) == Busy(c) /\ calls[c].request \in {"create", "get", "trace_steps"}
Created(c) == calls[c].at = "waiting" \/ calls[c].request # "create"

(* What a load knows: the session it polls is the current one, and the     *)
(* list that it has been sent is that session's, or the session is gone.   *)
LoadPart(c) ==
  /\ calls[c].at = "idle" => calls[c].list = NoSession
  /\ calls[c].at = "waiting" => calls[c].request \in {"create", "get"}
  /\ calls[c].at = "sent" /\ calls[c].request = "create" => calls[c].session = NoSession
  /\ Loads(c) =>
       /\ loadInFlight
       /\ Created(c) => calls[c].session = currentSessionId
       /\ calls[c].list \in {NoSession, NotAList, calls[c].session}
       /\ calls[c].list = NotAList =>
            calls[c].session \in Sessions /\ status[calls[c].session] = "gone"

ListPart ==
  /\ ListBelongs
  /\ allTraceSteps = NotAList =>
       currentSessionId \in Sessions /\ status[currentSessionId] = "gone"

(* One load at most is under way.                                          *)
LoadInv ==
  /\ \A c \in Calls : LoadPart(c)
  /\ \A c, d \in Calls : Loads(c) /\ Loads(d) => c = d
  /\ ListPart

(* The state that c was answered is the one that its session still has.    *)
Holds(c) ==
  LET a == calls[c] IN
    \/ status[a.session] = "gone" \/ a.state = "loading"
    \/ /\ a.state = status[a.session]
       /\ a.state = "paused" => a.position = position[a.session]

(* A call that has the page to itself is about the current session, and    *)
(* nothing has happened to that session since it was answered.             *)
AlonePart(c) ==
  Busy(c) =>
    /\ Created(c) => calls[c].session = currentSessionId
    /\ calls[c].request = "abort" =>
         /\ ~buttons
         /\ calls[c].at = "answered" => status[calls[c].session] \in {"aborted", "gone"}
    /\ calls[c].request = "trace_steps" => calls[c].state = "paused"
    /\ (calls[c].at = "answered" \/ calls[c].request = "trace_steps")
         /\ calls[c].session # NoSession => Holds(c)

AloneInv ==
  /\ work = "answered" => (\A c \in Calls : ~Busy(c)) /\ currentSessionId \in Sessions
  /\ work = "alone" =>
       /\ \A c, d \in Calls : Busy(c) /\ Busy(d) => c = d
       /\ \A c \in Calls : AlonePart(c)

PageInv == TypeOK /\ LoadInv /\ AloneInv /\ AnsweredPageIsCurrent

-----------------------------------------------------------------------------
(* What any step of the server may do to a session.                        *)
LEMMA ServerSteps ==
  ASSUME TypeOK, NEW s \in Sessions,
         \/ Server!Open(s) \/ Server!OpenSettled(s) \/ Server!Load(s) \/ Server!Fail(s)
         \/ Server!Move(s) \/ Server!Abort(s)
  PROVE  /\ ServerType'
         /\ \A r \in Sessions \ {s} :
              status'[r] = status[r] /\ position'[r] = position[r] /\ length'[r] = length[r]
         /\ status[s] # "gone" /\ status'[s] # "gone"
<1>1. ServerType
  BY DEF TypeOK, ServerType
<1>2. ASSUME NEW n \in Lengths, NEW e \in Server!Endings, Server!Settle(s, n, e)
      PROVE  /\ ServerType' /\ status'[s] # "gone"
             /\ \A r \in Sessions \ {s} :
                  status'[r] = status[r] /\ position'[r] = position[r] /\ length'[r] = length[r]
  <2>1. Server!Reported(0, n, e) \in Server!Statuses \ {"gone"} /\ n \in Nat
    BY FrontendAssumption DEF Server!Reported, Server!Statuses, Server!Endings
  <2> QED
    BY <1>1, <1>2, <2>1 DEF ServerType, Server!Settle
<1>3. CASE Server!OpenSettled(s) \/ Server!Load(s)
  BY <1>2, <1>3 DEF Server!OpenSettled, Server!Load
<1>4. CASE Server!Open(s) \/ Server!Fail(s) \/ Server!Abort(s)
  BY <1>1, <1>4 DEF Server!Open, Server!Fail, Server!Abort, ServerType, Server!Statuses, Server!Endings
<1>5. CASE Server!Move(s)
  <2>1. PICK p \in position[s] + 1 .. length[s] :
          /\ position' = [position EXCEPT ![s] = p]
          /\ status' = [status EXCEPT ![s] = Server!Reported(p, length[s], ending[s])]
    BY <1>5 DEF Server!Move
  <2>2. p \in Nat /\ Server!Reported(p, length[s], ending[s]) \in Server!Statuses \ {"gone"}
    BY <1>1 DEF ServerType, Server!Reported, Server!Statuses, Server!Endings
  <2> QED
    BY <1>1, <1>5, <2>1, <2>2 DEF ServerType, Server!Move
<1> QED
  BY <1>3, <1>4, <1>5

LEMMA ServerGone ==
  ASSUME TypeOK, Server!Restart
  PROVE  /\ ServerType'
         /\ \A s \in Sessions : status'[s] = "gone" \/ (status[s] = "absent" /\ status'[s] = "absent")
BY DEF TypeOK, ServerType, Server!Restart, Server!Statuses, Server!Endings

(* Other functions of the page than c, before and after a step of c.       *)
Elsewhere(c) == \A d \in Calls \ {c} : calls'[d] = calls[d]

LEMMA CallFacts ==
  ASSUME TypeOK, NEW c \in Calls
  PROVE  /\ calls[c] \in Records /\ Idle \in Records
         /\ \A d \in Calls : calls[d] \in Records
         /\ calls[c].session \in Sessions \union {NoSession}
         /\ calls[c].list \in Sessions \union {NoSession, NotAList}
         /\ calls[c].state \in Server!Statuses /\ calls[c].position \in Nat
         /\ Created(c) /\ Busy(c) => calls[c].session \in Sessions
<1>1. \A d \in Calls : calls[d] \in Records
  BY DEF TypeOK
<1>2. Idle \in Records
  BY DEF Idle, Records, Requests, Server!Statuses
<1> QED
  BY <1>1, <1>2 DEF TypeOK, Records, Created, Busy

LEMMA SendFacts ==
  ASSUME TypeOK, NEW c \in Calls, NEW request \in Requests,
         NEW s \in Sessions \union {NoSession}, Send(c, request, s)
  PROVE  /\ calls' \in [Calls -> Records] /\ Elsewhere(c)
         /\ calls'[c].at = "sent" /\ calls'[c].request = request /\ calls'[c].session = s
         /\ calls'[c].state = calls[c].state /\ calls'[c].position = calls[c].position
         /\ calls'[c].list = calls[c].list
<1>1. calls \in [Calls -> Records]
  BY DEF TypeOK
<1> QED
  BY <1>1 DEF Send, Records, Elsewhere

LEMMA EndsFacts ==
  ASSUME TypeOK, NEW c \in Calls, NEW answered \in BOOLEAN, Ends(c, answered)
  PROVE  /\ calls' \in [Calls -> Records] /\ Elsewhere(c) /\ calls'[c] = Idle
         /\ work' = IF work # "alone" THEN work ELSE IF answered THEN "answered" ELSE "none"
<1>1. calls \in [Calls -> Records] /\ Idle \in Records
  BY CallFacts DEF TypeOK
<1> QED
  BY <1>1 DEF Ends, Elsewhere

LEMMA WaitFacts ==
  ASSUME TypeOK, NEW c \in Calls, calls' = [calls EXCEPT ![c].at = "waiting"]
  PROVE  /\ calls' \in [Calls -> Records] /\ Elsewhere(c)
         /\ calls'[c] = [calls[c] EXCEPT !.at = "waiting"]
         /\ calls'[c].at = "waiting" /\ calls'[c].request = calls[c].request
         /\ calls'[c].session = calls[c].session /\ calls'[c].list = calls[c].list
<1>1. calls \in [Calls -> Records]
  BY DEF TypeOK
<1> QED
  BY <1>1 DEF Records, Elsewhere

LEMMA AnswerFacts ==
  ASSUME TypeOK, NEW c \in Calls, NEW s \in Sessions, ServerType',
         NEW list \in Sessions \union {NoSession, NotAList}, Answer(c, s, list)
  PROVE  /\ calls' \in [Calls -> Records] /\ Elsewhere(c)
         /\ calls'[c].at = "answered" /\ calls'[c].request = calls[c].request
         /\ calls'[c].session = s /\ calls'[c].list = list
         /\ calls'[c].state = status'[s] /\ calls'[c].position = position'[s]
<1>1. calls \in [Calls -> Records] /\ status'[s] \in Server!Statuses /\ position'[s] \in Nat
  BY DEF TypeOK, ServerType
<1>2. calls[c] \in Records /\ \A d \in Calls \ {c} : calls'[d] = calls[d]
  BY <1>1 DEF Answer
<1>3. calls'[c] = [calls[c] EXCEPT !.at = "answered", !.session = s, !.state = status'[s],
                                   !.position = position'[s], !.list = list]
  BY <1>1 DEF Answer
<1>4. [calls[c] EXCEPT !.at = "answered", !.session = s, !.state = status'[s],
                       !.position = position'[s], !.list = list] \in Records
  BY <1>1, <1>2 DEF Records
<1>5. calls' \in [Calls -> Records]
  <2>1. calls' = [calls EXCEPT ![c] = calls'[c]]
    BY <1>1 DEF Answer
  <2> QED
    BY <1>1, <1>3, <1>4, <2>1
<1>6. /\ calls'[c].at = "answered" /\ calls'[c].request = calls[c].request
      /\ calls'[c].session = s /\ calls'[c].list = list
      /\ calls'[c].state = status'[s] /\ calls'[c].position = position'[s]
  BY <1>2, <1>3 DEF Records
<1> QED
  BY <1>2, <1>5, <1>6 DEF Elsewhere

LEMMA PageInit == ASSUME Init PROVE PageInv
<1>1. TypeOK
  BY DEF Init, TypeOK, Server!Init, Server!Statuses, Server!Endings, Idle, Records, Requests, Messages
<1>2. \A c \in Calls : calls[c].at = "idle" /\ calls[c].list = NoSession
  BY DEF Init, Idle
<1>3. /\ currentSessionId = NoSession /\ allTraceSteps = NoSession /\ work = "none"
      /\ NoSession # NotAList
  BY FrontendAssumption DEF Init
<1> QED
  BY <1>1, <1>2, <1>3
  DEF PageInv, LoadInv, LoadPart, ListPart, ListBelongs, AloneInv, AnsweredPageIsCurrent, Loads, Busy

-----------------------------------------------------------------------------
(* What is left to show of a step of the function c: the variables of the  *)
(* page have their types, and the parts of the invariant that are c's.     *)
LEMMA TypeStep ==
  ASSUME TypeOK, ServerType', NEW c \in Calls, calls' \in [Calls -> Records], Elsewhere(c),
         Busy(c)' /\ Created(c)' => calls'[c].session # NoSession,
         currentSessionId' \in Sessions \union {NoSession}, loadInFlight' \in BOOLEAN,
         allTraceSteps' \in Sessions \union {NoSession, NotAList}, buttons' \in BOOLEAN,
         view' \in [session : Sessions \union {NoSession},
                    state : Server!Statuses \union Messages, position : Nat],
         work' \in {"none", "alone", "overlapping", "answered"}
  PROVE  TypeOK'
<1>1. ASSUME NEW d \in Calls,
             calls'[d].at = "waiting" \/ (calls'[d].at # "idle" /\ calls'[d].request # "create")
      PROVE  calls'[d].session # NoSession
  <2>1. CASE d = c
    BY <1>1, <2>1 DEF Busy, Created
  <2>2. CASE d # c
    BY <1>1, <2>2 DEF Elsewhere, TypeOK
  <2> QED
    BY <2>1, <2>2
<1> QED
  BY <1>1 DEF TypeOK, ServerType

GoneStays == \A s \in Sessions : status[s] = "gone" => status'[s] = "gone"

(* c is no load.                                                           *)
LEMMA OtherLoads ==
  ASSUME PageInv, NEW c \in Calls, Elsewhere(c), GoneStays,
         ~Loads(c), ~Loads(c)', calls'[c].at # "waiting",
         calls'[c].at = "idle" => calls'[c].list = NoSession,
         UNCHANGED <<loadInFlight, currentSessionId, allTraceSteps>>
  PROVE  LoadInv'
<1>1. ListPart'
  BY DEF PageInv, LoadInv, ListPart, ListBelongs, GoneStays
<1>2. LoadPart(c)'
  BY DEF LoadPart, Loads, Busy
<1>3. ASSUME NEW d \in Calls, d # c PROVE LoadPart(d)' /\ (Loads(d)' <=> Loads(d))
  BY <1>3 DEF PageInv, LoadInv, LoadPart, Loads, Busy, Created, Elsewhere, GoneStays
<1> QED
  BY <1>1, <1>2, <1>3 DEF PageInv, LoadInv

(* c is the load, at least before the step.                                *)
LEMMA ThisLoad ==
  ASSUME PageInv, NEW c \in Calls, Elsewhere(c),
         \A d \in Calls \ {c} : ~Loads(d), LoadPart(c)', ListPart'
  PROVE  LoadInv'
<1>1. ASSUME NEW d \in Calls, d # c PROVE LoadPart(d)' /\ ~Loads(d)'
  BY <1>1 DEF PageInv, LoadInv, LoadPart, Loads, Busy, Elsewhere
<1> QED
  BY <1>1 DEF LoadInv

(* Whatever c does, if it goes on.                                         *)
LEMMA AloneGoesOn ==
  ASSUME PageInv, NEW c \in Calls, Elsewhere(c), Busy(c), UNCHANGED work,
         work = "alone" => AlonePart(c)'
  PROVE  AloneInv' /\ AnsweredPageIsCurrent'
<1>1. work' # "answered"
  BY DEF PageInv, AloneInv
<1>2. ASSUME work = "alone", NEW d \in Calls, d # c PROVE ~Busy(d)' /\ AlonePart(d)'
  BY <1>2 DEF PageInv, AloneInv, AlonePart, Busy, Elsewhere
<1> QED
  BY <1>1, <1>2 DEF AloneInv, AnsweredPageIsCurrent

(* And if it ends.                                                         *)
LEMMA AloneEnds ==
  ASSUME PageInv, NEW c \in Calls, NEW answered \in BOOLEAN, Busy(c), Ends(c, answered),
         work = "alone" /\ answered => currentSessionId' \in Sessions /\ AnsweredPageIsCurrent'
  PROVE  AloneInv' /\ AnsweredPageIsCurrent'
<1>1. /\ Elsewhere(c) /\ calls'[c] = Idle
      /\ work' = IF work # "alone" THEN work ELSE IF answered THEN "answered" ELSE "none"
  BY EndsFacts DEF PageInv
<1>2. ~Busy(c)'
  BY <1>1 DEF Busy, Idle
<1>3. work # "answered" /\ work' # "alone"
  BY <1>1 DEF PageInv, AloneInv
<1>4. ASSUME work' = "answered" PROVE work = "alone" /\ answered
  BY <1>1, <1>3, <1>4
<1>5. ASSUME work = "alone", NEW d \in Calls PROVE ~Busy(d)'
  BY <1>1, <1>2, <1>5 DEF PageInv, AloneInv, Busy, Elsewhere
<1> QED
  BY <1>3, <1>4, <1>5 DEF AloneInv, AnsweredPageIsCurrent

(* Or if it begins.                                                        *)
LEMMA AloneBegins ==
  ASSUME PageInv, NEW c \in Calls, Begins(c), Elsewhere(c), AlonePart(c)'
  PROVE  AloneInv' /\ AnsweredPageIsCurrent' /\ work' \in {"alone", "overlapping"}
<1>1. work' \in {"alone", "overlapping"} /\ ~Busy(c)
  BY DEF Begins, Busy
<1>2. ASSUME work' = "alone", NEW d \in Calls, d # c PROVE ~Busy(d)'
  BY <1>2 DEF Begins, Busy, Elsewhere
<1>3. ASSUME work' = "alone", NEW d \in Calls PROVE AlonePart(d)'
  BY <1>2, <1>3 DEF AlonePart
<1> QED
  BY <1>1, <1>2, <1>3 DEF AloneInv, AnsweredPageIsCurrent

-----------------------------------------------------------------------------
(* The functions begin.                                                    *)
Views == [session : Sessions \union {NoSession},
          state : Server!Statuses \union Messages, position : Nat]

LEMMA SayFacts ==
  ASSUME TypeOK, NEW message \in Server!Statuses \union Messages, Says(message)
  PROVE  view' \in Views
BY DEF TypeOK, Says, Displays, Views

(* A function that has begun with a request of the current session.        *)
LEMMA CommandBegins ==
  ASSUME PageInv, NEW c \in Calls, NEW request \in {"step", "continue", "abort"},
         currentSessionId # NoSession, Begins(c), Send(c, request, currentSessionId),
         buttons' = FALSE, view' \in Views,
         UNCHANGED <<serverVars, currentSessionId, loadInFlight, allTraceSteps>>
  PROVE  PageInv'
<1>1. TypeOK /\ ServerType' /\ currentSessionId \in Sessions /\ calls[c].at = "idle"
  BY DEF PageInv, TypeOK, ServerType, serverVars, Begins
<1>2. /\ calls' \in [Calls -> Records] /\ Elsewhere(c)
      /\ calls'[c].at = "sent" /\ calls'[c].request = request
      /\ calls'[c].session = currentSessionId
  BY <1>1, SendFacts DEF Requests
<1>3. AlonePart(c)'
  BY <1>2 DEF AlonePart
<1>4. AloneInv' /\ AnsweredPageIsCurrent' /\ work' \in {"alone", "overlapping"}
  BY <1>2, <1>3, AloneBegins
<1>5. LoadInv'
  BY <1>1, <1>2, OtherLoads DEF Loads, Busy, GoneStays, serverVars
<1>6. TypeOK'
  BY <1>1, <1>2, <1>4, TypeStep DEF Views, TypeOK
<1> QED
  BY <1>4, <1>5, <1>6 DEF PageInv

LEMMA LoadTxStep == ASSUME PageInv, NEW c \in Calls, LoadTx(c) PROVE PageInv'
<1>1. TypeOK /\ ServerType' /\ view' \in Views /\ calls[c].at = "idle" /\ calls[c].list = NoSession
  BY SayFacts
  DEF PageInv, TypeOK, ServerType, LoadTx, serverVars, Server!Statuses, Begins, LoadInv, LoadPart
<1>2. /\ calls' \in [Calls -> Records] /\ Elsewhere(c)
      /\ calls'[c].at = "sent" /\ calls'[c].request = "create" /\ calls'[c].session = NoSession
      /\ calls'[c].list = NoSession
  BY <1>1, SendFacts DEF LoadTx, Requests
<1>3. \A d \in Calls : ~Loads(d)
  BY DEF PageInv, LoadInv, LoadPart, LoadTx
<1>4. LoadPart(c)' /\ ListPart'
  BY <1>2, FrontendAssumption DEF LoadTx, LoadPart, ListPart, ListBelongs, Created
<1>5. LoadInv'
  BY <1>2, <1>3, <1>4, ThisLoad
<1>6. AlonePart(c)'
  BY <1>2 DEF AlonePart, Created
<1>7. AloneInv' /\ AnsweredPageIsCurrent' /\ work' \in {"alone", "overlapping"}
  BY <1>2, <1>6, AloneBegins DEF LoadTx
<1>8. TypeOK'
  BY <1>1, <1>2, <1>7, TypeStep DEF Views, TypeOK, LoadTx, Created
<1> QED
  BY <1>5, <1>7, <1>8 DEF PageInv

LEMMA BeginSteps ==
  ASSUME PageInv, NEW c \in Calls, Step(c) \/ ContinueExec(c) \/ AbortSession(c)
  PROVE  PageInv'
<1>1. CASE Step(c)
  <2>1. view' \in Views
    BY <1>1 DEF Step, PageInv, TypeOK, Views
  <2> QED
    BY <1>1, <2>1, CommandBegins DEF Step
<1>2. CASE ContinueExec(c)
  <2>1. view' \in Views
    BY <1>2, SayFacts DEF ContinueExec, PageInv, Messages
  <2> QED
    BY <1>2, <2>1, CommandBegins DEF ContinueExec
<1>3. CASE AbortSession(c)
  <2>1. view' \in Views
    BY <1>3, SayFacts DEF AbortSession, PageInv, Messages
  <2> QED
    BY <1>3, <2>1, CommandBegins DEF AbortSession
<1> QED
  BY <1>1, <1>2, <1>3

-----------------------------------------------------------------------------
(* The server handles the request of c.                                    *)
LEMMA GoneFacts ==
  ASSUME TypeOK, NEW s \in Sessions,
         \/ Server!Open(s) \/ Server!OpenSettled(s) \/ Server!Load(s) \/ Server!Fail(s)
         \/ Server!Move(s) \/ Server!Abort(s)
  PROVE  ServerType' /\ GoneStays /\ status'[s] # "gone"
BY ServerSteps DEF GoneStays

LEMMA Served ==
  ASSUME PageInv, NEW c \in Calls, NEW s \in Sessions, NEW list \in {NoSession, s},
         calls[c].at = "sent", calls[c].request # "trace_steps",
         Answer(c, s, list), ServerType', GoneStays, UNCHANGED <<pageVars, work>>,
         Created(c) => s = calls[c].session,
         calls[c].request = "abort" => status'[s] \in {"aborted", "gone"}
  PROVE  PageInv'
<1>1. TypeOK /\ Busy(c)
  BY DEF PageInv, Busy
<1>2. /\ calls' \in [Calls -> Records] /\ Elsewhere(c)
      /\ calls'[c].at = "answered" /\ calls'[c].request = calls[c].request
      /\ calls'[c].session = s /\ calls'[c].list = list
      /\ calls'[c].state = status'[s] /\ calls'[c].position = position'[s]
  BY <1>1, AnswerFacts
<1>3. s # NoSession /\ s # NotAList /\ NoSession # NotAList
  BY FrontendAssumption
<1>4. TypeOK'
  BY <1>1, <1>2, <1>3, TypeStep DEF TypeOK, Views, pageVars
<1>5. LoadInv'
  <2>1. CASE Loads(c)
    <3>1. LoadPart(c)'
      BY <1>2, <1>3, <2>1 DEF PageInv, LoadInv, LoadPart, Created, Loads, Busy, pageVars
    <3>2. ListPart'
      BY DEF PageInv, LoadInv, ListPart, ListBelongs, GoneStays, pageVars
    <3>3. \A d \in Calls \ {c} : ~Loads(d)
      BY <2>1 DEF PageInv, LoadInv
    <3> QED
      BY <1>2, <3>1, <3>2, <3>3, ThisLoad
  <2>2. CASE ~Loads(c)
    BY <1>1, <1>2, <2>2, OtherLoads DEF Loads, Busy, pageVars
  <2> QED
    BY <2>1, <2>2
<1>6. ASSUME work = "alone" PROVE AlonePart(c)'
  <2>1. AlonePart(c)
    BY <1>6 DEF PageInv, AloneInv
  <2> QED
    BY <1>1, <1>2, <2>1 DEF AlonePart, Created, Busy, Holds, pageVars
<1> QED
  BY <1>1, <1>2, <1>4, <1>5, <1>6, AloneGoesOn DEF PageInv

LEMMA ServeStep == ASSUME PageInv, NEW c \in Calls, Serve(c) PROVE PageInv'
<1> DEFINE s == calls[c].session
<1>1. /\ TypeOK /\ calls[c].at = "sent" /\ Busy(c) /\ UNCHANGED <<pageVars, work>>
      /\ Created(c) => s \in Sessions
      /\ NoSession # NotAList
  BY CallFacts, FrontendAssumption DEF PageInv, Serve, Busy
<1>2. CASE ServeCreate(c)
  <2>1. ASSUME NEW r \in Sessions, Server!Open(r), Answer(c, r, NoSession) PROVE PageInv'
    BY <1>1, <1>2, <2>1, GoneFacts, Served DEF ServeCreate, Created
  <2>2. ASSUME NEW r \in Sessions, Server!OpenSettled(r), Answer(c, r, Listed(r)') PROVE PageInv'
    <3>1. ServerType' /\ GoneStays /\ status'[r] # "gone"
      BY <1>1, <2>2, GoneFacts
    <3>2. Listed(r)' \in {NoSession, r}
      BY <3>1 DEF Listed
    <3> QED
      BY <1>1, <1>2, <2>2, <3>1, <3>2, Served DEF ServeCreate, Created
  <2>3. CASE calls' = [calls EXCEPT ![c].at = "answered"] /\ UNCHANGED serverVars
    <3>1. calls \in [Calls -> Records] /\ calls[c] \in Records
      BY <1>1 DEF TypeOK
    <3>2. calls' \in [Calls -> Records] /\ Elsewhere(c)
      BY <2>3, <3>1 DEF Records, Elsewhere
    <3>3. calls'[c] = [calls[c] EXCEPT !.at = "answered"]
      BY <2>3, <3>1
    <3>4. /\ calls'[c].at = "answered" /\ calls'[c].request = "create"
          /\ calls'[c].session = NoSession /\ calls'[c].list = calls[c].list
      BY <1>1, <1>2, <3>1, <3>3 DEF Records, ServeCreate, PageInv, LoadInv, LoadPart
    <3>5. Loads(c) /\ LoadPart(c)
      BY <1>1, <1>2 DEF ServeCreate, Loads, PageInv, LoadInv
    <3>6. LoadPart(c)'
      BY <1>1, <1>2, <2>3, <3>4, <3>5
      DEF LoadPart, Loads, Busy, Created, pageVars, serverVars, ServeCreate
    <3>7. LoadInv'
      <4>1. ListPart' /\ \A d \in Calls \ {c} : ~Loads(d)
        BY <1>1, <2>3, <3>5 DEF PageInv, LoadInv, ListPart, ListBelongs, pageVars, serverVars
      <4> QED
        BY <3>2, <3>6, <4>1, ThisLoad
    <3>8. AlonePart(c)'
      BY <3>4 DEF AlonePart, Created
    <3>9. TypeOK'
      BY <1>1, <2>3, <3>2, <3>4, TypeStep
      DEF TypeOK, ServerType, Views, pageVars, serverVars, Created
    <3> QED
      BY <1>1, <3>2, <3>7, <3>8, <3>9, AloneGoesOn DEF PageInv
  <2> QED
    BY <1>2, <2>1, <2>2, <2>3 DEF ServeCreate
<1>3. ASSUME UNCHANGED serverVars PROVE ServerType' /\ GoneStays
  BY <1>1, <1>3 DEF TypeOK, ServerType, GoneStays, serverVars
<1>4. CASE ServeCommand(c, s)
  <2>1. s \in Sessions /\ calls[c].request \in {"step", "continue"}
    BY <1>1, <1>4 DEF ServeCommand, Created
  <2>2. ServerType' /\ GoneStays
    BY <1>1, <1>3, <1>4, <2>1, GoneFacts DEF ServeCommand
  <2> QED
    BY <1>1, <1>4, <2>1, <2>2, Served DEF ServeCommand
<1>5. CASE ServeAbort(c, s)
  <2>1. s \in Sessions /\ calls[c].request = "abort"
    BY <1>1, <1>5 DEF ServeAbort, Created
  <2>2. ServerType' /\ GoneStays /\ status'[s] \in {"aborted", "gone"}
    <3>1. CASE Server!Abort(s)
      BY <1>1, <2>1, <3>1, GoneFacts DEF Server!Abort, TypeOK
    <3>2. CASE status[s] = "gone" /\ UNCHANGED serverVars
      BY <1>3, <3>2 DEF serverVars
    <3> QED
      BY <1>5, <3>1, <3>2 DEF ServeAbort
  <2> QED
    BY <1>1, <1>5, <2>1, <2>2, Served DEF ServeAbort
<1>6. CASE ServeGet(c, s)
  BY <1>1, <1>3, <1>6, Served DEF ServeGet, Created
<1>7. CASE ServeSteps(c, s)
  <2>1. s \in Sessions /\ calls[c].request = "trace_steps" /\ s # NoSession
    BY <1>1, <1>7, FrontendAssumption DEF ServeSteps, Created
  <2>2. calls \in [Calls -> Records] /\ calls[c] \in Records /\ Listed(s) \in {NotAList, s, NoSession}
    BY <1>1 DEF TypeOK, Listed
  <2>3. calls' \in [Calls -> Records] /\ Elsewhere(c)
    BY <1>7, <2>1, <2>2 DEF Records, Elsewhere, ServeSteps
  <2>4. calls'[c] = [calls[c] EXCEPT !.at = "answered", !.list = Listed(s)]
    BY <1>7, <2>2 DEF ServeSteps
  <2>5. /\ calls'[c].at = "answered" /\ calls'[c].request = "trace_steps"
        /\ calls'[c].session = s /\ calls'[c].list = Listed(s)
        /\ calls'[c].state = calls[c].state /\ calls'[c].position = calls[c].position
    BY <2>1, <2>2, <2>4 DEF Records
  <2>6. Listed(s) = NotAList => status[s] = "gone"
    BY <2>1, FrontendAssumption DEF Listed
  <2>7. Loads(c) /\ LoadPart(c)
    BY <1>1, <2>1 DEF Loads, PageInv, LoadInv
  <2>8. LoadPart(c)'
    BY <1>1, <1>7, <2>1, <2>2, <2>5, <2>6, <2>7
    DEF LoadPart, Created, pageVars, serverVars, ServeSteps
  <2>9. LoadInv'
    <3>1. ListPart' /\ \A d \in Calls \ {c} : ~Loads(d)
      BY <1>1, <1>7, <2>7
      DEF PageInv, LoadInv, ListPart, ListBelongs, pageVars, serverVars, ServeSteps
    <3> QED
      BY <2>3, <2>8, <3>1, ThisLoad
  <2>10. ASSUME work = "alone" PROVE AlonePart(c)'
    <3>1. AlonePart(c)
      BY <2>10 DEF PageInv, AloneInv
    <3> QED
      BY <1>1, <1>7, <2>1, <2>5, <3>1
      DEF AlonePart, Created, Busy, Holds, pageVars, serverVars, ServeSteps
  <2>11. TypeOK'
    BY <1>1, <1>3, <1>7, <2>1, <2>3, <2>5, TypeStep DEF TypeOK, Views, pageVars, ServeSteps
  <2> QED
    BY <1>1, <2>3, <2>9, <2>10, <2>11, AloneGoesOn DEF PageInv
<1> QED
  BY <1>2, <1>4, <1>5, <1>6, <1>7 DEF Serve

-----------------------------------------------------------------------------
(* The page receives.                                                      *)
LEMMA LoadGoesOn ==
  ASSUME PageInv, NEW c \in Calls, Loads(c), calls' \in [Calls -> Records], Elsewhere(c),
         \/ calls'[c].at = "waiting" /\ calls'[c].request \in {"create", "get"}
         \/ calls'[c].at = "sent" /\ calls'[c].request \in {"get", "trace_steps"},
         calls[c].session \in Sessions, calls'[c].session = calls[c].session,
         calls'[c].list = calls[c].list, currentSessionId' = calls[c].session, ListPart',
         allTraceSteps' \in Sessions \union {NoSession, NotAList},
         buttons' \in BOOLEAN, view' \in Views, UNCHANGED <<serverVars, loadInFlight, work>>,
         work = "alone" /\ calls'[c].request = "trace_steps" =>
           calls'[c].state = "paused" /\ Holds(c)'
  PROVE  PageInv'
<1>1. TypeOK /\ ServerType' /\ Busy(c) /\ LoadPart(c) /\ calls[c].session # NoSession
  BY FrontendAssumption DEF PageInv, TypeOK, ServerType, serverVars, Loads, LoadInv
<1>2. LoadPart(c)'
  BY <1>1 DEF LoadPart, Created, serverVars
<1>3. \A d \in Calls \ {c} : ~Loads(d)
  BY DEF PageInv, LoadInv
<1>4. LoadInv'
  BY <1>2, <1>3, ThisLoad
<1>5. ASSUME work = "alone" PROVE AlonePart(c)'
  BY <1>5 DEF AlonePart, Created
<1>6. TypeOK'
  BY <1>1, TypeStep DEF TypeOK, Views
<1> QED
  BY <1>1, <1>4, <1>5, <1>6, AloneGoesOn DEF PageInv

LEMMA LoadEnds ==
  ASSUME PageInv, NEW c \in Calls, Loads(c), NEW answered \in BOOLEAN, EndLoad(c, answered),
         currentSessionId' \in Sessions \/ (~answered /\ UNCHANGED currentSessionId), ListPart',
         allTraceSteps' \in Sessions \union {NoSession, NotAList},
         buttons' \in BOOLEAN, view' \in Views, UNCHANGED serverVars,
         work = "alone" /\ answered => AnsweredPageIsCurrent'
  PROVE  PageInv'
<1>1. TypeOK /\ ServerType' /\ Busy(c)
  BY DEF PageInv, TypeOK, ServerType, serverVars, Loads
<1>2. /\ calls' \in [Calls -> Records] /\ Elsewhere(c) /\ calls'[c] = Idle
      /\ work' \in {"none", "alone", "overlapping", "answered"}
  BY <1>1, EndsFacts DEF EndLoad, TypeOK
<1>3. LoadPart(c)' /\ \A d \in Calls \ {c} : ~Loads(d)
  BY <1>2 DEF LoadPart, Loads, Busy, Idle, PageInv, LoadInv
<1>4. LoadInv'
  BY <1>2, <1>3, ThisLoad
<1>5. AloneInv' /\ AnsweredPageIsCurrent'
  BY <1>1, AloneEnds DEF EndLoad
<1>6. TypeOK'
  <2>1. currentSessionId' \in Sessions \union {NoSession} /\ loadInFlight' = FALSE /\ ~Busy(c)'
    BY <1>1, <1>2 DEF TypeOK, EndLoad, Busy, Idle
  <2> QED
    BY <1>1, <1>2, <2>1, TypeStep DEF Views
<1> QED
  BY <1>4, <1>5, <1>6 DEF PageInv

LEMMA CommandEnds ==
  ASSUME PageInv, NEW c \in Calls, Busy(c), ~Loads(c), NEW answered \in BOOLEAN,
         Ends(c, answered),
         buttons' \in BOOLEAN, view' \in Views,
         UNCHANGED <<serverVars, currentSessionId, loadInFlight, allTraceSteps>>,
         work = "alone" /\ answered => currentSessionId \in Sessions /\ AnsweredPageIsCurrent'
  PROVE  PageInv'
<1>1. TypeOK /\ ServerType'
  BY DEF PageInv, TypeOK, ServerType, serverVars
<1>2. /\ calls' \in [Calls -> Records] /\ Elsewhere(c) /\ calls'[c] = Idle
      /\ work' \in {"none", "alone", "overlapping", "answered"}
  BY <1>1, EndsFacts DEF TypeOK
<1>3. LoadInv'
  BY <1>2, OtherLoads DEF Loads, Busy, Idle, GoneStays, serverVars
<1>4. AloneInv' /\ AnsweredPageIsCurrent'
  BY <1>1, AloneEnds
<1>5. TypeOK'
  BY <1>1, <1>2, TypeStep DEF TypeOK, Views, Busy, Idle
<1> QED
  BY <1>3, <1>4, <1>5 DEF PageInv

(* processState shows the current session as the answer describes it.      *)
LEMMA Processed ==
  ASSUME TypeOK, NEW s \in Sessions, NEW state \in Server!Statuses, NEW p \in Nat, NEW list,
         NEW command \in BOOLEAN, ProcessState(s, state, p, list, command), UNCHANGED serverVars
  PROVE  /\ view' \in Views /\ buttons' \in BOOLEAN
         /\ /\ s = currentSessionId' /\ (list = NotAList => status[s] = "gone")
            /\ \/ status[s] = "gone" \/ state = "loading"
               \/ state = status[s] /\ (state = "paused" => p = position[s])
            => AnsweredPageIsCurrent'
<1>1. view' \in Views /\ buttons' \in BOOLEAN
  <2>1. ASSUME NEW shown \in Server!Statuses \union Messages, NEW q \in Nat, Displays(s, shown, q)
        PROVE  view' \in Views
    BY <2>1 DEF Displays, Views
  <2>2. "failed" \in Messages /\ "load failed" \in Messages
    BY DEF Messages
  <2> QED
    BY <2>1, <2>2 DEF ProcessState
<1>2. ASSUME s = currentSessionId', status[s] # "gone", list # NotAList,
             state = "loading" \/ (state = status[s] /\ (state = "paused" => p = position[s]))
      PROVE  AnsweredPageIsCurrent'
  <2>1. /\ view' = [session |-> s, state |-> state, position |-> IF state = "paused" THEN p ELSE 0]
        /\ buttons' = (state = "paused")
    BY <1>2 DEF ProcessState, Displays
  <2>2. /\ view'.session = s /\ view'.state = state
        /\ state = "paused" => view'.position = p
    BY <2>1
  <2> QED
    BY <1>2, <2>1, <2>2 DEF AnsweredPageIsCurrent, serverVars
<1>3. status[s] = "gone" /\ s = currentSessionId' => AnsweredPageIsCurrent'
  BY DEF AnsweredPageIsCurrent, serverVars
<1> QED
  BY <1>1, <1>2, <1>3

LEMMA ReceiveStep == ASSUME PageInv, NEW c \in Calls, Receive(c) PROVE PageInv'
<1> DEFINE a == calls[c]
<1>1. /\ TypeOK /\ a.at = "answered" /\ Busy(c) /\ UNCHANGED serverVars /\ LoadPart(c)
      /\ a.session \in Sessions \union {NoSession} /\ a.state \in Server!Statuses
      /\ a.position \in Nat /\ a.list \in Sessions \union {NoSession, NotAList}
      /\ Created(c) => a.session \in Sessions /\ a.session # NoSession
      /\ work = "alone" => AlonePart(c)
      /\ NoSession # NotAList
  BY CallFacts, FrontendAssumption DEF PageInv, Receive, Busy, LoadInv, AloneInv
<1>2. ListPart /\ allTraceSteps \in Sessions \union {NoSession, NotAList}
  BY <1>1 DEF TypeOK, PageInv, LoadInv
<1>3. CASE ReceiveCreated(c)
  <2>1. Loads(c)
    BY <1>1, <1>3 DEF ReceiveCreated, Loads
  <2>2. CASE a.session = NoSession
    <3>1. /\ EndLoad(c, FALSE) /\ Says("load failed") /\ UNCHANGED <<currentSessionId, allTraceSteps, buttons>>
      BY <1>3, <2>2 DEF ReceiveCreated
    <3>2. view' \in Views /\ ListPart' /\ buttons' \in BOOLEAN
      BY <1>1, <1>2, <3>1, SayFacts DEF Messages, ListPart, ListBelongs, serverVars, TypeOK
    <3> QED
      BY <1>1, <1>2, <2>1, <3>1, <3>2, LoadEnds
  <2>3. CASE a.session # NoSession
    <3>1. /\ currentSessionId' = a.session /\ allTraceSteps' = a.list
          /\ ProcessState(a.session, a.state, a.position, a.list, FALSE)
          /\ a.session \in Sessions
      BY <1>1, <1>3, <2>3 DEF ReceiveCreated
    <3>2. a.list \in {NoSession, NotAList, a.session} /\ (a.list = NotAList => status[a.session] = "gone")
      BY <1>1, <2>1 DEF LoadPart
    <3>3. ListPart'
      BY <1>1, <3>1, <3>2 DEF ListPart, ListBelongs, serverVars
    <3>4. view' \in Views /\ buttons' \in BOOLEAN
      BY <1>1, <3>1, Processed
    <3>5. CASE a.state = "loading"
      <4>1. calls' = [calls EXCEPT ![c].at = "waiting"] /\ UNCHANGED <<loadInFlight, work>>
        BY <1>3, <2>3, <3>5 DEF ReceiveCreated
      <4>2. calls'[c].request \in {"create", "get"}
        BY <1>1, <1>3, <4>1, WaitFacts DEF ReceiveCreated
      <4>3. calls'[c].request # "trace_steps"
        BY <4>2
      <4> QED
        BY <1>1, <2>1, <3>1, <3>3, <3>4, <4>1, <4>2, <4>3, WaitFacts, LoadGoesOn
    <3>6. CASE a.state # "loading"
      <4>1. EndLoad(c, TRUE)
        BY <1>3, <2>3, <3>6 DEF ReceiveCreated
      <4>2. ASSUME work = "alone" PROVE AnsweredPageIsCurrent'
        <5>1. Holds(c)
          BY <1>1, <2>3, <4>2 DEF AlonePart
        <5> QED
          BY <1>1, <3>1, <3>2, <5>1, Processed DEF Holds
      <4> QED
        BY <1>1, <2>1, <3>1, <3>3, <3>4, <4>1, <4>2, LoadEnds
    <3> QED
      BY <3>5, <3>6
  <2> QED
    BY <2>2, <2>3
<1>4. CASE ReceivePolled(c)
  <2>1. /\ Loads(c) /\ Created(c) /\ a.request = "get"
        /\ UNCHANGED <<currentSessionId, allTraceSteps>>
    BY <1>1, <1>4 DEF ReceivePolled, Loads, Created
  <2>2. a.session \in Sessions /\ a.session # NoSession /\ a.session = currentSessionId
    BY <1>1, <2>1 DEF LoadPart
  <2>3. allTraceSteps = NotAList => status[a.session] = "gone"
    BY <1>1, <1>2, <2>1, <2>2 DEF ListPart, ListBelongs, serverVars
  <2>4. ListPart'
    BY <1>1, <1>2, <2>1 DEF ListPart, ListBelongs, serverVars
  <2>5. ASSUME UNCHANGED <<buttons, view>> PROVE view' \in Views /\ buttons' \in BOOLEAN
    BY <1>1, <2>5 DEF TypeOK, Views
  <2>6. CASE /\ calls' = [calls EXCEPT ![c].at = "waiting"]
             /\ UNCHANGED <<loadInFlight, buttons, view, work>>
    <3>1. calls'[c].request = "get" /\ calls'[c].request # "trace_steps"
      BY <1>1, <2>1, <2>6, WaitFacts
    <3> QED
      BY <1>1, <1>2, <2>1, <2>2, <2>4, <2>5, <2>6, <3>1, WaitFacts, LoadGoesOn
  <2>7. CASE /\ a.state = "paused" /\ Send(c, "trace_steps", a.session)
             /\ UNCHANGED <<loadInFlight, buttons, view, work>>
    <3>1. /\ calls' \in [Calls -> Records] /\ Elsewhere(c)
          /\ calls'[c].at = "sent" /\ calls'[c].request = "trace_steps"
          /\ calls'[c].session = a.session /\ calls'[c].list = a.list
          /\ calls'[c].state = "paused" /\ calls'[c].position = a.position
      BY <1>1, <2>7, SendFacts DEF Requests
    <3>2. ASSUME work = "alone" PROVE Holds(c)'
      BY <1>1, <2>2, <2>7, <3>1, <3>2 DEF AlonePart, Holds, serverVars
    <3> QED
      BY <1>1, <1>2, <2>1, <2>2, <2>4, <2>5, <2>7, <3>1, <3>2, LoadGoesOn
  <2>8. CASE EndLoad(c, FALSE) /\ UNCHANGED <<buttons, view>>
    BY <1>1, <1>2, <2>1, <2>4, <2>5, <2>8, LoadEnds
  <2>9. CASE EndLoad(c, TRUE) /\ ProcessState(a.session, a.state, a.position, allTraceSteps, FALSE)
    <3>1. view' \in Views /\ buttons' \in BOOLEAN
      BY <1>1, <2>2, <2>9, Processed
    <3>2. ASSUME work = "alone" PROVE AnsweredPageIsCurrent'
      <4>1. Holds(c)
        BY <1>1, <2>2, <3>2 DEF AlonePart
      <4> QED
        BY <1>1, <2>1, <2>2, <2>3, <2>4, <2>9, <4>1, Processed DEF Holds
    <3> QED
      BY <1>1, <1>2, <2>1, <2>2, <2>4, <2>9, <3>1, <3>2, LoadEnds
  <2> QED
    BY <1>4, <2>6, <2>7, <2>8, <2>9 DEF ReceivePolled
<1>5. CASE ReceiveSteps(c)
  <2>1. /\ Loads(c) /\ Created(c) /\ a.request = "trace_steps" /\ EndLoad(c, TRUE)
        /\ allTraceSteps' = a.list /\ UNCHANGED currentSessionId
        /\ ProcessState(a.session, a.state, a.position, a.list, FALSE)
    BY <1>1, <1>5 DEF ReceiveSteps, Loads, Created
  <2>2. /\ a.session \in Sessions /\ a.session = currentSessionId /\ a.session # NoSession
        /\ a.list \in {NoSession, NotAList, a.session}
        /\ a.list = NotAList => status[a.session] = "gone"
    BY <1>1, <2>1 DEF LoadPart
  <2>3. ListPart'
    BY <1>1, <2>1, <2>2 DEF ListPart, ListBelongs, serverVars
  <2>4. view' \in Views /\ buttons' \in BOOLEAN
    BY <1>1, <2>1, <2>2, Processed
  <2>5. ASSUME work = "alone" PROVE AnsweredPageIsCurrent'
    <3>1. Holds(c)
      BY <1>1, <2>1, <2>2, <2>5 DEF AlonePart
    <3> QED
      BY <1>1, <2>1, <2>2, <3>1, Processed DEF Holds
  <2> QED
    BY <1>1, <2>1, <2>2, <2>3, <2>4, <2>5, LoadEnds
<1>6. CASE ReceiveCommand(c)
  <2>1. /\ a.request \in {"step", "continue"} /\ ~Loads(c) /\ Created(c) /\ a.session \in Sessions
        /\ Ends(c, a.state # "gone") /\ UNCHANGED <<currentSessionId, loadInFlight, allTraceSteps>>
    BY <1>1, <1>6 DEF ReceiveCommand, Loads, Created
  <2>2. CASE a.state = "gone"
    <3>1. Ends(c, FALSE) /\ Displays(a.session, "failed", 0) /\ buttons' = TRUE
      BY <1>6, <2>1, <2>2 DEF ReceiveCommand
    <3>2. view' \in Views
      BY <2>1, <3>1 DEF Displays, Views, Messages
    <3> QED
      BY <1>1, <2>1, <3>1, <3>2, CommandEnds
  <2>3. CASE a.state # "gone"
    <3>1. Ends(c, TRUE) /\ ProcessState(a.session, a.state, a.position, allTraceSteps, TRUE)
      BY <1>6, <2>1, <2>3 DEF ReceiveCommand
    <3>2. view' \in Views /\ buttons' \in BOOLEAN
      BY <1>1, <2>1, <3>1, Processed
    <3>3. ASSUME work = "alone" PROVE a.session = currentSessionId /\ AnsweredPageIsCurrent'
      <4>1. Holds(c) /\ a.session = currentSessionId
        BY <1>1, <2>1, <3>3 DEF AlonePart
      <4>2. allTraceSteps = NotAList => status[a.session] = "gone"
        BY <1>2, <4>1 DEF ListPart
      <4> QED
        BY <1>1, <2>1, <3>1, <4>1, <4>2, Processed DEF Holds
    <3> QED
      BY <1>1, <2>1, <3>1, <3>2, <3>3, CommandEnds
  <2> QED
    BY <2>2, <2>3
<1>7. CASE ReceiveAborted(c)
  <2>1. /\ a.request = "abort" /\ ~Loads(c) /\ Created(c) /\ a.session \in Sessions
        /\ Ends(c, a.state # "gone") /\ Displays(a.session, "aborted", 0)
        /\ UNCHANGED <<currentSessionId, loadInFlight, allTraceSteps, buttons>>
    BY <1>1, <1>7 DEF ReceiveAborted, Loads, Created
  <2>2. view' \in Views /\ buttons' \in BOOLEAN
    BY <1>1, <2>1 DEF Displays, Views, Server!Statuses, TypeOK
  <2>3. ASSUME work = "alone" PROVE currentSessionId \in Sessions /\ AnsweredPageIsCurrent'
    <3>1. a.session = currentSessionId /\ ~buttons /\ status[a.session] \in {"aborted", "gone"}
      BY <1>1, <2>1, <2>3 DEF AlonePart
    <3> QED
      BY <1>1, <2>1, <3>1 DEF AnsweredPageIsCurrent, Displays, serverVars
  <2> QED
    BY <1>1, <2>1, <2>2, <2>3, CommandEnds
<1> QED
  BY <1>3, <1>4, <1>5, <1>6, <1>7 DEF Receive

LEMMA PollStep == ASSUME PageInv, NEW c \in Calls, Poll(c) PROVE PageInv'
<1>1. /\ TypeOK /\ LoadPart(c) /\ ListPart /\ calls[c].at = "waiting"
      /\ UNCHANGED <<serverVars, pageVars, work>>
  BY DEF PageInv, Poll, LoadInv
<1>2. /\ Loads(c) /\ Created(c) /\ calls[c].session \in Sessions
      /\ calls[c].session = currentSessionId
  <2>1. Busy(c) /\ Created(c) /\ Loads(c)
    BY <1>1 DEF LoadPart, Loads, Busy, Created
  <2> QED
    BY <1>1, <2>1, CallFacts DEF LoadPart
<1>3. /\ calls' \in [Calls -> Records] /\ Elsewhere(c)
      /\ calls'[c].at = "sent" /\ calls'[c].request = "get"
      /\ calls'[c].session = calls[c].session /\ calls'[c].list = calls[c].list
  BY <1>1, <1>2, SendFacts DEF Poll, Requests
<1>4. /\ ListPart' /\ buttons' \in BOOLEAN /\ view' \in Views
      /\ allTraceSteps' \in Sessions \union {NoSession, NotAList}
  BY <1>1 DEF ListPart, ListBelongs, TypeOK, Views, serverVars, pageVars
<1> QED
  BY <1>1, <1>2, <1>3, <1>4, LoadGoesOn DEF pageVars

LEMMA LoseStep == ASSUME PageInv, NEW c \in Calls, Lose(c) PROVE PageInv'
<1>1. /\ TypeOK /\ Busy(c) /\ ListPart /\ UNCHANGED <<serverVars, currentSessionId, allTraceSteps>>
      /\ Created(c) => calls[c].session \in Sessions
  BY CallFacts DEF PageInv, Lose, Busy, LoadInv
<1>2. ListPart' /\ allTraceSteps' \in Sessions \union {NoSession, NotAList}
  BY <1>1 DEF ListPart, ListBelongs, serverVars, TypeOK
<1>3. CASE calls[c].request \in {"create", "get", "trace_steps"} /\ FailLoad(c)
  <2>1. EndLoad(c, FALSE) /\ view' \in Views /\ buttons' \in BOOLEAN /\ Loads(c)
    BY <1>1, <1>3, SayFacts DEF FailLoad, Messages, TypeOK, Loads
  <2> QED
    BY <1>1, <1>2, <2>1, LoadEnds
<1>4. CASE /\ calls[c].request \in {"step", "continue", "abort"}
           /\ Ends(c, FALSE) /\ buttons' \in BOOLEAN /\ UNCHANGED loadInFlight
           /\ Displays(calls[c].session, "failed", 0) \/ Displays(calls[c].session, "aborted", 0)
  <2>1. calls[c].session \in Sessions /\ ~Loads(c)
    BY <1>1, <1>4 DEF Loads, Created
  <2>2. "failed" \in Messages /\ "aborted" \in Server!Statuses
    BY DEF Messages, Server!Statuses
  <2>3. view' \in Views
    BY <1>4, <2>1, <2>2 DEF Displays, Views
  <2> QED
    BY <1>1, <1>4, <2>1, <2>3, CommandEnds
<1> QED
  BY <1>1, <1>3, <1>4 DEF Lose, TypeOK

-----------------------------------------------------------------------------
(* What the server does of itself, while nothing on the page moves.        *)
LEMMA OfItself ==
  ASSUME PageInv, ServerType', UNCHANGED <<pageVars, calls, work>>,
         NEW S \in SUBSET Sessions,
         \A s \in S : status[s] # "gone" /\ (status[s] = "loading" \/ status'[s] = "gone"),
         \A s \in Sessions \ S : status'[s] = status[s] /\ (status[s] = "paused" => position'[s] = position[s])
  PROVE  PageInv'
<1>1. TypeOK'
  BY DEF PageInv, TypeOK, ServerType, pageVars
<1>2. \A s \in Sessions : status[s] = "gone" => status'[s] = "gone"
  OBVIOUS
<1>3. LoadInv'
  <2>1. ListPart'
    BY <1>2 DEF PageInv, LoadInv, ListPart, ListBelongs, pageVars
  <2>2. \A c \in Calls : LoadPart(c)' /\ (Loads(c)' <=> Loads(c))
    BY <1>2 DEF PageInv, LoadInv, LoadPart, Loads, Busy, Created, pageVars
  <2> QED
    BY <2>1, <2>2 DEF PageInv, LoadInv
<1>4. AloneInv'
  <2>1. ASSUME work = "alone", NEW c \in Calls, Busy(c) PROVE AlonePart(c)'
    <3>1. AlonePart(c) /\ calls[c].session \in Sessions \union {NoSession}
      BY <2>1, CallFacts DEF PageInv, AloneInv
    <3>2. ASSUME calls[c].session \in Sessions, Holds(c) PROVE Holds(c)'
      BY <1>2, <3>2 DEF Holds
    <3>3. calls[c].request = "abort" /\ calls[c].at = "answered" => calls[c].session \in Sessions
      BY <2>1, CallFacts DEF PageInv, Created
    <3> QED
      BY <1>2, <2>1, <3>1, <3>2, <3>3 DEF AlonePart, Busy, Created, pageVars
  <2>2. \A c \in Calls : Busy(c)' <=> Busy(c)
    BY DEF Busy
  <2> QED
    BY <2>1, <2>2 DEF PageInv, AloneInv, AlonePart, pageVars
<1>5. AnsweredPageIsCurrent'
  BY <1>2 DEF PageInv, AloneInv, AnsweredPageIsCurrent, pageVars
<1> QED
  BY <1>1, <1>3, <1>4, <1>5 DEF PageInv

LEMMA SettlesStep == ASSUME PageInv, NEW s \in Sessions, Settles(s) PROVE PageInv'
<1>1. TypeOK /\ (Server!Load(s) \/ Server!Fail(s))
  BY DEF PageInv, Settles
<1>2. status[s] = "loading" /\ UNCHANGED <<pageVars, calls, work>>
  BY DEF Settles, Server!Load, Server!Fail
<1>3. /\ ServerType'
      /\ \A r \in Sessions \ {s} : status'[r] = status[r] /\ position'[r] = position[r]
  BY <1>1, ServerSteps
<1>4. /\ {s} \in SUBSET Sessions
      /\ \A r \in {s} : status[r] # "gone" /\ (status[r] = "loading" \/ status'[r] = "gone")
  BY <1>2
<1> QED
  BY <1>2, <1>3, <1>4, OfItself

LEMMA CollectsStep == ASSUME PageInv, NEW s \in Sessions, Collects(s) PROVE PageInv'
<1>1. /\ status[s] \notin {"absent", "gone"} /\ UNCHANGED <<pageVars, calls, work>>
      /\ status' = [status EXCEPT ![s] = "gone"] /\ position' = [position EXCEPT ![s] = 0]
      /\ length' = [length EXCEPT ![s] = 0] /\ ending' = [ending EXCEPT ![s] = "aborted"]
  BY DEF Collects, Server!Collect
<1>2. /\ status \in [Sessions -> Server!Statuses] /\ position \in [Sessions -> Nat]
      /\ length \in [Sessions -> Nat] /\ ending \in [Sessions -> Server!Endings]
  BY DEF PageInv, TypeOK
<1>3. ServerType'
  BY <1>1, <1>2 DEF ServerType, Server!Statuses, Server!Endings
<1>4. /\ {s} \in SUBSET Sessions
      /\ \A r \in {s} : status[r] # "gone" /\ (status[r] = "loading" \/ status'[r] = "gone")
      /\ \A r \in Sessions \ {s} : status'[r] = status[r] /\ position'[r] = position[r]
  BY <1>1, <1>2
<1> QED
  BY <1>1, <1>3, <1>4, OfItself

LEMMA VanishStep == ASSUME PageInv, Vanish PROVE PageInv'
<1> DEFINE S == {s \in Sessions : status[s] # "gone" /\ status'[s] = "gone"}
<1>1. /\ ServerType' /\ UNCHANGED <<pageVars, calls, work>>
      /\ \A s \in Sessions : status'[s] = "gone" \/ (status[s] = "absent" /\ status'[s] = "absent")
  BY ServerGone DEF PageInv, Vanish
<1>2. \A s \in Sessions \ S :
        status'[s] = status[s] /\ (status[s] = "paused" => position'[s] = position[s])
  BY <1>1
<1>3. /\ S \in SUBSET Sessions
      /\ \A s \in S : status[s] # "gone" /\ (status[s] = "loading" \/ status'[s] = "gone")
  OBVIOUS
<1> HIDE DEF S
<1> QED
  BY <1>1, <1>2, <1>3, OfItself

LEMMA PageStutter == ASSUME PageInv, UNCHANGED vars PROVE PageInv'
<1>1. /\ status' = status /\ position' = position /\ length' = length /\ ending' = ending
      /\ UNCHANGED <<pageVars, calls, work>>
  BY DEF vars, serverVars
<1>2. ServerType'
  BY <1>1 DEF PageInv, TypeOK, ServerType
<1>3. /\ {} \in SUBSET Sessions
      /\ \A s \in Sessions \ {} : status'[s] = status[s] /\ position'[s] = position[s]
  BY <1>1
<1> QED
  BY <1>1, <1>2, <1>3, OfItself

LEMMA PageAlways == SafeSpec => []PageInv
<1>1. ASSUME PageInv, [Next]_vars PROVE PageInv'
  BY <1>1, PageStutter, LoadTxStep, BeginSteps, ServeStep, ReceiveStep, PollStep, LoseStep,
     SettlesStep, CollectsStep, VanishStep
  DEF Next
<1> QED
  BY <1>1, PageInit, PTL DEF SafeSpec

-----------------------------------------------------------------------------
(* The page, its calls and the server keep their types, and no request but *)
(* the one for a new session is sent without a session.                    *)
THEOREM TypeCorrect == SafeSpec => []TypeOK
<1>1. PageInv => TypeOK
  BY DEF PageInv
<1> QED
  BY <1>1, PageAlways, PTL

(* However many functions are under way and whatever arrives late, the     *)
(* opcodes listed are those of the session that commands go to             *)
(* (index.html:139, 178).                                                  *)
THEOREM ListIsOfCurrentSession == SafeSpec => []ListBelongs
<1>1. PageInv => ListBelongs
  BY DEF PageInv, LoadInv, ListPart
<1> QED
  BY <1>1, PageAlways, PTL

(* A function that has had the page to itself and was answered leaves it   *)
(* showing what the server holds, with the buttons enabled exactly if a    *)
(* command can move the session (index.html:187, 350).                     *)
THEOREM PageIsCurrent == SafeSpec => []AnsweredPageIsCurrent
<1>1. PageInv => AnsweredPageIsCurrent
  BY DEF PageInv
<1> QED
  BY <1>1, PageAlways, PTL

-----------------------------------------------------------------------------
(* Every step of page and handlers is one of the life cycle, or leaves the *)
(* server alone.                                                           *)
LEMMA ServerNext ==
  ASSUME PageInv, [Next]_vars
  PROVE  [Server!Next]_(Server!vars)
<1>1. ASSUME NEW c \in Calls, Serve(c)
      PROVE  Server!Next \/ UNCHANGED Server!vars
  <2> DEFINE s == calls[c].session
  <2>1. calls[c].request # "create" => s \in Sessions
    BY <1>1, CallFacts DEF PageInv, Serve, Created, Busy
  <2>2. CASE ServeCreate(c)
    BY <2>2 DEF ServeCreate, Server!Next, serverVars, Server!vars
  <2>3. CASE ServeCommand(c, s)
    <3>1. s \in Sessions /\ (Server!Move(s) \/ UNCHANGED serverVars)
      BY <2>1, <2>3 DEF ServeCommand
    <3> QED
      BY <3>1 DEF Server!Next, serverVars, Server!vars
  <2>4. CASE ServeAbort(c, s)
    <3>1. s \in Sessions /\ (Server!Abort(s) \/ UNCHANGED serverVars)
      BY <2>1, <2>4 DEF ServeAbort
    <3> QED
      BY <3>1 DEF Server!Next, serverVars, Server!vars
  <2>5. CASE ServeGet(c, s) \/ ServeSteps(c, s)
    BY <2>5 DEF ServeGet, ServeSteps, serverVars, Server!vars
  <2> QED
    BY <1>1, <2>2, <2>3, <2>4, <2>5 DEF Serve
<1>2. ASSUME NEW c \in Calls,
             \/ LoadTx(c) \/ Step(c) \/ ContinueExec(c) \/ AbortSession(c)
             \/ Receive(c) \/ Poll(c) \/ Lose(c)
      PROVE  UNCHANGED Server!vars
  BY <1>2 DEF LoadTx, Step, ContinueExec, AbortSession, Receive, Poll, Lose, serverVars,
              Server!vars
<1>3. ASSUME NEW s \in Sessions, Settles(s) \/ Collects(s)
      PROVE  Server!Next
  BY <1>3 DEF Settles, Collects, Server!Next
<1>4. CASE Vanish
  BY <1>4 DEF Vanish, Server!Next
<1>5. CASE UNCHANGED vars
  BY <1>5 DEF vars, serverVars, Server!vars
<1> QED
  BY <1>1, <1>2, <1>3, <1>4, <1>5 DEF Next

(* What the life cycle allows in a step.                                   *)
LEMMA ServerOnwards ==
  ASSUME TypeOK, [Server!Next]_(Server!vars), NEW s \in Sessions
  PROVE  Server!Onwards(s)
<1>1. /\ status \in [Sessions -> Server!Statuses]
      /\ position \in [Sessions -> Nat] /\ length \in [Sessions -> Nat]
      /\ ending \in [Sessions -> Server!Endings]
  BY DEF TypeOK
<1>2. ASSUME NEW r \in Sessions, Server!Open(r) \/ Server!Fail(r)
      PROVE  Server!Onwards(s)
  BY <1>1, <1>2 DEF Server!Open, Server!Fail, Server!Onwards
<1>3. ASSUME NEW r \in Sessions, Server!OpenSettled(r) \/ Server!Load(r)
      PROVE  Server!Onwards(s)
  <2>1. PICK n \in Lengths, e \in Server!Endings : Server!Settle(r, n, e)
    BY <1>3 DEF Server!OpenSettled, Server!Load
  <2>2. /\ status[r] \in {"absent", "loading"}
        /\ Server!Reported(0, n, e) \in {"paused", "finished", "aborted"}
    BY <1>3 DEF Server!OpenSettled, Server!Load, Server!Reported, Server!Endings
  <2> QED
    BY <1>1, <2>1, <2>2 DEF Server!Settle, Server!Onwards
<1>4. ASSUME NEW r \in Sessions, Server!Move(r)
      PROVE  Server!Onwards(s)
  <2>1. PICK p \in position[r] + 1 .. length[r] :
          /\ position' = [position EXCEPT ![r] = p]
          /\ status' = [status EXCEPT ![r] = Server!Reported(p, length[r], ending[r])]
    BY <1>4 DEF Server!Move
  <2>2. /\ status[r] = "paused" /\ length' = length /\ ending' = ending
        /\ Server!Reported(p, length[r], ending[r]) \in {"paused", "finished", "aborted"}
    BY <1>1, <1>4 DEF Server!Move, Server!Reported, Server!Endings
  <2>3. CASE s = r
    BY <1>1, <2>1, <2>2, <2>3 DEF Server!Onwards
  <2>4. CASE s # r
    BY <1>1, <2>1, <2>2, <2>4 DEF Server!Onwards
  <2> QED
    BY <2>3, <2>4
<1>5. ASSUME NEW r \in Sessions, Server!Abort(r) \/ Server!Collect(r)
      PROVE  Server!Onwards(s)
  BY <1>1, <1>5 DEF Server!Abort, Server!Collect, Server!Onwards
<1>6. CASE Server!Restart
  BY <1>6 DEF Server!Restart, Server!Onwards
<1>7. CASE UNCHANGED Server!vars
  BY <1>1, <1>7 DEF Server!vars, Server!Onwards
<1> QED
  BY <1>2, <1>3, <1>4, <1>5, <1>6, <1>7 DEF Server!Next

-----------------------------------------------------------------------------
(* What a call has been told of its session the session has been, and a    *)
(* list is only fetched for a session that was paused.                     *)
Lag(c) ==
  Busy(c) /\ calls[c].session # NoSession =>
    /\ status[calls[c].session] # "absent"
    /\ calls[c].request = "trace_steps" => calls[c].state = "paused"
    /\ calls[c].at = "answered" \/ calls[c].request = "trace_steps" =>
         /\ calls[c].state # "absent"
         /\ HasBeen(calls[c].session, calls[c].state, calls[c].position)

LagInv ==
  /\ currentSessionId # NoSession => status[currentSessionId] # "absent"
  /\ DisplayNeverAhead
  /\ \A c \in Calls : Lag(c)

AllOnwards == \A s \in Sessions : Server!Onwards(s)

LEMMA StepOnwards == ASSUME PageInv, [Next]_vars PROVE AllOnwards
BY ServerNext, ServerOnwards DEF PageInv, AllOnwards

(* What a session has been, it has been for good.                          *)
LEMMA HasBeenStays ==
  ASSUME TypeOK, ServerType', NEW s \in Sessions, Server!Onwards(s),
         NEW state, NEW p \in Nat, HasBeen(s, state, p)
  PROVE  HasBeen(s, state, p)'
<1>1. /\ status[s] \in Server!Statuses /\ status'[s] \in Server!Statuses
      /\ position[s] \in Nat /\ position'[s] \in Nat
  BY DEF TypeOK, ServerType
<1>2. /\ status'[s] = "absent" => status[s] = "absent"
      /\ status[s] = "paused" => status'[s] \in {"paused", "finished", "aborted", "gone"}
      /\ status[s] = "paused" /\ status'[s] = "paused" => position'[s] >= position[s]
  BY <1>1 DEF Server!Onwards, Server!Statuses
<1>3. /\ status[s] = "finished" => status'[s] \in {"finished", "aborted", "gone"}
      /\ status[s] = "error" => status'[s] \in {"error", "aborted", "gone"}
      /\ status[s] = "aborted" => status'[s] \in {"aborted", "gone"}
      /\ status[s] = "gone" => status'[s] = "gone"
  BY DEF Server!Onwards
<1>4. state = "paused" /\ status'[s] = "paused" => p <= position'[s]
  BY <1>1, <1>2, <1>3 DEF HasBeen
<1> QED
  BY <1>2, <1>3, <1>4 DEF HasBeen

LEMMA HasBeenSame ==
  ASSUME UNCHANGED serverVars, NEW s, NEW state, NEW p, HasBeen(s, state, p)
  PROVE  HasBeen(s, state, p)'
BY DEF HasBeen, serverVars

LEMMA ViewFacts ==
  ASSUME TypeOK
  PROVE  /\ view.session \in Sessions \union {NoSession} /\ view.position \in Nat
         /\ view.state \in Server!Statuses \union Messages
BY DEF TypeOK

(* The page shows what it did, or a message.                               *)
LEMMA DisplayStays ==
  ASSUME TypeOK, ServerType', AllOnwards, DisplayNeverAhead, UNCHANGED view
  PROVE  DisplayNeverAhead'
<1>1. ASSUME NEW s \in Sessions, NEW state, NEW p \in Nat, HasBeen(s, state, p)
      PROVE  HasBeen(s, state, p)'
  BY <1>1, HasBeenStays DEF AllOnwards
<1> QED
  BY <1>1, ViewFacts DEF DisplayNeverAhead, HasBeen

LEMMA DisplaySays ==
  ASSUME TypeOK, ServerType', AllOnwards, LagInv, NEW message \in Messages \union {"loading"},
         Says(message)
  PROVE  DisplayNeverAhead'
<1>1. /\ view'.session = currentSessionId /\ view'.state = message
      /\ message \notin {"paused", "finished", "error", "aborted", "gone"}
  BY DEF Says, Displays, Messages
<1>2. view'.session # NoSession => status'[view'.session] # "absent"
  BY <1>1 DEF LagInv, TypeOK, AllOnwards, Server!Onwards
<1> QED
  BY <1>1, <1>2 DEF DisplayNeverAhead, HasBeen

LEMMA DisplayProcessed ==
  ASSUME UNCHANGED serverVars, NEW s, NEW state, NEW p, HasBeen(s, state, p),
         NEW list, NEW command \in BOOLEAN, ProcessState(s, state, p, list, command)
  PROVE  DisplayNeverAhead'
<1>1. ASSUME NEW message \in {"failed", "load failed"}, Displays(s, message, 0)
      PROVE  DisplayNeverAhead'
  BY <1>1 DEF Displays, DisplayNeverAhead, HasBeen
<1>2. ASSUME Displays(s, state, IF state = "paused" THEN p ELSE 0)
      PROVE  DisplayNeverAhead'
  <2>1. /\ view'.session = s /\ view'.state = state
        /\ state = "paused" => view'.position = p
    BY <1>2 DEF Displays
  <2> QED
    BY <2>1 DEF DisplayNeverAhead, HasBeen, serverVars
<1> QED
  BY <1>1, <1>2 DEF ProcessState

(* The other calls know what they knew.                                    *)
LEMMA LagStays ==
  ASSUME TypeOK, ServerType', AllOnwards, NEW c \in Calls, Lag(c), UNCHANGED calls[c]
  PROVE  Lag(c)'
<1>1. calls[c].session \in Sessions \union {NoSession} /\ calls[c].position \in Nat
  BY CallFacts
<1>2. ASSUME NEW s \in Sessions, NEW state, NEW p \in Nat, HasBeen(s, state, p)
      PROVE  HasBeen(s, state, p)'
  BY <1>2, HasBeenStays DEF AllOnwards
<1>3. calls[c].session \in Sessions /\ status'[calls[c].session] = "absent"
        => status[calls[c].session] = "absent"
  BY DEF AllOnwards, Server!Onwards
<1> QED
  BY <1>1, <1>2, <1>3 DEF Lag, Busy, HasBeen

(* What is left to show of a step of the function c.                       *)
LEMMA LagKept ==
  ASSUME PageInv, ServerType', AllOnwards, LagInv, NEW c \in Calls, Elsewhere(c),
         \/ UNCHANGED currentSessionId
         \/ currentSessionId' \in Sessions /\ status'[currentSessionId'] # "absent",
         UNCHANGED view \/ DisplayNeverAhead', Lag(c)'
  PROVE  LagInv'
<1>1. TypeOK
  BY DEF PageInv
<1>2. currentSessionId' # NoSession => status'[currentSessionId'] # "absent"
  BY <1>1 DEF LagInv, TypeOK, AllOnwards, Server!Onwards
<1>3. DisplayNeverAhead'
  BY <1>1, DisplayStays DEF LagInv
<1>4. ASSUME NEW d \in Calls, d # c PROVE Lag(d)'
  BY <1>1, <1>4, LagStays DEF LagInv, Elsewhere
<1> QED
  BY <1>2, <1>3, <1>4 DEF LagInv

(* c has sent a request, or goes on waiting.                               *)
LEMMA LagSent ==
  ASSUME PageInv, LagInv, NEW c \in Calls, UNCHANGED serverVars,
         calls'[c].at \in {"sent", "waiting"}, calls'[c].request # "trace_steps",
         calls'[c].session \in {NoSession, currentSessionId}
           \/ (Busy(c) /\ calls'[c].session = calls[c].session)
  PROVE  Lag(c)'
BY DEF LagInv, Lag, Busy, serverVars

(* c has been answered.                                                    *)
LEMMA LagAnswered ==
  ASSUME PageInv, NEW c \in Calls, NEW s \in Sessions, ServerType',
         NEW list \in Sessions \union {NoSession, NotAList}, Answer(c, s, list),
         calls[c].request # "trace_steps", status'[s] # "absent"
  PROVE  Lag(c)' /\ Elsewhere(c)
<1>1. /\ Elsewhere(c) /\ calls'[c].at = "answered" /\ calls'[c].request = calls[c].request
      /\ calls'[c].session = s
      /\ calls'[c].state = status'[s] /\ calls'[c].position = position'[s]
  BY AnswerFacts DEF PageInv
<1>2. status'[s] \in Server!Statuses /\ position'[s] \in Nat
  BY DEF ServerType
<1> QED
  BY <1>1, <1>2 DEF Lag, HasBeen, Server!Statuses

LEMMA LagServe ==
  ASSUME PageInv, PageInv', AllOnwards, LagInv, NEW c \in Calls, Serve(c)
  PROVE  LagInv'
<1> DEFINE s == calls[c].session
<1>1. /\ TypeOK /\ ServerType' /\ calls[c].at = "sent" /\ Busy(c) /\ UNCHANGED <<pageVars, work>>
      /\ Created(c) => s \in Sessions /\ s # NoSession
      /\ Lag(c) /\ NoSession # NotAList
  BY CallFacts, FrontendAssumption DEF PageInv, TypeOK, ServerType, Serve, Busy, LagInv
<1>2. Created(c) => status'[s] # "absent"
  BY <1>1 DEF Lag, AllOnwards, Server!Onwards
<1>3. Lag(c)' /\ Elsewhere(c)
  <2>1. CASE ServeCreate(c)
    <3>1. ASSUME NEW r \in Sessions, Server!Open(r) \/ Server!OpenSettled(r)
          PROVE  status'[r] # "absent"
      <4>1. CASE Server!Open(r)
        BY <1>1, <4>1 DEF Server!Open, TypeOK
      <4>2. CASE Server!OpenSettled(r)
        <5>1. PICK n \in Lengths, e \in Server!Endings : Server!Settle(r, n, e)
          BY <4>2 DEF Server!OpenSettled
        <5>2. Server!Reported(0, n, e) # "absent"
          BY DEF Server!Reported, Server!Endings
        <5> QED
          BY <1>1, <5>1, <5>2 DEF Server!Settle, TypeOK
      <4> QED
        BY <3>1, <4>1, <4>2
    <3>2. \A r \in Sessions : Listed(r)' \in Sessions \union {NoSession, NotAList}
      BY DEF Listed
    <3>3. ASSUME calls' = [calls EXCEPT ![c].at = "answered"]
          PROVE  Lag(c)' /\ Elsewhere(c)
      <4>1. calls \in [Calls -> Records] /\ calls[c].session = NoSession
        BY <1>1, <2>1 DEF TypeOK, PageInv, LoadInv, LoadPart, ServeCreate
      <4>2. calls'[c].session = NoSession /\ Elsewhere(c)
        BY <3>3, <4>1 DEF Elsewhere, Records
      <4> QED
        BY <4>2 DEF Lag
    <3> QED
      BY <1>1, <2>1, <3>1, <3>2, <3>3, LagAnswered DEF ServeCreate
  <2>2. CASE ServeCommand(c, s) \/ ServeAbort(c, s) \/ ServeGet(c, s)
    <3>1. Created(c) /\ calls[c].request # "trace_steps" /\ Answer(c, s, NoSession)
      BY <2>2 DEF ServeCommand, ServeAbort, ServeGet, Created
    <3> QED
      BY <1>1, <1>2, <3>1, LagAnswered
  <2>3. CASE ServeSteps(c, s)
    <3>1. calls \in [Calls -> Records] /\ calls[c] \in Records /\ calls[c].request = "trace_steps"
      BY <1>1, <2>3 DEF TypeOK, ServeSteps
    <3>2. /\ Elsewhere(c) /\ calls'[c].request = "trace_steps" /\ calls'[c].session = s
          /\ calls'[c].state = calls[c].state /\ calls'[c].position = calls[c].position
      BY <2>3, <3>1 DEF ServeSteps, Elsewhere, Records
    <3> QED
      BY <1>1, <2>3, <3>1, <3>2 DEF Lag, Busy, HasBeen, ServeSteps, serverVars
  <2> QED
    BY <1>1, <2>1, <2>2, <2>3 DEF Serve
<1> QED
  BY <1>1, <1>3, LagKept DEF pageVars

(* c has ended.                                                            *)
LEMMA LagEnds ==
  ASSUME PageInv, ServerType', AllOnwards, LagInv, NEW c \in Calls,
         NEW answered \in BOOLEAN, Ends(c, answered),
         \/ UNCHANGED currentSessionId
         \/ currentSessionId' \in Sessions /\ status'[currentSessionId'] # "absent",
         UNCHANGED view \/ DisplayNeverAhead'
  PROVE  LagInv'
<1>1. Elsewhere(c) /\ ~Busy(c)'
  BY EndsFacts DEF PageInv, Busy, Idle
<1> QED
  BY <1>1, LagKept DEF Lag

LEMMA LagReceive ==
  ASSUME PageInv, AllOnwards, LagInv, NEW c \in Calls, Receive(c)
  PROVE  LagInv'
<1> DEFINE a == calls[c]
<1>1. /\ TypeOK /\ ServerType' /\ Busy(c) /\ a.at = "answered" /\ UNCHANGED serverVars
      /\ a.session \in Sessions \union {NoSession}
      /\ Created(c) => a.session \in Sessions /\ a.session # NoSession
      /\ NoSession \notin Sessions /\ Lag(c)
  BY CallFacts, FrontendAssumption
  DEF PageInv, TypeOK, ServerType, serverVars, Receive, Busy, LagInv
<1>2. a.session \in Sessions =>
        status'[a.session] # "absent" /\ HasBeen(a.session, a.state, a.position)
  BY <1>1 DEF Lag, serverVars
<1>3. ASSUME NEW list, NEW command \in BOOLEAN, a.session \in Sessions,
             ProcessState(a.session, a.state, a.position, list, command)
      PROVE  DisplayNeverAhead'
  BY <1>1, <1>2, <1>3, DisplayProcessed
<1>4. CASE ReceiveCreated(c)
  <2>1. CASE a.session = NoSession
    <3>1. EndLoad(c, FALSE) /\ Says("load failed") /\ UNCHANGED currentSessionId
      BY <1>1, <1>4, <2>1 DEF ReceiveCreated
    <3>2. DisplayNeverAhead'
      BY <1>1, <3>1, DisplaySays DEF Messages
    <3> QED
      BY <1>1, <3>1, <3>2, LagEnds DEF EndLoad
  <2>2. CASE a.session # NoSession
    <3>1. a.session \in Sessions /\ currentSessionId' = a.session /\ DisplayNeverAhead'
      BY <1>1, <1>3, <1>4, <2>2 DEF ReceiveCreated
    <3>2. CASE EndLoad(c, TRUE)
      BY <1>1, <1>2, <3>1, <3>2, LagEnds DEF EndLoad
    <3>3. CASE calls' = [calls EXCEPT ![c].at = "waiting"]
      <4>1. /\ Elsewhere(c) /\ calls'[c].at = "waiting" /\ calls'[c].request # "trace_steps"
            /\ calls'[c].session = a.session
        BY <1>1, <1>4, <3>3, WaitFacts DEF ReceiveCreated
      <4>2. Lag(c)'
        BY <1>1, <4>1, LagSent
      <4> QED
        BY <1>1, <1>2, <3>1, <4>1, <4>2, LagKept
    <3> QED
      BY <1>4, <2>2, <3>2, <3>3 DEF ReceiveCreated
  <2> QED
    BY <2>1, <2>2
<1>5. CASE ReceivePolled(c)
  <2>1. a.request = "get" /\ a.session \in Sessions /\ UNCHANGED currentSessionId
    BY <1>1, <1>5 DEF ReceivePolled, Created
  <2>2. CASE calls' = [calls EXCEPT ![c].at = "waiting"] /\ UNCHANGED view
    <3>1. /\ Elsewhere(c) /\ calls'[c].at = "waiting" /\ calls'[c].request # "trace_steps"
          /\ calls'[c].session = a.session
      BY <1>1, <2>1, <2>2, WaitFacts
    <3>2. Lag(c)'
      BY <1>1, <3>1, LagSent
    <3> QED
      BY <1>1, <2>1, <2>2, <3>1, <3>2, LagKept
  <2>3. CASE a.state = "paused" /\ Send(c, "trace_steps", a.session) /\ UNCHANGED view
    <3>1. /\ Elsewhere(c) /\ calls'[c].session = a.session
          /\ calls'[c].state = "paused" /\ calls'[c].position = a.position
      BY <1>1, <2>3, SendFacts DEF Requests
    <3>2. Lag(c)'
      BY <1>1, <1>2, <2>1, <2>3, <3>1 DEF Lag, HasBeen, serverVars
    <3> QED
      BY <1>1, <2>1, <2>3, <3>1, <3>2, LagKept
  <2>4. CASE EndLoad(c, FALSE) /\ UNCHANGED view
    BY <1>1, <2>1, <2>4, LagEnds DEF EndLoad
  <2>5. CASE EndLoad(c, TRUE) /\ ProcessState(a.session, a.state, a.position, allTraceSteps, FALSE)
    <3>1. DisplayNeverAhead'
      BY <1>3, <2>1, <2>5
    <3> QED
      BY <1>1, <2>1, <2>5, <3>1, LagEnds DEF EndLoad
  <2> QED
    BY <1>5, <2>2, <2>3, <2>4, <2>5 DEF ReceivePolled
<1>6. CASE ReceiveSteps(c)
  <2>1. /\ a.session \in Sessions /\ UNCHANGED currentSessionId /\ Ends(c, TRUE)
        /\ ProcessState(a.session, a.state, a.position, a.list, FALSE)
    BY <1>1, <1>6 DEF ReceiveSteps, Created, EndLoad
  <2>2. DisplayNeverAhead'
    BY <1>3, <2>1
  <2> QED
    BY <1>1, <2>1, <2>2, LagEnds
<1>7. CASE ReceiveCommand(c)
  <2>1. a.session \in Sessions /\ UNCHANGED currentSessionId /\ Ends(c, a.state # "gone")
    BY <1>1, <1>7 DEF ReceiveCommand, Created
  <2>2. DisplayNeverAhead'
    <3>1. CASE Displays(a.session, "failed", 0)
      BY <3>1 DEF Displays, DisplayNeverAhead, HasBeen
    <3> QED
      BY <1>3, <1>7, <2>1, <3>1 DEF ReceiveCommand
  <2> QED
    BY <1>1, <2>1, <2>2, LagEnds
<1>8. CASE ReceiveAborted(c)
  <2>1. /\ UNCHANGED currentSessionId /\ Ends(c, a.state # "gone")
        /\ Displays(a.session, "aborted", 0)
    BY <1>8 DEF ReceiveAborted
  <2>2. DisplayNeverAhead'
    BY <2>1 DEF Displays, DisplayNeverAhead
  <2> QED
    BY <1>1, <2>1, <2>2, LagEnds
<1> QED
  BY <1>4, <1>5, <1>6, <1>7, <1>8 DEF Receive

LEMMA LagBegins ==
  ASSUME PageInv, AllOnwards, LagInv, NEW c \in Calls,
         LoadTx(c) \/ Step(c) \/ ContinueExec(c) \/ AbortSession(c) \/ Poll(c)
  PROVE  LagInv'
<1>1. /\ TypeOK /\ ServerType' /\ UNCHANGED <<serverVars, currentSessionId>>
  BY DEF PageInv, TypeOK, ServerType, serverVars, pageVars,
         LoadTx, Step, ContinueExec, AbortSession, Poll
<1>2. UNCHANGED view \/ DisplayNeverAhead'
  BY <1>1, DisplaySays DEF LoadTx, Step, ContinueExec, AbortSession, Poll, pageVars, Messages
<1>3. \E request \in Requests \ {"trace_steps"}, s \in Sessions \union {NoSession} :
        /\ Send(c, request, s)
        /\ s \in {NoSession, currentSessionId} \/ (Busy(c) /\ s = calls[c].session)
  <2>1. CASE LoadTx(c)
    BY <2>1 DEF LoadTx, Requests
  <2>2. CASE Step(c) \/ ContinueExec(c) \/ AbortSession(c)
    <3>1. currentSessionId \in Sessions \union {NoSession}
      BY <1>1 DEF TypeOK
    <3> QED
      BY <2>2, <3>1 DEF Step, ContinueExec, AbortSession, Requests
  <2>3. CASE Poll(c)
    BY <1>1, <2>3, CallFacts DEF Poll, Requests, Busy
  <2> QED
    BY <2>1, <2>2, <2>3
<1>4. Elsewhere(c) /\ Lag(c)'
  <2>1. PICK request \in Requests \ {"trace_steps"}, s \in Sessions \union {NoSession} :
          /\ Send(c, request, s)
          /\ s \in {NoSession, currentSessionId} \/ (Busy(c) /\ s = calls[c].session)
    BY <1>3
  <2>2. /\ Elsewhere(c) /\ calls'[c].at = "sent" /\ calls'[c].request = request
        /\ calls'[c].session = s
    BY <1>1, <2>1, SendFacts
  <2> QED
    BY <1>1, <2>1, <2>2, LagSent
<1> QED
  BY <1>1, <1>2, <1>4, LagKept

LEMMA LagLose ==
  ASSUME PageInv, AllOnwards, LagInv, NEW c \in Calls, Lose(c)
  PROVE  LagInv'
<1>1. TypeOK /\ ServerType' /\ UNCHANGED currentSessionId /\ Ends(c, FALSE)
  BY DEF PageInv, TypeOK, ServerType, serverVars, Lose, FailLoad, EndLoad
<1>2. DisplayNeverAhead'
  <2>1. CASE FailLoad(c)
    BY <1>1, <2>1, DisplaySays DEF FailLoad, Messages
  <2>2. CASE Displays(calls[c].session, "failed", 0) \/ Displays(calls[c].session, "aborted", 0)
    BY <2>2 DEF Displays, DisplayNeverAhead, HasBeen
  <2> QED
    BY <2>1, <2>2 DEF Lose
<1> QED
  BY <1>1, <1>2, LagEnds

LEMMA LagStep ==
  ASSUME PageInv, PageInv', LagInv, [Next]_vars
  PROVE  LagInv'
<1>1. TypeOK /\ ServerType' /\ AllOnwards
  BY StepOnwards DEF PageInv, TypeOK, ServerType
<1>2. ASSUME UNCHANGED <<pageVars, calls>>
      PROVE  LagInv'
  <2>1. DisplayNeverAhead'
    BY <1>1, <1>2, DisplayStays DEF LagInv, pageVars
  <2>2. \A c \in Calls : Lag(c)'
    BY <1>1, <1>2, LagStays DEF LagInv
  <2>3. currentSessionId' # NoSession => status'[currentSessionId'] # "absent"
    BY <1>1, <1>2 DEF LagInv, TypeOK, AllOnwards, Server!Onwards, pageVars
  <2> QED
    BY <2>1, <2>2, <2>3 DEF LagInv
<1>3. CASE \/ \E s \in Sessions : Settles(s) \/ Collects(s)
           \/ Vanish \/ UNCHANGED vars
  BY <1>2, <1>3 DEF Settles, Collects, Vanish, vars
<1> QED
  BY <1>1, <1>3, LagServe, LagReceive, LagBegins, LagLose DEF Next

LEMMA LagAlways == SafeSpec => []LagInv
<1>1. Init => LagInv
  BY DEF Init, LagInv, DisplayNeverAhead, Lag, Busy, Idle
<1>2. PageInv /\ PageInv' /\ LagInv /\ [Next]_vars => LagInv'
  BY LagStep
<1> QED
  BY <1>1, <1>2, PageAlways, PTL DEF SafeSpec

(* However many functions are under way and in whichever order they are    *)
(* answered, the page never shows a session ahead of where it is           *)
(* (index.html:350, 383): each answer tells what a session has been, and a *)
(* session only moves onwards.                                             *)
THEOREM DisplayIsPast == SafeSpec => []DisplayNeverAhead
<1>1. LagInv => DisplayNeverAhead
  BY DEF LagInv
<1> QED
  BY <1>1, LagAlways, PTL

-----------------------------------------------------------------------------
(* A session that can be moved, or will be, while the page, which shows    *)
(* it, refuses: then something is still under way.                         *)
Locked ==
  /\ currentSessionId # NoSession /\ view.session = currentSessionId
  /\ status[currentSessionId] \in {"loading", "paused"}
  /\ ~buttons /\ view.state \notin {"aborted", "loading", "load failed"}

UsableInv == Locked => \E c \in Calls : Busy(c)

(* Without the page a session does not become one that can be moved.       *)
LEMMA UsableStays ==
  ASSUME PageInv, LagInv, AllOnwards, UsableInv, UNCHANGED <<pageVars, calls>>
  PROVE  UsableInv'
<1>1. Locked' => Locked
  <2> SUFFICES ASSUME Locked'
               PROVE  status[currentSessionId] \in {"loading", "paused"}
    BY DEF Locked, pageVars
  <2> DEFINE s == currentSessionId
  <2>1. s \in Sessions /\ status[s] # "absent" /\ status[s] \in Server!Statuses
    BY DEF Locked, pageVars, LagInv, PageInv, TypeOK
  <2>2. status'[s] \in {"loading", "paused"} /\ Server!Onwards(s)
    BY <2>1 DEF Locked, pageVars, AllOnwards
  <2> HIDE DEF s
  <2>3. status[s] \in {"loading", "paused"}
    BY <2>1, <2>2 DEF Server!Onwards, Server!Statuses
  <2> QED
    BY <2>3 DEF s
<1> QED
  BY <1>1 DEF UsableInv, Busy

LEMMA UsableDisplays ==
  ASSUME NEW s, NEW state \in {"aborted", "loading", "load failed"}, NEW p, Displays(s, state, p)
  PROVE  ~Locked'
<1>1. view'.state = state
  BY DEF Displays
<1> QED
  BY <1>1 DEF Locked

(* processState enables the buttons, or shows why it does not.             *)
LEMMA UsableProcessed ==
  ASSUME UNCHANGED serverVars, NEW s, NEW state \in Server!Statuses \ {"absent"}, NEW p,
         HasBeen(s, state, p), NEW list, NEW command \in BOOLEAN,
         ProcessState(s, state, p, list, command)
  PROVE  ~Locked'
<1>1. CASE list = NotAList /\ state \in {"paused", "finished"}
  <2>1. CASE command
    <3>1. buttons' = TRUE
      BY <1>1, <2>1 DEF ProcessState
    <3> QED
      BY <3>1 DEF Locked
  <2>2. CASE ~command
    <3>1. Displays(s, "load failed", 0)
      BY <1>1, <2>2 DEF ProcessState
    <3> QED
      BY <3>1, UsableDisplays
  <2> QED
    BY <2>1, <2>2
<1>2. CASE ~(list = NotAList /\ state \in {"paused", "finished"})
  <2>1. buttons' = (state = "paused") /\ Displays(s, state, IF state = "paused" THEN p ELSE 0)
    BY <1>2 DEF ProcessState
  <2>2. view'.session = s /\ view'.state = state
    BY <2>1 DEF Displays
  <2>3. state \in {"loading", "paused", "aborted"} \/ status'[s] \notin {"loading", "paused"}
    BY DEF HasBeen, Server!Statuses, serverVars
  <2> QED
    BY <2>1, <2>2, <2>3 DEF Locked
<1> QED
  BY <1>1, <1>2

(* A function that receives an answer goes on, or leaves the page usable.  *)
LEMMA UsableReceive ==
  ASSUME PageInv, LagInv, UsableInv, NEW c \in Calls, Receive(c)
  PROVE  UsableInv'
<1> DEFINE a == calls[c]
<1>1. /\ TypeOK /\ Busy(c) /\ a.at = "answered" /\ UNCHANGED serverVars
      /\ a.session \in Sessions \union {NoSession} /\ a.state \in Server!Statuses
      /\ Created(c) => a.session \in Sessions /\ a.session # NoSession
      /\ NoSession \notin Sessions /\ Lag(c) /\ LoadPart(c)
  BY CallFacts, FrontendAssumption DEF PageInv, LoadInv, Receive, Busy, LagInv
<1>2. a.session \in Sessions => a.state # "absent" /\ HasBeen(a.session, a.state, a.position)
  BY <1>1 DEF Lag
<1>3. ASSUME NEW list, NEW command \in BOOLEAN, a.session \in Sessions,
             ProcessState(a.session, a.state, a.position, list, command)
      PROVE  UsableInv'
  BY <1>1, <1>2, <1>3, UsableProcessed DEF UsableInv
<1>4. ASSUME Busy(c)' PROVE UsableInv'
  BY <1>4 DEF UsableInv
<1>5. CASE ReceiveCreated(c)
  <2>1. CASE a.session = NoSession
    BY <1>5, <2>1, UsableDisplays DEF ReceiveCreated, Says, UsableInv
  <2>2. CASE a.session # NoSession
    BY <1>1, <1>3, <1>5, <2>2 DEF ReceiveCreated
  <2> QED
    BY <2>1, <2>2
<1>6. CASE ReceivePolled(c)
  <2>1. a.request = "get" /\ a.session \in Sessions /\ UNCHANGED currentSessionId
    BY <1>1, <1>6 DEF ReceivePolled, Created
  <2>2. CASE calls' = [calls EXCEPT ![c].at = "waiting"]
    BY <1>1, <1>4, <2>2, WaitFacts DEF Busy
  <2>3. CASE Send(c, "trace_steps", a.session)
    BY <1>1, <1>4, <2>1, <2>3, SendFacts DEF Busy, Requests
  <2>4. CASE a.state = "gone" /\ UNCHANGED <<buttons, view>>
    <3>1. currentSessionId = a.session
      BY <1>1, <2>1 DEF LoadPart, Loads, Created
    <3>2. status'[currentSessionId'] = "gone"
      BY <1>1, <1>2, <2>1, <2>4, <3>1 DEF HasBeen, serverVars
    <3> QED
      BY <3>2 DEF UsableInv, Locked
  <2>5. CASE ProcessState(a.session, a.state, a.position, allTraceSteps, FALSE)
    BY <1>3, <2>1, <2>5
  <2> QED
    BY <1>6, <2>2, <2>3, <2>4, <2>5 DEF ReceivePolled
<1>7. CASE ReceiveSteps(c)
  <2>1. a.session \in Sessions /\ ProcessState(a.session, a.state, a.position, a.list, FALSE)
    BY <1>1, <1>7 DEF ReceiveSteps, Created
  <2> QED
    BY <1>3, <2>1
<1>8. CASE ReceiveCommand(c)
  <2>1. a.session \in Sessions
    BY <1>1, <1>8 DEF ReceiveCommand, Created
  <2>2. CASE buttons' = TRUE
    BY <2>2 DEF UsableInv, Locked
  <2> QED
    BY <1>3, <1>8, <2>1, <2>2 DEF ReceiveCommand
<1>9. CASE ReceiveAborted(c)
  BY <1>9, UsableDisplays DEF ReceiveAborted, UsableInv
<1> QED
  BY <1>5, <1>6, <1>7, <1>8, <1>9 DEF Receive

LEMMA UsableStep ==
  ASSUME PageInv, LagInv, UsableInv, [Next]_vars
  PROVE  UsableInv'
<1>1. TypeOK /\ AllOnwards /\ calls \in [Calls -> Records]
  BY StepOnwards DEF PageInv, TypeOK
<1>2. ASSUME NEW c \in Calls, calls'[c].at # "idle" PROVE UsableInv'
  BY <1>2 DEF UsableInv, Busy
<1>3. ASSUME NEW c \in Calls,
             LoadTx(c) \/ Step(c) \/ ContinueExec(c) \/ AbortSession(c) \/ Poll(c)
      PROVE  UsableInv'
  <2>1. \E request, s : Send(c, request, s)
    BY <1>3 DEF LoadTx, Step, ContinueExec, AbortSession, Poll
  <2>2. calls'[c].at = "sent"
    BY <1>1, <2>1 DEF Send, Records
  <2> QED
    BY <1>2, <2>2
<1>4. ASSUME NEW c \in Calls, Serve(c)
      PROVE  UsableInv'
  <2>1. calls'[c].at = "answered"
    <3>1. ASSUME NEW s, NEW list, Answer(c, s, list) PROVE calls'[c].at = "answered"
      BY <1>1, <3>1 DEF Answer, Records
    <3>2. CASE ServeCreate(c)
      BY <1>1, <3>1, <3>2 DEF ServeCreate, Records
    <3>3. CASE ServeSteps(c, calls[c].session)
      BY <1>1, <3>3 DEF ServeSteps, Records
    <3> QED
      BY <1>4, <3>1, <3>2, <3>3 DEF Serve, ServeCommand, ServeAbort, ServeGet
  <2> QED
    BY <1>2, <2>1
<1>5. ASSUME NEW c \in Calls, Lose(c)
      PROVE  UsableInv'
  <2>1. CASE FailLoad(c) \/ Displays(calls[c].session, "aborted", 0)
    BY <2>1, UsableDisplays DEF FailLoad, Says, UsableInv
  <2>2. CASE buttons' = TRUE
    BY <2>2 DEF UsableInv, Locked
  <2> QED
    BY <1>5, <2>1, <2>2 DEF Lose
<1>6. CASE \/ \E s \in Sessions : Settles(s) \/ Collects(s)
           \/ Vanish \/ UNCHANGED vars
  BY <1>1, <1>6, UsableStays DEF Settles, Collects, Vanish, vars
<1> QED
  BY <1>3, <1>4, <1>5, <1>6, UsableReceive DEF Next

(* Whatever was lost, refused or answered late, a page with nothing under  *)
(* way has the buttons of a session that can be moved enabled              *)
(* (index.html:352-372): each way out of sendCmd and of processState       *)
(* enables them, or shows a state in which the session cannot be moved.    *)
THEOREM ButtonsReturn == SafeSpec => []ButtonsComeBack
<1>1. Init => UsableInv
  BY DEF Init, UsableInv, Locked
<1>2. PageInv /\ LagInv /\ UsableInv /\ [Next]_vars => UsableInv'
  BY UsableStep
<1>3. UsableInv => ButtonsComeBack
  BY DEF UsableInv, Locked, ButtonsComeBack, Busy
<1> QED
  BY <1>1, <1>2, <1>3, PageAlways, LagAlways, PTL DEF SafeSpec

-----------------------------------------------------------------------------
(* The flag that refuses a second load is up exactly while a load is under *)
(* way: it never outlives the call of loadTx that raised it, which would   *)
(* refuse every load from then on (index.html:139, the finally of loadTx). *)
FlagIsALoad == loadInFlight <=> \E c \in Calls : Loads(c)

(* What is left to show of a step of the function c.                       *)
LEMMA FlagKept ==
  ASSUME PageInv, PageInv', FlagIsALoad, NEW c \in Calls, Elsewhere(c),
         loadInFlight' => loadInFlight, Loads(c) => Loads(c)' \/ ~loadInFlight'
  PROVE  FlagIsALoad'
<1>1. ASSUME NEW d \in Calls, d # c PROVE Loads(d)' <=> Loads(d)
  BY <1>1 DEF Elsewhere, Loads, Busy
<1>2. (\E d \in Calls : Loads(d)') => loadInFlight'
  BY DEF PageInv, LoadInv, LoadPart
<1> QED
  BY <1>1, <1>2 DEF FlagIsALoad

LEMMA FlagStep ==
  ASSUME PageInv, PageInv', FlagIsALoad, [Next]_vars
  PROVE  FlagIsALoad'
<1>1. TypeOK /\ calls \in [Calls -> Records]
  BY DEF PageInv, TypeOK
<1>2. ASSUME NEW c \in Calls, LoadTx(c)
      PROVE  FlagIsALoad'
  <2>1. calls'[c].at = "sent" /\ calls'[c].request = "create" /\ loadInFlight' = TRUE
    BY <1>1, <1>2, SendFacts DEF LoadTx, Requests
  <2> QED
    BY <2>1 DEF FlagIsALoad, Loads, Busy
<1>3. ASSUME NEW c \in Calls, Step(c) \/ ContinueExec(c) \/ AbortSession(c)
      PROVE  FlagIsALoad'
  <2>1. /\ ~Loads(c) /\ loadInFlight' = loadInFlight
        /\ \E request \in Requests : Send(c, request, currentSessionId)
    BY <1>3 DEF Step, ContinueExec, AbortSession, Begins, Loads, Busy, Requests
  <2>2. Elsewhere(c)
    BY <1>1, <2>1, SendFacts DEF TypeOK
  <2> QED
    BY <2>1, <2>2, FlagKept
<1>4. ASSUME NEW c \in Calls, Serve(c)
      PROVE  FlagIsALoad'
  <2> DEFINE s == calls[c].session
  <2>1. Elsewhere(c) /\ calls'[c].at = "answered" /\ calls'[c].request = calls[c].request
    <3>1. ASSUME NEW r, NEW list, Answer(c, r, list)
          PROVE  Elsewhere(c) /\ calls'[c].at = "answered" /\ calls'[c].request = calls[c].request
      BY <1>1, <3>1 DEF Answer, Elsewhere, Records
    <3>2. CASE ServeCreate(c)
      BY <1>1, <3>1, <3>2 DEF ServeCreate, Elsewhere, Records
    <3>3. CASE ServeSteps(c, s)
      BY <1>1, <3>3 DEF ServeSteps, Elsewhere, Records
    <3>4. CASE ServeCommand(c, s) \/ ServeAbort(c, s) \/ ServeGet(c, s)
      BY <3>1, <3>4 DEF ServeCommand, ServeAbort, ServeGet
    <3> QED
      BY <1>4, <3>2, <3>3, <3>4 DEF Serve
  <2>2. loadInFlight' = loadInFlight /\ (Loads(c) => Loads(c)')
    BY <1>4, <2>1 DEF Serve, pageVars, Loads, Busy
  <2> QED
    BY <2>1, <2>2, FlagKept
<1>5. ASSUME NEW c \in Calls, Receive(c) \/ Lose(c)
      PROVE  FlagIsALoad'
  <2>1. ASSUME NEW answered \in BOOLEAN, EndLoad(c, answered)
        PROVE  FlagIsALoad'
    BY <1>1, <2>1, EndsFacts, FlagKept DEF EndLoad
  <2>2. ASSUME NEW answered \in BOOLEAN, Ends(c, answered), ~Loads(c),
               loadInFlight' = loadInFlight
        PROVE  FlagIsALoad'
    BY <1>1, <2>2, EndsFacts, FlagKept
  <2>3. ASSUME Loads(c), loadInFlight' = loadInFlight,
               calls' = [calls EXCEPT ![c].at = "waiting"]
        PROVE  FlagIsALoad'
    BY <1>1, <2>3, WaitFacts, FlagKept DEF Loads, Busy
  <2>4. CASE Receive(c) /\ ReceiveCreated(c)
    <3>1. Loads(c)
      BY <2>4 DEF Receive, ReceiveCreated, Loads, Busy
    <3> QED
      BY <2>1, <2>3, <2>4, <3>1 DEF ReceiveCreated
  <2>5. CASE Receive(c) /\ ReceivePolled(c)
    <3>1. Loads(c)
      BY <2>5 DEF Receive, ReceivePolled, Loads, Busy
    <3>2. CASE /\ Send(c, "trace_steps", calls[c].session) /\ loadInFlight' = loadInFlight
      <4>1. calls[c].session \in Sessions \union {NoSession}
        BY <1>1, CallFacts
      <4>2. Elsewhere(c) /\ Loads(c)'
        BY <1>1, <3>2, <4>1, SendFacts DEF Requests, Loads, Busy
      <4> QED
        BY <3>2, <4>2, FlagKept
    <3> QED
      BY <2>1, <2>3, <2>5, <3>1, <3>2 DEF ReceivePolled
  <2>6. CASE Receive(c) /\ ReceiveSteps(c)
    BY <2>1, <2>6 DEF ReceiveSteps
  <2>7. CASE Receive(c) /\ (ReceiveCommand(c) \/ ReceiveAborted(c))
    <3>1. ~Loads(c) /\ loadInFlight' = loadInFlight
      BY <2>7 DEF ReceiveCommand, ReceiveAborted, Loads
    <3>2. \E answered \in BOOLEAN : Ends(c, answered)
      BY <2>7 DEF ReceiveCommand, ReceiveAborted
    <3> QED
      BY <2>2, <3>1, <3>2
  <2>8. CASE Lose(c)
    <3>1. CASE FailLoad(c)
      BY <2>1, <3>1 DEF FailLoad
    <3>2. CASE /\ calls[c].request \in {"step", "continue", "abort"}
               /\ Ends(c, FALSE) /\ loadInFlight' = loadInFlight
      BY <2>2, <3>2 DEF Loads
    <3> QED
      BY <2>8, <3>1, <3>2 DEF Lose
  <2> QED
    BY <1>5, <2>4, <2>5, <2>6, <2>7, <2>8 DEF Receive
<1>6. ASSUME NEW c \in Calls, Poll(c)
      PROVE  FlagIsALoad'
  <2>1. calls[c].session \in Sessions \union {NoSession}
    BY <1>1, CallFacts
  <2>2. Elsewhere(c) /\ Loads(c)' /\ loadInFlight' = loadInFlight
    BY <1>1, <1>6, <2>1, SendFacts DEF Poll, pageVars, Requests, Loads, Busy
  <2> QED
    BY <2>2, FlagKept
<1>7. CASE UNCHANGED <<calls, loadInFlight>>
  BY <1>7 DEF FlagIsALoad, Loads, Busy
<1> QED
  BY <1>2, <1>3, <1>4, <1>5, <1>6, <1>7 DEF Next, Settles, Collects, Vanish, pageVars, vars

THEOREM NoLoadOutlivesItsCall == SafeSpec => []FlagIsALoad
<1>1. Init => FlagIsALoad
  BY DEF Init, FlagIsALoad, Loads, Busy, Idle
<1>2. PageInv /\ PageInv' /\ FlagIsALoad /\ [Next]_vars => FlagIsALoad'
  BY FlagStep
<1> QED
  BY <1>1, <1>2, PageAlways, PTL DEF SafeSpec
=============================================================================
