------------------------------- MODULE Frontend -------------------------------
(***************************************************************************)
(* The page (static/index.html) and the server it talks to.  The page runs *)
(* no two functions at the same time, but each of them pauses at every     *)
(* fetch, and meanwhile others start: loadTx, which polls until the        *)
(* session is no longer loading, commands, by button or by key, and abort. *)
(* The server is the session of SessionLifecycle, which DebugSession       *)
(* implements.  Requests and answers may be lost, and sessions vanish one  *)
(* by one, by the garbage collector, or all of them with the process.      *)
(***************************************************************************)
EXTENDS Integers

CONSTANTS Sessions,   \* session ids
          Lengths,    \* the lengths a recorded trace may have
          NoSession,  \* null, and an empty opcode list
          NotAList,   \* an object that is no list: {"error": "session not found"}
          Calls       \* running calls of the page's asynchronous functions

ASSUME FrontendAssumption ==
  /\ Lengths \subseteq Nat
  /\ NoSession \notin Sessions /\ NotAList \notin Sessions /\ NoSession # NotAList

VARIABLES status, position, length, ending,  \* the sessions of the server
          currentSessionId,
          loadInFlight,
          allTraceSteps,  \* the session whose opcodes it holds
          buttons,        \* whether the buttons of the commands are enabled
          view,           \* the state that is displayed
          calls,
          work            \* history: how the last work of the page went

serverVars == <<status, position, length, ending>>
pageVars   == <<currentSessionId, loadInFlight, allTraceSteps, buttons, view>>
vars == <<serverVars, pageVars, calls, work>>

Server == INSTANCE SessionLifecycle

-----------------------------------------------------------------------------
Idle == [at |-> "idle", request |-> "get", session |-> NoSession,
         state |-> "absent", position |-> 0, list |-> NoSession]

Displays(s, state, p) == view' = [session |-> s, state |-> state, position |-> p]
Says(message) == Displays(currentSessionId, message, 0)

Init ==
  /\ Server!Init
  /\ currentSessionId = NoSession
  /\ loadInFlight = FALSE
  /\ allTraceSteps = NoSession
  /\ buttons = FALSE
  /\ view = [session |-> NoSession, state |-> "none", position |-> 0]
  /\ calls = [c \in Calls |-> Idle]
  /\ work = "none"

Send(c, request, s) ==
  calls' = [calls EXCEPT ![c].at = "sent", ![c].request = request, ![c].session = s]

(* A call begins: alone, or while others are under way.                    *)
Begins(c) ==
  /\ calls[c].at = "idle"
  /\ work' = IF \A d \in Calls : calls[d].at = "idle" THEN "alone" ELSE "overlapping"

(* It ends with the answer of the server displayed, or without.            *)
Ends(c, answered) ==
  /\ calls' = [calls EXCEPT ![c] = Idle]
  /\ work' = IF work # "alone" THEN work ELSE IF answered THEN "answered" ELSE "none"

(* A mutant: without the early return while another load is in flight.     *)
LoadTxAgain(c) ==
  /\ Begins(c)
  /\ loadInFlight' = TRUE
  /\ buttons' = FALSE
  /\ allTraceSteps' = NoSession
  /\ Says("loading")
  /\ Send(c, "create", NoSession)
  /\ UNCHANGED <<serverVars, currentSessionId>>

LoadTx(c) ==
  /\ ~loadInFlight
  /\ Begins(c)
  /\ loadInFlight' = TRUE
  /\ buttons' = FALSE
  /\ allTraceSteps' = NoSession
  /\ Says("loading")
  /\ Send(c, "create", NoSession)
  /\ UNCHANGED <<serverVars, currentSessionId>>

(* Mutants: keys work before a session is loaded, or show the next opcode  *)
(* before the server has answered.                                         *)
StepBeforeLoad(c) ==
  /\ Begins(c)
  /\ buttons' = FALSE
  /\ Send(c, "step", currentSessionId)
  /\ UNCHANGED <<serverVars, currentSessionId, loadInFlight, allTraceSteps, view>>

StepAhead(c) ==
  /\ currentSessionId # NoSession
  /\ Begins(c)
  /\ buttons' = FALSE
  /\ Displays(currentSessionId, "paused", view.position + 1)
  /\ Send(c, "step", currentSessionId)
  /\ UNCHANGED <<serverVars, currentSessionId, loadInFlight, allTraceSteps>>

(* stepInto and stepOver; their keys work although the buttons are         *)
(* disabled, and although an earlier command has not been answered.        *)
Step(c) ==
  /\ currentSessionId # NoSession
  /\ Begins(c)
  /\ buttons' = FALSE
  /\ Send(c, "step", currentSessionId)
  /\ UNCHANGED <<serverVars, currentSessionId, loadInFlight, allTraceSteps, view>>

ContinueExec(c) ==
  /\ currentSessionId # NoSession
  /\ Begins(c)
  /\ buttons' = FALSE
  /\ Says("running")
  /\ Send(c, "continue", currentSessionId)
  /\ UNCHANGED <<serverVars, currentSessionId, loadInFlight, allTraceSteps>>

(* abort has a button and no key.                                          *)
AbortSession(c) ==
  /\ currentSessionId # NoSession /\ buttons
  /\ Begins(c)
  /\ buttons' = FALSE
  /\ Says("aborting")
  /\ Send(c, "abort", currentSessionId)
  /\ UNCHANGED <<serverVars, currentSessionId, loadInFlight, allTraceSteps>>

-----------------------------------------------------------------------------
(* The server handles a request.  A session that is gone is not found, and *)
(* get_trace_steps then answers with an object instead of a list.          *)
Listed(s) == IF status[s] = "gone" THEN NotAList
             ELSE IF length[s] > 0 THEN s ELSE NoSession

Answer(c, s, list) ==
  calls' = [calls EXCEPT ![c].at = "answered", ![c].session = s,
                         ![c].state = status'[s], ![c].position = position'[s],
                         ![c].list = list]

(* create_session: from the cache with the list, else loading without; or  *)
(* refused.                                                                *)
ServeCreate(c) ==
  /\ calls[c].request = "create"
  /\ \/ \E s \in Sessions : Server!Open(s) /\ Answer(c, s, NoSession)
     \/ \E s \in Sessions : Server!OpenSettled(s) /\ Answer(c, s, Listed(s)')
     \/ /\ calls' = [calls EXCEPT ![c].at = "answered"]
        /\ UNCHANGED serverVars

ServeCommand(c, s) ==
  /\ calls[c].request \in {"step", "continue"}
  /\ IF status[s] = "paused"
     THEN Server!Move(s) /\ (calls[c].request = "continue" => position'[s] = length[s])
     ELSE UNCHANGED serverVars
  /\ Answer(c, s, NoSession)

ServeAbort(c, s) ==
  /\ calls[c].request = "abort"
  /\ IF status[s] # "gone" THEN Server!Abort(s) ELSE UNCHANGED serverVars
  /\ Answer(c, s, NoSession)

ServeGet(c, s) ==
  /\ calls[c].request = "get"
  /\ UNCHANGED serverVars
  /\ Answer(c, s, NoSession)

(* get_trace_steps; the page keeps the state that it has polled before.    *)
ServeSteps(c, s) ==
  /\ calls[c].request = "trace_steps"
  /\ calls' = [calls EXCEPT ![c].at = "answered", ![c].list = Listed(s)]
  /\ UNCHANGED serverVars

Serve(c) ==
  /\ calls[c].at = "sent"
  /\ LET s == calls[c].session IN
       ServeCreate(c) \/ ServeCommand(c, s) \/ ServeAbort(c, s) \/ ServeGet(c, s) \/ ServeSteps(c, s)
  /\ UNCHANGED <<pageVars, work>>

-----------------------------------------------------------------------------
(* processState.  A list that is none makes renderOpcodeList throw, and    *)
(* the caller reports the error; a command enables the buttons then.       *)
ProcessState(s, state, p, list, command) ==
  LET throws == list = NotAList /\ state \in {"paused", "finished"} IN
  /\ buttons' = (state = "paused" \/ (throws /\ command))
  /\ IF throws THEN Displays(s, IF command THEN "failed" ELSE "load failed", 0)
     ELSE Displays(s, state, IF state = "paused" THEN p ELSE 0)

EndLoad(c, answered) == Ends(c, answered) /\ loadInFlight' = FALSE

(* loadTx has the answer to its POST.                                      *)
ReceiveCreated(c) ==
  LET a == calls[c] IN
  /\ a.request = "create"
  /\ \/ /\ a.session = NoSession
        /\ EndLoad(c, FALSE)
        /\ Says("load failed")
        /\ UNCHANGED <<currentSessionId, allTraceSteps, buttons>>
     \/ /\ a.session # NoSession
        /\ currentSessionId' = a.session
        /\ allTraceSteps' = a.list
        /\ ProcessState(a.session, a.state, a.position, a.list, FALSE)
        /\ IF a.state = "loading"
           THEN calls' = [calls EXCEPT ![c].at = "waiting"] /\ UNCHANGED <<loadInFlight, work>>
           ELSE EndLoad(c, TRUE)

(* pollUntilReady: half a second later.                                    *)
Poll(c) ==
  /\ calls[c].at = "waiting"
  /\ Send(c, "get", calls[c].session)
  /\ UNCHANGED <<serverVars, pageVars, work>>

(* A state it does not know, that of a session not found, it ignores.      *)
ReceivePolled(c) ==
  LET a == calls[c] IN
  /\ a.request = "get"
  /\ UNCHANGED <<currentSessionId, allTraceSteps>>
  /\ \/ /\ a.state = "loading"
        /\ calls' = [calls EXCEPT ![c].at = "waiting"]
        /\ UNCHANGED <<loadInFlight, buttons, view, work>>
     \/ /\ a.state = "paused"
        /\ Send(c, "trace_steps", a.session)
        /\ UNCHANGED <<loadInFlight, buttons, view, work>>
     \/ /\ a.state = "gone"
        /\ EndLoad(c, FALSE)
        /\ UNCHANGED <<buttons, view>>
     \/ /\ a.state \notin {"loading", "paused", "gone"}
        /\ EndLoad(c, TRUE)
        /\ ProcessState(a.session, a.state, a.position, allTraceSteps, FALSE)

ReceiveSteps(c) ==
  LET a == calls[c] IN
  /\ a.request = "trace_steps"
  /\ EndLoad(c, TRUE)
  /\ allTraceSteps' = a.list
  /\ ProcessState(a.session, a.state, a.position, a.list, FALSE)
  /\ UNCHANGED currentSessionId

(* A mutant: the buttons stay as sendCmd has left them, disabled.          *)
ReceiveCommandLocked(c) ==
  LET a == calls[c] IN
  /\ a.request \in {"step", "continue"}
  /\ Ends(c, a.state # "gone")
  /\ Displays(a.session, a.state, IF a.state = "paused" THEN a.position ELSE 0)
  /\ UNCHANGED <<currentSessionId, loadInFlight, allTraceSteps, buttons>>

ReceiveCommand(c) ==
  LET a == calls[c] IN
  /\ a.request \in {"step", "continue"}
  /\ Ends(c, a.state # "gone")
  /\ IF a.state = "gone" THEN Displays(a.session, "failed", 0) /\ buttons' = TRUE
     ELSE ProcessState(a.session, a.state, a.position, allTraceSteps, TRUE)
  /\ UNCHANGED <<currentSessionId, loadInFlight, allTraceSteps>>

(* abortSession does not look at its answer.                               *)
ReceiveAborted(c) ==
  /\ calls[c].request = "abort"
  /\ Ends(c, calls[c].state # "gone")
  /\ Displays(calls[c].session, "aborted", 0)
  /\ UNCHANGED <<currentSessionId, loadInFlight, allTraceSteps, buttons>>

Receive(c) ==
  /\ calls[c].at = "answered"
  /\ ReceiveCreated(c) \/ ReceivePolled(c) \/ ReceiveSteps(c) \/ ReceiveCommand(c) \/ ReceiveAborted(c)
  /\ UNCHANGED serverVars

(* A mutant: loadTx has no finally.                                        *)
FailLoadQuietly(c) ==
  /\ Ends(c, FALSE)
  /\ Says("load failed")
  /\ UNCHANGED <<loadInFlight, buttons>>

FailLoad(c) ==
  /\ EndLoad(c, FALSE)
  /\ Says("load failed")
  /\ UNCHANGED buttons

(* A mutant: the catch of sendCmd does not enable the buttons again.       *)
LoseLocked(c) ==
  /\ calls[c].at \in {"sent", "answered"}
  /\ \/ calls[c].request \in {"create", "get", "trace_steps"} /\ FailLoad(c)
     \/ /\ calls[c].request \in {"step", "continue"}
        /\ Ends(c, FALSE)
        /\ Displays(calls[c].session, "failed", 0)
        /\ UNCHANGED <<loadInFlight, buttons>>
     \/ /\ calls[c].request = "abort"
        /\ Ends(c, FALSE)
        /\ Displays(calls[c].session, "aborted", 0)
        /\ UNCHANGED <<loadInFlight, buttons>>
  /\ UNCHANGED <<serverVars, currentSessionId, allTraceSteps>>

(* A request is lost, or its answer is, and fetch or text() throws.        *)
Lose(c) ==
  /\ calls[c].at \in {"sent", "answered"}
  /\ \/ calls[c].request \in {"create", "get", "trace_steps"} /\ FailLoad(c)
     \/ /\ calls[c].request \in {"step", "continue"}
        /\ Ends(c, FALSE)
        /\ Displays(calls[c].session, "failed", 0)
        /\ buttons' = TRUE
        /\ UNCHANGED loadInFlight
     \/ /\ calls[c].request = "abort"
        /\ Ends(c, FALSE)
        /\ Displays(calls[c].session, "aborted", 0)
        /\ UNCHANGED <<loadInFlight, buttons>>
  /\ UNCHANGED <<serverVars, currentSessionId, allTraceSteps>>

-----------------------------------------------------------------------------
(* What the server does of itself.                                         *)
Settles(s) == (Server!Load(s) \/ Server!Fail(s)) /\ UNCHANGED <<pageVars, calls, work>>
Collects(s) == Server!Collect(s) /\ UNCHANGED <<pageVars, calls, work>>
Vanish == Server!Restart /\ UNCHANGED <<pageVars, calls, work>>

Next ==
  \/ \E c \in Calls :
       \/ LoadTx(c) \/ Step(c) \/ ContinueExec(c) \/ AbortSession(c)
       \/ Serve(c) \/ Receive(c) \/ Poll(c) \/ Lose(c)
  \/ \E s \in Sessions : Settles(s) \/ Collects(s)
  \/ Vanish

(* The browser's event loop runs, and every request is answered or fails.  *)
(* Nothing is assumed of the sessions: a replay may hang for ever.         *)
Fairness ==
  \A c \in Calls : WF_vars(Receive(c)) /\ WF_vars(Poll(c)) /\ WF_vars(Serve(c) \/ Lose(c))

SafeSpec == Init /\ [][Next]_vars
Spec == SafeSpec /\ Fairness

-----------------------------------------------------------------------------
Messages == {"none", "running", "aborting", "failed", "load failed"}

Requests == {"create", "get", "trace_steps", "step", "continue", "abort"}
Records  == [at : {"idle", "sent", "answered", "waiting"}, request : Requests,
             session : Sessions \union {NoSession},
             state : Server!Statuses, position : Nat,
             list : Sessions \union {NoSession, NotAList}]

(* Every variable has its type, and every request but the one for a new    *)
(* session names a session.                                                *)
TypeOK ==
  /\ status \in [Sessions -> Server!Statuses]
  /\ position \in [Sessions -> Nat] /\ length \in [Sessions -> Nat]
  /\ ending \in [Sessions -> Server!Endings]
  /\ currentSessionId \in Sessions \union {NoSession}
  /\ loadInFlight \in BOOLEAN
  /\ allTraceSteps \in Sessions \union {NoSession, NotAList}
  /\ buttons \in BOOLEAN
  /\ view \in [session : Sessions \union {NoSession},
               state : Server!Statuses \union Messages, position : Nat]
  /\ calls \in [Calls -> Records]
  /\ \A c \in Calls :
       calls[c].at = "waiting" \/ (calls[c].at # "idle" /\ calls[c].request # "create")
         => calls[c].session # NoSession
  /\ work \in {"none", "alone", "overlapping", "answered"}

(* The opcode list never belongs to another session than the current one,  *)
(* although it arrives long after the session was chosen (index.html:139,  *)
(* 178): commands are sent to the session whose opcodes are listed.        *)
ListBelongs == allTraceSteps \in {NoSession, NotAList, currentSessionId}

(* When the last function that ran had the page to itself and got its      *)
(* answer, the page displays the server's state of the current session,    *)
(* with the buttons enabled exactly if a command can move it: whatever had *)
(* been lost, overtaken or displayed out of order before (index.html:187,  *)
(* 350).  Only a session still loading, or gone, changes without the page. *)
AnsweredPageIsCurrent ==
  work = "answered" /\ status[currentSessionId] # "gone" =>
    /\ view.session = currentSessionId
    /\ buttons <=> view.state = "paused"
    /\ view.state # "loading" => view.state = status[currentSessionId]
    /\ view.state = "paused" => view.position = position[currentSessionId]

(* s is in this state, or was and has only moved onwards since: further in *)
(* its trace, to the end of it, or out of use.                             *)
HasBeen(s, state, p) ==
  /\ state = "loading" => status[s] # "absent"
  /\ state = "paused" => /\ status[s] \in {"paused", "finished", "aborted", "gone"}
                         /\ status[s] = "paused" => p <= position[s]
  /\ state = "finished" => status[s] \in {"finished", "aborted", "gone"}
  /\ state = "error" => status[s] \in {"error", "aborted", "gone"}
  /\ state = "aborted" => status[s] \in {"aborted", "gone"}
  /\ state = "gone" => status[s] = "gone"

(* However calls overlap and answers overtake each other, the page may lag *)
(* behind a session, and never shows one ahead of where it is or in a      *)
(* state that it has not been in (index.html:350, 383).  But "Aborted" is  *)
(* shown although the request may have been lost (index.html:347).         *)
DisplayNeverAhead ==
  view.session # NoSession /\ view.state # "aborted"
    => HasBeen(view.session, view.state, view.position)

(* Commands disable the buttons before they are sent.  When nothing is     *)
(* under way any more, whatever was lost, refused or answered out of       *)
(* order, a session that can be moved has its buttons back                 *)
(* (index.html:352-372), unless the page shows another session, says that  *)
(* it is aborted, or loading, or that the last load has failed.            *)
ButtonsComeBack ==
  /\ \A c \in Calls : calls[c].at = "idle"
  /\ currentSessionId # NoSession /\ view.session = currentSessionId
  /\ status[currentSessionId] = "paused"
  => buttons \/ view.state \in {"aborted", "loading", "load failed"}

(* The session that a load is waiting for is still loading.                *)
PollsLoading ==
  \E c \in Calls : /\ calls[c].at # "idle" /\ calls[c].request \in {"create", "get"}
                   /\ calls[c].session # NoSession /\ status[calls[c].session] = "loading"

(* Every load ends, unless its session itself loads for ever, which it     *)
(* does when a request of the replay is never answered (executor.rs:45) or *)
(* the server has no permits: pollUntilReady has no limit of its own       *)
(* (index.html:172), and until it ends every other load is refused.        *)
LoadsEnd == loadInFlight ~> (~loadInFlight \/ []PollsLoading)

(* README.md:12: after a cold start the opcode list is fetched once the    *)
(* session is ready.                                                       *)
OpcodeListFetched ==
  [][loadInFlight /\ ~loadInFlight' /\ view'.state # "load failed"
       /\ currentSessionId' \in Sessions /\ length[currentSessionId'] > 0
       => allTraceSteps' = currentSessionId']_vars
=============================================================================
