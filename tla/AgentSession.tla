---------------------------- MODULE AgentSession ----------------------------
(***************************************************************************)
(* openhands/server/session/agent_session.py with session.py around it:    *)
(* the life of one agent session per number in Session.                    *)
(*                                                                         *)
(* start() runs in a task of its own, close() in the task of whoever       *)
(* closes; both are coroutines of one loop, so that they interleave only   *)
(* where they suspend.  close() waits for a start under way, except that   *)
(* the comparison that is to end a long wait is true at once for a session *)
(* started recently.  The events that set the agent running are heard by   *)
(* a pool thread of the event stream, at any time until the stream closes. *)
(***************************************************************************)
EXTENDS Integers, FiniteSets

CONSTANTS Sids,         \* conversations
          NoSid,
          MaxSessions   \* bound: sessions created in a behaviour

ASSUME SessionAssumption == MaxSessions \in Nat /\ NoSid \notin Sids

Session == 1..MaxSessions

VARIABLES
    sidOf,      \* sid of each session, NoSid before it is created
    stage,      \* of start(): "new" until its task runs, then what it awaits
    runtime,    \* runtime: "none", "open", or "closing" once its close is submitted
    controller, \* controller: "none", its state, or "closed"
    stream,     \* event_stream is "open" or "closed"
    unheard,    \* events published that set the agent running when they are heard
    closing,    \* of close(): "no", where it is, then "done", "failed" by an
                \* exception, or "cut" by a cancel
    age,        \* "young": at most WAIT_TIME_BEFORE_CLOSE since the start;
                \* "idle": nothing was sent for longer than close_delay
    gaveUp      \* history: closed while start() was still running

sessionVars == <<sidOf, stage, runtime, controller, stream, unheard, closing, age,
                 gaveUp>>

Created(s) == sidOf[s] # NoSid

\* Mutant: _starting is reset only when start() succeeds, not in finally.
Starting_UntilSuccess(s) == \/ stage[s] = "starting"
                            \/ runtime[s] = "open" /\ controller[s] = "none"
Starting(s) == stage[s] = "starting"       \* _starting
Closed(s) == closing[s] \notin {"no", "emit"}             \* _closed, or cut off
Ended(s) == closing[s] \in {"done", "failed"}

SessionTypeOK ==
    /\ sidOf \in [Session -> Sids \cup {NoSid}]
    /\ stage \in [Session -> {"new", "starting", "ended"}]
    /\ runtime \in [Session -> {"none", "open", "closing"}]
    /\ controller \in [Session -> {"none", "running", "waiting", "closed"}]
    /\ stream \in [Session -> {"open", "closed"}]
    /\ unheard \in [Session -> Nat]
    /\ closing \in [Session -> {"no", "emit", "waiting", "stream", "done", "failed",
                                "cut"}]
    /\ age \in [Session -> {"young", "old", "idle"}]
    /\ gaveUp \in [Session -> BOOLEAN]
    /\ \A s \in Session :
          /\ stage[s] = "starting" \/ controller[s] # "none"
                => runtime[s] # "none"
          /\ closing[s] # "no" => Created(s)

SessionInit ==
    /\ sidOf = [s \in Session |-> NoSid]
    /\ stage = [s \in Session |-> "new"]
    /\ runtime = [s \in Session |-> "none"]
    /\ controller = [s \in Session |-> "none"]
    /\ stream = [s \in Session |-> "open"]
    /\ unheard = [s \in Session |-> 0]
    /\ closing = [s \in Session |-> "no"]
    /\ age = [s \in Session |-> "young"]
    /\ gaveUp = [s \in Session |-> FALSE]

\* get_state.  Before start() has run, _started_at is 0 and long ago.
AgentState(s) ==
    IF controller[s] # "none" THEN controller[s]
    ELSE IF age[s] = "young" /\ stage[s] # "new" THEN "none" ELSE "error"

-----------------------------------------------------------------------------
(* start.                                                                  *)

\* Session() and create_task(initialize_agent) for the next free number.
IsNew(s) == ~Created(s) /\ \A t \in 1..s - 1 : Created(t)

\* The task begins: a session closed meanwhile is not started; otherwise the
\* runtime is made, and connect() awaited.
Start_Begin(s) ==
    /\ Created(s) /\ stage[s] = "new"
    /\ IF Closed(s)
       THEN /\ stage' = [stage EXCEPT ![s] = "ended"]
            /\ UNCHANGED runtime
       ELSE /\ stage' = [stage EXCEPT ![s] = "starting"]
            /\ runtime' = [runtime EXCEPT ![s] = "open"]
    /\ UNCHANGED <<sidOf, controller, stream, unheard, closing, age, gaveUp>>

\* Any other exception, of the runtime or of the memory.
Start_Fails(s) ==
    /\ stage[s] = "starting"
    /\ stage' = [stage EXCEPT ![s] = "ended"]
    /\ UNCHANGED <<sidOf, runtime, controller, stream, unheard, closing, age, gaveUp>>

\* Mutant: the first events are published without looking at _closed.
MayGreet_Always(s) == TRUE
MayGreet(s) == ~Closed(s)

\* The controller is made, closed session or not; a first message that is to
\* set it running is published.
Start_Controller(s) ==
    /\ stage[s] = "starting"
    /\ stage' = [stage EXCEPT ![s] = "ended"]
    /\ controller' = [controller EXCEPT ![s] = "waiting"]
    /\ \E first \in IF MayGreet(s) THEN {0, 1} ELSE {0} :
          unheard' = [unheard EXCEPT ![s] = @ + first]
    /\ UNCHANGED <<sidOf, runtime, stream, closing, age, gaveUp>>

Start(s) == Start_Begin(s) \/ Start_Fails(s) \/ Start_Controller(s)

-----------------------------------------------------------------------------
(* close.                                                                  *)

\* Mutant: only a session whose start succeeded has its runtime closed.
Submits_IfStarted(s) == controller[s] # "none"
Submits(s) == runtime[s] # "none"

\* sio.emit has returned, and close() looks at _starting.  Once it waits no
\* longer it closes the stream, and blocks the loop until that is done.
Close_Begin(s) ==
    /\ closing[s] = "emit"
    /\ closing' = [closing EXCEPT ![s] = IF Starting(s) THEN "waiting" ELSE "stream"]
    /\ UNCHANGED <<sidOf, stage, runtime, controller, stream, unheard, age, gaveUp>>

\* After the first sleep a young session is given up ...
Close_GiveUp(s) ==
    /\ closing[s] = "waiting" /\ age[s] = "young"
    /\ closing' = [closing EXCEPT ![s] = "stream"]
    /\ gaveUp' = [gaveUp EXCEPT ![s] = Starting(s)]
    /\ UNCHANGED <<sidOf, stage, runtime, controller, stream, unheard, age>>

\* ... and an older one is waited for.
Close_Waited(s) ==
    /\ closing[s] = "waiting" /\ age[s] # "young" /\ ~Starting(s)
    /\ closing' = [closing EXCEPT ![s] = "stream"]
    /\ UNCHANGED <<sidOf, stage, runtime, controller, stream, unheard, age, gaveUp>>

\* EventStream.close has returned: its threads have ended, its queue is empty.
StreamClosed(s) ==
    /\ stream' = [stream EXCEPT ![s] = "closed"]
    /\ unheard' = [unheard EXCEPT ![s] = 0]

\* When the stream is closed the state is saved, the controller closed, and the
\* close of the runtime submitted.
Release(s) ==
    /\ closing[s] = "stream"
    /\ closing' = [closing EXCEPT ![s] = "done"]
    /\ StreamClosed(s)
    /\ controller' = [controller EXCEPT ![s] = IF @ = "none" THEN @ ELSE "closed"]
    /\ runtime' = [runtime EXCEPT ![s] = IF Submits(s) THEN "closing" ELSE @]
    /\ UNCHANGED <<sidOf, stage, age, gaveUp>>

\* The state cannot be written, by save_state itself or when the controller is
\* set to STOPPED.  The exception leaves close(), which does nothing when it is
\* called again: controller and runtime stay open.
Release_Fails(s) ==
    /\ closing[s] = "stream" /\ controller[s] # "none"
    /\ closing' = [closing EXCEPT ![s] = "failed"]
    /\ StreamClosed(s)
    /\ \E c \in {controller[s], "waiting"} :
          controller' = [controller EXCEPT ![s] = c]
    /\ UNCHANGED <<sidOf, stage, runtime, age, gaveUp>>

Close(s) == Close_Begin(s) \/ Close_GiveUp(s) \/ Close_Waited(s)

\* A loop that closes a stream runs nothing else meanwhile.
Blocked == \E s \in Session : closing[s] = "stream"

-----------------------------------------------------------------------------
(* The agent and the time.                                                 *)

\* A pool thread takes an event that sets the agent running, as on_event of the
\* controller does when there is one; the client hears of it (Session._send).
Hear(s) ==
    /\ unheard[s] > 0 /\ stream[s] = "open"
    /\ unheard' = [unheard EXCEPT ![s] = @ - 1]
    /\ controller' = [controller EXCEPT ![s] = IF @ = "none" THEN @ ELSE "running"]
    /\ age' = [age EXCEPT ![s] = IF @ = "idle" THEN "old" ELSE @]
    /\ UNCHANGED <<sidOf, stage, runtime, stream, closing, gaveUp>>

\* The controller stops running, in its thread; the client hears of it.
AgentStops(s) ==
    /\ controller[s] = "running" /\ stream[s] = "open"
    /\ controller' = [controller EXCEPT ![s] = "waiting"]
    /\ age' = [age EXCEPT ![s] = IF @ = "idle" THEN "old" ELSE @]
    /\ UNCHANGED <<sidOf, stage, runtime, stream, unheard, closing, gaveUp>>

TimePasses(s) ==
    /\ Created(s) /\ stage[s] # "new" /\ ~Ended(s)
    /\ age[s] # "idle"
    /\ age' = [age EXCEPT ![s] = IF @ = "young" THEN "old" ELSE "idle"]
    /\ UNCHANGED <<sidOf, stage, runtime, controller, stream, unheard, closing, gaveUp>>
=============================================================================
