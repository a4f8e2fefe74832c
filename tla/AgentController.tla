-------------------------- MODULE AgentController --------------------------
(***************************************************************************)
(* openhands/controller/agent_controller.py with the components it talks   *)
(* to over the event stream: Runtime (runtime/base.py), Memory             *)
(* (memory/memory.py) and the session whose loop delivers error status     *)
(* (server/session/session.py).  One root controller, no delegates.        *)
(*                                                                         *)
(* The event stream is what EventStream.tla guarantees to its subscribers: *)
(* every published event gets the next id and reaches each subscriber once *)
(* in the order of the log.  Two threads run controller code: the          *)
(* controller's pool thread ("ctrl": on_event, _step) and the session's    *)
(* loop ("sess": set_agent_state_to(ERROR) for an error status).  What a   *)
(* thread still has to do is a sequence of operations; threads interleave  *)
(* between operations, which end where the code writes a file or waits for *)
(* the LLM.                                                                *)
(***************************************************************************)
EXTENDS Integers, Sequences, FiniteSets

CONSTANTS MaxCalls,   \* bound: tool calls the LLM makes
          MaxMsgs,    \* bound: messages of the user
          MaxStops,   \* bound: presses of the stop button
          MaxFails,   \* bound: failures of the runtime, the memory or the LLM
          Limit,      \* iteration_delta: the initial max_value of the flag
          Retries     \* num_retries: attempts of one LLM call

ASSUME ConstantsAssumption ==
    /\ MaxCalls \in Nat /\ MaxMsgs \in Nat /\ MaxStops \in Nat
    /\ MaxFails \in Nat /\ Limit \in Nat \ {0} /\ Retries \in Nat \ {0}

Threads == {"ctrl", "sess"}
Calls == 1..MaxCalls

AgentState == {"RUNNING", "AWAITING_USER_INPUT", "STOPPED", "FINISHED",
               "REJECTED", "ERROR", "RATE_LIMITED",
               "AWAITING_USER_CONFIRMATION", "USER_CONFIRMED", "USER_REJECTED"}

\* ActionConfirmationStatus; "none" for an action that does not ask.
Confirmation == {"none", "awaiting", "confirmed", "rejected"}

NoId == -1      \* an action that has not been given an id
NoCause == 0    \* ids start at 1
NoCall == 0     \* no tool_call_metadata

Kinds == {"msg", "change",                        \* by the user
          "run", "think", "say", "ask",          \* by the agent
          "finish", "reject",
          "condense",                           \* CondensationAction or Request
          "recall",                               \* by the controller
          "obs", "err", "robs", "null"}           \* observations
Event == [kind : Kinds, id : Nat \cup {NoId}, cause : Nat \cup {NoId},
          call : 0..MaxCalls, arg : Confirmation \cup AgentState]

NewEvent(kind, cause, call, arg) ==
    [kind |-> kind, id |-> NoId, cause |-> cause, call |-> call, arg |-> arg]
NoAction == NewEvent("null", NoCause, NoCall, "none")   \* None

VARIABLES
    nextId,     \* the id the stream gives to the next event
    inC,        \* events on their way to the controller
    inR,        \* actions on their way to the runtime, head = being executed
    inM,        \* recalls on their way to the memory
    wake,       \* an event the memory ignores follows the last recall to it
    shown,      \* the action a client shows confirmation buttons for
    agentState, \* state.agent_state
    pending,    \* _pending_action
    iter,       \* state.iteration_flag.current_value
    maxIter,    \* state.iteration_flag.max_value
    hitLimit,   \* state.iteration_flag._hit_limit
    todo,       \* what each thread still has to do
    statusErrs, \* error status messages queued on the session's loop
    late,       \* those that wait for the memory's own loop to run again
    told,       \* agent state in the last announced change
    saved,      \* agent state in the saved State file
    results,    \* observations in the history, per tool call
    plain,      \* the history holds an observation without tool call
    used,       \* tool calls the LLM has made
    msgs, stops, fails,   \* messages, stops and failures so far
    running,    \* the runtime has begun to execute the head of inR
    executed,   \* history: how often each call has been executed
    approved,   \* history: calls the user confirmed
    ruledOut,   \* history: calls reported as not executed
    forsaken,   \* history: recalls the memory has failed on
    dropped,    \* history: an error status cleared the recall of a message
    unread,     \* history: a message was handled and no LLM call has seen it
    halted      \* history: a stop was handled and no message since

inboxes == <<nextId, inC, inR, inM, shown>>
bus == <<inboxes, wake>>
status == <<statusErrs, late>>
flags == <<iter, maxIter, hitLimit>>
chron == <<results, plain>>
env == <<msgs, stops, fails>>
exec == <<running, executed, approved>>
hist == <<ruledOut, forsaken, dropped, unread, halted>>
vars == <<bus, agentState, pending, flags, todo, status, told, saved,
          chron, used, env, exec, hist>>

\* Operations of a thread; failed counts the attempts of an LLM call so far.
Op(name, arg) == [op |-> name, arg |-> arg, ev |-> NoAction, failed |-> 0]
OpOn(name, e) == [op |-> name, arg |-> "none", ev |-> e, failed |-> 0]
Ops == [op : {"handle", "set", "clear", "reissue", "announce", "publish",
              "pickle", "write", "ensure running", "step unless waiting",
              "step", "llm", "react", "emit"},
        arg : AgentState \cup Confirmation, ev : Event,
        failed : 0..(Retries - 1)]

\* The event stream has given its events an id.
Sent == {e \in Event : e.id \in 1..(nextId - 1)}

TypeOK ==
    /\ nextId \in Nat \ {0}
    /\ inC \in Seq(Sent) /\ inR \in Seq(Sent) /\ inM \in Seq(Sent)
    /\ shown \in Sent \cup {NoAction}
    /\ agentState \in AgentState
    /\ pending \in Event
    /\ iter \in Nat /\ maxIter \in Nat /\ hitLimit \in BOOLEAN
    /\ todo \in [Threads -> Seq(Ops)]
    /\ statusErrs \in Nat /\ late \in Nat /\ wake \in BOOLEAN
    /\ told \in AgentState /\ saved \in AgentState
    /\ results \in [Calls -> Nat] /\ plain \in BOOLEAN
    /\ used \in 0..MaxCalls
    /\ msgs \in 0..MaxMsgs /\ stops \in 0..MaxStops /\ fails \in 0..MaxFails
    /\ running \in BOOLEAN
    /\ executed \in [Calls -> Nat]
    /\ approved \subseteq Calls /\ ruledOut \subseteq Calls
    /\ forsaken \subseteq 1..(nextId - 1)
    /\ dropped \in BOOLEAN /\ unread \in BOOLEAN /\ halted \in BOOLEAN

\* A session that has started without an initial message.
Init ==
    /\ nextId = 1 /\ inC = <<>> /\ inR = <<>> /\ inM = <<>> /\ shown = NoAction
    /\ agentState = "AWAITING_USER_INPUT"
    /\ pending = NoAction
    /\ iter = 0 /\ maxIter = Limit /\ hitLimit = FALSE
    /\ todo = [t \in Threads |-> <<>>]
    /\ statusErrs = 0 /\ late = 0 /\ wake = FALSE
    /\ told = "AWAITING_USER_INPUT" /\ saved = "AWAITING_USER_INPUT"
    /\ results = [c \in Calls |-> 0] /\ plain = FALSE
    /\ used = 0 /\ msgs = 0 /\ stops = 0 /\ fails = 0
    /\ running = FALSE /\ executed = [c \in Calls |-> 0]
    /\ approved = {} /\ ruledOut = {} /\ forsaken = {}
    /\ dropped = FALSE /\ unread = FALSE /\ halted = FALSE

-----------------------------------------------------------------------------
(* add_event, as the subscribers see it.  R and M are the runtime's and    *)
(* the memory's inbox before the event arrives.  Clients show the buttons  *)
(* of an action that is the last entry of the chat.  Announced state       *)
(* changes are not events here: the only subscribers that react to them    *)
(* are the clients (told).                                                 *)

\* The id is given to the object itself, not to a copy.
WithId_OfCopy(e) == e      \* mutant
WithId(e) == [e EXCEPT !.id = nextId]

PublishTo(e, R, M) ==
    LET f == WithId(e) IN
      /\ nextId' = nextId + 1
      /\ inC' = Append(inC, f)
      /\ inR' = IF f.kind \in {"run", "think"} THEN Append(R, f) ELSE R
      /\ inM' = IF f.kind = "recall" THEN Append(M, f) ELSE M
      /\ wake' = (f.kind # "recall" /\ (inM' # <<>> \/ late > 0))
      /\ shown' = IF f.kind = "run" /\ f.arg = "awaiting" THEN f ELSE NoAction

Publish(e) == PublishTo(e, inR, inM)

\* Thread t is about to do o; after it, it does ops before the rest.
Doing(t, name) == todo[t] # <<>> /\ Head(todo[t]).op = name
Arg(t) == Head(todo[t]).arg
Ev(t) == Head(todo[t]).ev
Then(t, ops) == todo' = [todo EXCEPT ![t] = ops \o Tail(@)]
When(b, ops) == IF b THEN ops ELSE <<>>

-----------------------------------------------------------------------------
(* set_agent_state_to and _reset, on either thread.                        *)

Halting == {"STOPPED", "ERROR"}
Decision == {"USER_CONFIRMED", "USER_REJECTED"}

\* _reset: the history already holds an observation with the pending
\* action's tool_call_metadata (None for a recall).
FoundObservation ==
    IF pending.call = NoCall THEN plain ELSE results[pending.call] > 0

\* The ErrorObservation _reset posts for a pending action without a result.
NotExecuted == NewEvent("err", pending.id, pending.call, "none")

\* Up to the first add_event: the new state, the wider iteration limit, and
\* the observation that closes the pending action.
SetState(t) ==
    /\ Doing(t, "set")
    /\ LET new == Arg(t)
           changed == new # agentState
           closes == new \in Halting /\ pending # NoAction /\ ~FoundObservation
           widens == agentState = "ERROR" /\ new = "RUNNING" /\ hitLimit
       IN  /\ agentState' = new
           /\ Then(t, When(changed,
                           When(new \in Halting, <<Op("clear", "none")>>)
                           \o When(new \in Decision, <<Op("reissue", new)>>)
                           \o <<Op("announce", "none")>>))
           /\ IF changed /\ closes
              THEN /\ Publish(NotExecuted)
                   /\ ruledOut' = ruledOut \cup
                        {c \in Calls : new = "STOPPED" /\ pending.call = c}
              ELSE UNCHANGED <<bus, ruledOut>>
           /\ maxIter' = IF changed /\ widens THEN maxIter + Limit ELSE maxIter
           /\ hitLimit' = (hitLimit /\ ~(changed /\ widens))
    /\ UNCHANGED <<pending, iter, status, told, saved, chron, used, env, exec,
                   forsaken, dropped, unread, halted>>

\* The rest of _reset.
ClearPending(t) ==
    /\ Doing(t, "clear")
    /\ pending' = NoAction
    /\ dropped' = (dropped \/ (t = "sess" /\ pending.kind = "recall"))
    /\ Then(t, <<>>)
    /\ UNCHANGED <<bus, agentState, flags, status, told, saved, chron, used,
                   env, exec, ruledOut, forsaken, unread, halted>>

\* The user has decided: the pending action is published again, with the
\* decision and a new id.
Reissue(t) ==
    /\ Doing(t, "reissue")
    /\ IF pending = NoAction THEN UNCHANGED <<bus, pending>>
       ELSE LET decided == [pending EXCEPT !.arg =
                              IF Arg(t) = "USER_CONFIRMED"
                              THEN "confirmed" ELSE "rejected"]
            IN  pending' = WithId(decided) /\ Publish(decided)
    /\ Then(t, <<>>)
    /\ UNCHANGED <<agentState, flags, status, told, saved, chron, used, env,
                   exec, hist>>

\* AgentStateChangedObservation is made, with the state at this moment, and
\* published when the stream's lock is free.
Announce(t) ==
    /\ Doing(t, "announce")
    /\ Then(t, <<Op("publish", agentState), Op("pickle", "none")>>)
    /\ UNCHANGED <<bus, agentState, pending, flags, status, told, saved,
                   chron, used, env, exec, hist>>

PublishState(t) ==
    /\ Doing(t, "publish")
    /\ told' = Arg(t)
    /\ wake' = (inM # <<>> \/ late > 0)
    /\ Then(t, <<>>)
    /\ UNCHANGED <<inboxes, agentState, pending, flags, status, saved, chron,
                   used, env, exec, hist>>

\* save_state: the State is pickled, and the file written afterwards.
PickleState(t) ==
    /\ Doing(t, "pickle")
    /\ Then(t, <<Op("write", agentState)>>)
    /\ UNCHANGED <<bus, agentState, pending, flags, status, told, saved,
                   chron, used, env, exec, hist>>

WriteState(t) ==
    /\ Doing(t, "write")
    /\ saved' = Arg(t)
    /\ Then(t, <<>>)
    /\ UNCHANGED <<bus, agentState, pending, flags, status, told, chron, used,
                   env, exec, hist>>

SetAgentStateTo(t) == \/ SetState(t) \/ ClearPending(t) \/ Reissue(t)
                      \/ Announce(t) \/ PublishState(t)
                      \/ PickleState(t) \/ WriteState(t)

-----------------------------------------------------------------------------
(* on_event, on the controller's thread.                                   *)

Observations == {"obs", "err", "robs", "null"}

\* The thread takes the next event.
OnEvent ==
    /\ todo["ctrl"] = <<>> /\ inC # <<>>
    /\ todo' = [todo EXCEPT !["ctrl"] = <<OpOn("handle", Head(inC))>>]
    /\ inC' = Tail(inC)
    /\ UNCHANGED <<nextId, inR, inM, shown, wake, agentState, pending, flags,
                   status, told, saved, chron, used, env, exec, hist>>

Handling(K) == Doing("ctrl", "handle") /\ Ev("ctrl").kind \in K

\* _handle_message_action for the user: recall first, then run and step.  The
\* recall becomes the pending action whatever was pending before.
HandleUserMessage ==
    /\ Handling({"msg"})
    /\ LET recall == NewEvent("recall", NoCause, NoCall, "none")
       IN  pending' = WithId(recall) /\ Publish(recall)
    /\ unread' = TRUE /\ halted' = FALSE
    /\ Then("ctrl", <<Op("ensure running", "none"), Op("step", "none")>>)
    /\ UNCHANGED <<agentState, flags, status, told, saved, chron, used, env,
                   exec, ruledOut, forsaken, dropped>>

EnsureRunning ==
    /\ Doing("ctrl", "ensure running")
    /\ Then("ctrl", When(agentState # "RUNNING", <<Op("set", "RUNNING")>>))
    /\ UNCHANGED <<bus, agentState, pending, flags, status, told, saved,
                   chron, used, env, exec, hist>>

\* The other actions: a state change asked for by the user, the agent's own
\* messages, its finish or refusal, and condensations, which lead to a step;
\* the rest only enters the history.
HandleAction ==
    /\ Handling(Kinds \ (Observations \cup {"msg"}))
    /\ LET e == Ev("ctrl") IN
         /\ Then("ctrl",
              CASE e.kind = "change" -> <<Op("set", e.arg)>>
                [] e.kind = "finish" -> <<Op("set", "FINISHED")>>
                [] e.kind = "reject" -> <<Op("set", "REJECTED")>>
                [] e.kind = "condense" -> <<Op("step", "none")>>
                [] e.kind = "ask" -> <<Op("set", "AWAITING_USER_INPUT"),
                                       Op("step unless waiting", "none")>>
                [] e.kind = "say" -> <<Op("step unless waiting", "none")>>
                [] OTHER -> <<>>)
         /\ halted' = (halted \/ e.arg = "STOPPED")
    /\ UNCHANGED <<bus, agentState, pending, flags, status, told, saved,
                   chron, used, env, exec, ruledOut, forsaken, dropped,
                   unread>>

\* should_step for an observation: a null observation leads to a step only as
\* the answer to a recall.
StepsOn_NeverNull(e) == e.kind # "null"      \* mutant
StepsOn(e) == e.kind # "null" \/ e.cause > 0

\* _handle_observation and the step.  While the user's confirmation is
\* awaited, the pending action stays.
HandleObservation ==
    /\ Handling(Observations)
    /\ LET e == Ev("ctrl")
           answers == /\ pending # NoAction /\ pending.id = e.cause
                      /\ agentState # "AWAITING_USER_CONFIRMATION"
       IN  /\ results' = IF e.call = NoCall THEN results
                         ELSE [results EXCEPT ![e.call] = @ + 1]
           /\ plain' = (plain \/ (e.call = NoCall /\ e.kind # "null"))
           /\ pending' = IF answers THEN NoAction ELSE pending
           /\ Then("ctrl",
                   When(answers /\ agentState = "USER_CONFIRMED",
                        <<Op("set", "RUNNING")>>)
                   \o When(answers /\ agentState = "USER_REJECTED",
                           <<Op("set", "AWAITING_USER_INPUT")>>)
                   \o When(StepsOn(e), <<Op("step", "none")>>))
    /\ UNCHANGED <<bus, agentState, flags, status, told, saved, used, env,
                   exec, hist>>

\* should_step for a message of the agent.
StepUnlessWaiting ==
    /\ Doing("ctrl", "step unless waiting")
    /\ Then("ctrl", When(agentState # "AWAITING_USER_INPUT",
                         <<Op("step", "none")>>))
    /\ UNCHANGED <<bus, agentState, pending, flags, status, told, saved,
                   chron, used, env, exec, hist>>

-----------------------------------------------------------------------------
(* _step, on the controller's thread.                                      *)

\* The early returns of _step.
MayStep_AnyState == pending = NoAction        \* mutant
MayStep == agentState = "RUNNING" /\ pending = NoAction

\* Up to the call of agent.step: the iteration limit raises before it counts.
StepBegin ==
    /\ Doing("ctrl", "step")
    /\ IF ~MayStep
       THEN Then("ctrl", <<>>) /\ UNCHANGED <<iter, hitLimit, unread>>
       ELSE /\ hitLimit' = (iter >= maxIter)
            /\ IF hitLimit'
               THEN /\ Then("ctrl", <<Op("react", "none")>>)
                    /\ UNCHANGED <<iter, unread>>
               ELSE /\ iter' = iter + 1 /\ unread' = FALSE
                    /\ Then("ctrl", <<Op("llm", "none")>>)
    /\ UNCHANGED <<bus, agentState, pending, maxIter, status, told, saved,
                   chron, used, env, exec, ruledOut, forsaken, dropped,
                   halted>>

\* _is_stuck: the step fails without asking the LLM.
StepStuck ==
    /\ Doing("ctrl", "step") /\ MayStep /\ fails < MaxFails
    /\ fails' = fails + 1
    /\ Then("ctrl", <<Op("react", "none")>>)
    /\ UNCHANGED <<bus, agentState, pending, flags, status, told, saved,
                   chron, used, msgs, stops, exec, hist>>

\* The LLM answers with a runnable tool call, which may need a confirmation:
\* it becomes the pending action before it is published.
LLMRuns(conf) ==
    /\ Doing("ctrl", "llm") /\ used < MaxCalls
    /\ used' = used + 1
    /\ pending' = NewEvent("run", NoCause, used', conf)
    /\ Then("ctrl", When(conf = "awaiting",
                         <<Op("set", "AWAITING_USER_CONFIRMATION")>>)
                    \o <<OpOn("emit", pending')>>)
    /\ UNCHANGED <<bus, agentState, flags, status, told, saved, chron, env,
                   exec, hist>>

\* A tool call that is not runnable: logging a thought.
LLMThinks ==
    /\ Doing("ctrl", "llm") /\ used < MaxCalls
    /\ used' = used + 1
    /\ Then("ctrl", <<OpOn("emit", NewEvent("think", NoCause, used', "none"))>>)
    /\ UNCHANGED <<bus, agentState, pending, flags, status, told, saved,
                   chron, env, exec, hist>>

\* A message (with or without waiting for an answer), the end of the task, or
\* the condenser's action in place of the LLM's.
LLMTalks(kind) ==
    /\ Doing("ctrl", "llm")
    /\ Then("ctrl", <<OpOn("emit", NewEvent(kind, NoCause, NoCall, "none"))>>)
    /\ UNCHANGED <<bus, agentState, pending, flags, status, told, saved,
                   chron, used, env, exec, hist>>

\* A malformed answer is reported to the agent, an exceeded context window asks
\* for a condensation; then _step returns.
LLMUnusable(kind) ==
    /\ Doing("ctrl", "llm")
    /\ Publish(NewEvent(kind, NoCause, NoCall, "none"))
    /\ Then("ctrl", <<>>)
    /\ UNCHANGED <<agentState, pending, flags, status, told, saved, chron,
                   used, env, exec, hist>>

\* The retry decorator: another attempt after a failure that may pass.
LLMRetries ==
    /\ Doing("ctrl", "llm") /\ Head(todo["ctrl"]).failed + 1 < Retries
    /\ Then("ctrl", <<[Head(todo["ctrl"]) EXCEPT !.failed = @ + 1]>>)
    /\ UNCHANGED <<bus, agentState, pending, flags, status, told, saved,
                   chron, used, env, exec, hist>>

\* An exception carries the number of its attempt if before_sleep saw it, which
\* happens only when another attempt follows.
CarriesAttempt(n) == n < Retries

\* _react_to_exception for a RateLimitError of attempt n; no status is sent.
RateLimitState(n) == IF CarriesAttempt(n) /\ n >= Retries
                     THEN "ERROR" ELSE "RATE_LIMITED"

\* The last attempt is refused because of the rate limit.
LLMRateLimited ==
    /\ Doing("ctrl", "llm") /\ fails < MaxFails
    /\ LET n == Head(todo["ctrl"]).failed + 1
       IN  n = Retries /\ Then("ctrl", <<Op("set", RateLimitState(n))>>)
    /\ fails' = fails + 1
    /\ UNCHANGED <<bus, agentState, pending, flags, status, told, saved,
                   chron, used, msgs, stops, exec, hist>>

\* Another exception.
LLMFails ==
    /\ Doing("ctrl", "llm") /\ fails < MaxFails
    /\ fails' = fails + 1
    /\ Then("ctrl", <<Op("react", "none")>>)
    /\ UNCHANGED <<bus, agentState, pending, flags, status, told, saved,
                   chron, used, msgs, stops, exec, hist>>

\* The end of _step: add_event gives the action, and with it the pending
\* action when it is the same object, its id.
EmitAction ==
    /\ Doing("ctrl", "emit")
    /\ Publish(Ev("ctrl"))
    /\ pending' = IF pending = Ev("ctrl") THEN WithId(pending) ELSE pending
    /\ Then("ctrl", <<>>)
    /\ UNCHANGED <<agentState, flags, status, told, saved, chron, used, env,
                   exec, hist>>

\* _react_to_exception: an error status is queued on the session's loop, and
\* the state becomes ERROR.
ReactToException ==
    /\ Doing("ctrl", "react")
    /\ statusErrs' = statusErrs + 1
    /\ Then("ctrl", <<Op("set", "ERROR")>>)
    /\ UNCHANGED <<late, bus, agentState, pending, flags, told, saved, chron,
                   used, env, exec, hist>>

Step == \/ StepBegin \/ StepStuck
        \/ \E conf \in {"none", "awaiting"} : LLMRuns(conf)
        \/ LLMThinks
        \/ \E kind \in {"say", "ask", "finish", "reject", "condense"} :
              LLMTalks(kind)
        \/ \E kind \in {"err", "condense"} : LLMUnusable(kind)
        \/ LLMRetries \/ LLMRateLimited \/ LLMFails
        \/ EmitAction \/ ReactToException

Controller ==
    \/ OnEvent
    \/ HandleUserMessage \/ HandleAction \/ HandleObservation
    \/ EnsureRunning \/ StepUnlessWaiting
    \/ Step
    \/ SetAgentStateTo("ctrl")

-----------------------------------------------------------------------------
(* The runtime, _handle_action on its own pool thread.                     *)

ctlVars == <<agentState, pending, flags, todo, told, saved, chron, used>>

\* An action that awaits confirmation gives a null observation, which is not
\* published.
RuntimeSkips ==
    /\ inR # <<>> /\ Head(inR).arg = "awaiting"
    /\ inR' = Tail(inR)
    /\ UNCHANGED <<nextId, inC, inM, shown, wake, ctlVars, status, env, exec,
                   hist>>

\* Not held back, and not refused.
Executable_Unasked(a) == a.arg # "rejected"     \* mutant
Executable(a) == a.arg \in {"none", "confirmed"}

RuntimeBegins ==
    /\ inR # <<>> /\ ~running /\ Executable(Head(inR))
    /\ running' = TRUE
    /\ executed' = [executed EXCEPT ![Head(inR).call] = @ + 1]
    /\ UNCHANGED <<bus, ctlVars, status, env, approved, hist>>

\* The result of an execution, or UserRejectObservation.
RuntimeAnswers ==
    /\ inR # <<>> /\ (running \/ Head(inR).arg = "rejected")
    /\ LET a == Head(inR) IN
         PublishTo(NewEvent("obs", a.id, a.call, "none"), Tail(inR), inM)
    /\ running' = FALSE
    /\ UNCHANGED <<ctlVars, status, env, executed, approved, hist>>

\* An exception: an error status, and no observation.
RuntimeFails ==
    /\ inR # <<>> /\ running /\ fails < MaxFails
    /\ fails' = fails + 1
    /\ statusErrs' = statusErrs + 1
    /\ inR' = Tail(inR)
    /\ running' = FALSE
    /\ UNCHANGED <<late, nextId, inC, inM, shown, wake, ctlVars, msgs, stops,
                   executed, approved, hist>>

Runtime == RuntimeSkips \/ RuntimeBegins \/ RuntimeAnswers \/ RuntimeFails

-----------------------------------------------------------------------------
(* The memory, _on_event on its own pool thread.                           *)

\* Mutant: a null observation is not published, as the runtime does it.
MemoryAnswers_DropsNull(kind) ==
    /\ inM # <<>> /\ late = 0
    /\ IF kind # "null"
       THEN PublishTo(NewEvent(kind, Head(inM).id, NoCall, "none"),
                      inR, Tail(inM))
       ELSE inM' = Tail(inM) /\ UNCHANGED <<nextId, inC, inR, shown, wake>>
    /\ UNCHANGED <<ctlVars, status, env, exec, hist>>

\* A recall or a null observation, which ends the controller's waiting.
MemoryAnswers(kind) ==
    /\ inM # <<>> /\ late = 0
    /\ PublishTo(NewEvent(kind, Head(inM).id, NoCall, "none"), inR, Tail(inM))
    /\ UNCHANGED <<ctlVars, status, env, exec, hist>>

\* An exception: no observation, and an error status scheduled on the loop of
\* the memory's own thread, which ends its run with this event.
MemoryFails ==
    /\ inM # <<>> /\ late = 0 /\ fails < MaxFails
    /\ fails' = fails + 1
    /\ late' = late + 1
    /\ inM' = Tail(inM)
    /\ forsaken' = forsaken \cup {Head(inM).id}
    /\ UNCHANGED <<nextId, inC, inR, shown, wake, ctlVars, statusErrs, msgs,
                   stops, exec, ruledOut, dropped, unread, halted>>

\* The next event, whatever it is, lets that loop run again: the status goes
\* to the session's loop before the event is looked at.
MemoryWakes ==
    /\ late > 0 /\ (inM # <<>> \/ wake)
    /\ statusErrs' = statusErrs + late
    /\ late' = 0
    /\ wake' = (wake /\ inM # <<>>)
    /\ UNCHANGED <<inboxes, ctlVars, env, exec, hist>>

Memory == MemoryFails \/ MemoryWakes
          \/ \E kind \in {"robs", "null"} : MemoryAnswers(kind)

-----------------------------------------------------------------------------
(* The session's loop, _send_status_message: one error status at a time.   *)

StatusError ==
    /\ todo["sess"] = <<>> /\ statusErrs > 0
    /\ statusErrs' = statusErrs - 1
    /\ todo' = [todo EXCEPT !["sess"] = <<Op("set", "ERROR")>>]
    /\ UNCHANGED <<late, bus, agentState, pending, flags, told, saved, chron,
                   used, env, exec, hist>>

SessionLoop == StatusError \/ SetAgentStateTo("sess")

-----------------------------------------------------------------------------
(* The user, through a client that shows the buttons of an action once.    *)
(* What the client sends is published on the session's loop, between two   *)
(* error statuses.  What a client sees is not ordered with the statuses    *)
(* still queued there.                                                     *)

LoopIsFree == todo["sess"] = <<>>

UserWrites ==
    /\ LoopIsFree /\ msgs < MaxMsgs
    /\ msgs' = msgs + 1
    /\ Publish(NewEvent("msg", NoCause, NoCall, "none"))
    /\ UNCHANGED <<ctlVars, status, stops, fails, exec, hist>>

UserStops ==
    /\ LoopIsFree /\ stops < MaxStops
    /\ stops' = stops + 1
    /\ Publish(NewEvent("change", NoCause, NoCall, "STOPPED"))
    /\ UNCHANGED <<ctlVars, status, msgs, fails, exec, hist>>

UserDecides(decision) ==
    /\ LoopIsFree
    /\ shown # NoAction /\ told = "AWAITING_USER_CONFIRMATION"
    /\ Publish(NewEvent("change", NoCause, NoCall, decision))
    /\ approved' = IF decision = "USER_CONFIRMED"
                   THEN approved \cup {shown.call} ELSE approved
    /\ UNCHANGED <<ctlVars, status, env, running, executed, hist>>

User == UserWrites \/ UserStops \/ \E d \in Decision : UserDecides(d)

Next == Controller \/ Runtime \/ Memory \/ SessionLoop \/ User

Spec == Init /\ [][Next]_vars

\* Every thread goes on with its work; the user need not do anything, and
\* nothing has to fail.
Fairness == /\ WF_vars(Controller) /\ WF_vars(SessionLoop)
            /\ WF_vars(Runtime) /\ WF_vars(Memory)

FairSpec == Spec /\ Fairness

-----------------------------------------------------------------------------
(* Properties.                                                             *)

AtRest == \A t \in Threads : todo[t] = <<>>
Quiet == AtRest /\ inC = <<>> /\ inR = <<>> /\ inM = <<>> /\ statusErrs = 0
         /\ ~(late > 0 /\ wake)

\* A call that asked for confirmation is executed only if the user pressed
\* the button of that very call, and no call is executed twice, whatever
\* messages, stops and errors come between (agent_controller.py:692-702).
OnlyApprovedIsExecuted ==
    [][\A c \in Calls : executed'[c] # executed[c] =>
         /\ executed[c] = 0
         /\ Head(inR).arg = "none" \/ c \in approved]_vars

\* The LLM only makes tool calls: a constraint for AgentController_approval.cfg.
OnlyRunnableCalls ==
    /\ Doing("ctrl", "emit") => Ev("ctrl").kind = "run"
    /\ \A i \in DOMAIN inC : inC[i].kind \in {"err", "condense"}
                                => inC[i].cause # NoCause

\* With one exception: an error status that clears the recall of a message the
\* controller is handling lets the LLM be asked while a decision is still
\* queued, which then confirms the next call.
ExecutedAsApproved ==
    [][\A c \in Calls : executed'[c] # executed[c] =>
         \/ dropped
         \/ /\ executed[c] = 0
            /\ Head(inR).arg = "none" \/ c \in approved]_vars

\* Between handlers, the pending action that keeps a RUNNING agent from taking
\* its next step is on its way to an answer: it is with the runtime or the
\* memory, its answer is coming, or an error that clears it is.  The exception
\* is a recall the memory has failed on (ErrorEndsRun says why).
PendingIsAnswered ==
    AtRest /\ pending # NoAction /\ agentState = "RUNNING"
    => \/ \E i \in DOMAIN inR : inR[i].id = pending.id
       \/ \E i \in DOMAIN inM : inM[i].id = pending.id
       \/ \E i \in DOMAIN inC : /\ inC[i].kind \in Observations
                               /\ inC[i].cause = pending.id
       \/ statusErrs > 0
       \/ pending.id \in forsaken

\* When everything has come to rest the agent is not RUNNING: it waits for the
\* user, has finished, has stopped or reports an error.  A failure of the memory
\* is the exception: its status comes from another thread while the controller's
\* may be starting the next run (ErrorEndsRun).
NeverIdleWhileRunning == Quiet /\ forsaken = {} => agentState # "RUNNING"

\* Once a stop has been handled the LLM is not asked again before the user
\* writes, not even on behalf of results that arrive late.
StopHolds == halted => ~Doing("ctrl", "llm")

\* What a restart would load is the state the agent is in.
SavedStateIsCurrent == AtRest => saved = agentState

\* A call reported to the agent as not executed has not been executed.
NotExecutedIsTrue == \A c \in ruledOut : executed[c] = 0

\* The LLM is not asked while the runtime still has a runnable action whose
\* result is missing from the history (agent_controller.py:623-625, 862-870).
CallsAreAnswered ==
    Doing("ctrl", "llm") =>
        \A i \in DOMAIN inR : inR[i].kind = "run" => results[inR[i].call] > 0

\* Under fairness every run of the agent comes to an end: by an answer, the
\* iteration limit, a stop or an error, unless the memory has failed.
RunsEnd == agentState = "RUNNING" ~>
               (agentState # "RUNNING" \/ forsaken # {})

\* A reported error ends the run (session.py:436-464): after the status of a
\* failed recall nobody waits for it.
ErrorEndsRun == Quiet /\ late = 0 => agentState # "RUNNING"

\* A rate-limited agent is still retrying (agent_controller.py:360), or has been
\* set to ERROR when all retries are exhausted (agent_controller.py:354).
RateLimitedRetries == Quiet => agentState # "RATE_LIMITED"

\* A failure of the memory is reported: its status does not wait for events
\* that may never come (memory.py:367-380).
FailureIsReported == Quiet => late = 0

\* A message of the user that was handled reaches the LLM, unless the agent
\* was stopped or failed.
MessageIsRead == Quiet /\ unread => agentState \in Halting
=============================================================================
