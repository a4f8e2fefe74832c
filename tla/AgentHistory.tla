---------------------------- MODULE AgentHistory ----------------------------
(***************************************************************************)
(* The history the agent works with, over a session: the controller hears  *)
(* the events of the stream one by one, appends them to the history, and   *)
(* steps the agent, which condenses its view or asks the LLM               *)
(* (agent_controller.py:477-1008, codeact_agent.py:183-225).  When the     *)
(* stuck detector has found a loop, the user may have it cut out of the    *)
(* history; a crash restores the history from the event store.             *)
(* The runtime and the memory answer at any time, the user writes at any   *)
(* time; handling one event, with the step that follows, is one action,    *)
(* and AgentController.tla has what happens in between.                    *)
(***************************************************************************)
EXTENDS StuckDetector

CONSTANTS Pipelines,     \* condenser pipelines a session may have
          Says,          \* agent messages: "say" goes on, "ask" waits for the user
          Results,       \* what tool calls end in: "result", "error"
          Options,       \* of the loop recovery: 1, 2, 3
          Headless,
          MaxMessages, MaxAsks, MaxTooLong, MaxRecoveries, MaxCrashes,  \* bounds
          MaxOvertaken                         \* events heard before earlier ones

ASSUME ChoicesAssumption ==
    /\ Says \subseteq {"say", "ask"} /\ Results \subseteq {"result", "error"}
    /\ Options \subseteq 1..3 /\ Headless \in BOOLEAN

\* A pipeline has one of the two condensers that count events, or none
\* (session.py:230-240).
ASSUME PipelinesAssumption ==
    \A p \in Pipelines :
        /\ p \in Seq({"window", "summarizing", "amortized"})
        /\ ~({"summarizing", "amortized"} \subseteq Range(p))

VARIABLES log,       \* the event stream
          heard,     \* the greatest id the controller has heard
          skipped,   \* earlier ids it has not: events still on their way to it
          overtaken, \* how often it heard an event before an earlier one
          history,   \* state.history
          cache,     \* state._history_checksum and state._view, unhandled request
          endId,     \* state.end_id, 0 for -1
          saved,     \* end_id in the saved State
          mode,      \* state.agent_state; "failed": error after an exception
          pending,   \* id of the pending action, 0 for none
          open,      \* recalls and calls that will be answered
          analysis,  \* stuck_analysis.loop_start_idx
          pipeline,
          asks, tooLong, recoveries, crashes   \* counted for the bounds

counters == <<asks, tooLong, recoveries, crashes>>
vars == <<log, heard, skipped, overtaken, history, cache, endId, saved, mode,
          pending, open, analysis, pipeline, counters>>

NoCache == [checksum |-> -1, view |-> <<>>, unhandled |-> FALSE]

\* add_event gives the next ids.
Numbered(events) ==
    [k \in DOMAIN events |-> [events[k] EXCEPT !.id = Len(log) + k]]
NextId == Len(log) + 1
Publish(events) == log' = log \o Numbered(events)

\* The history filter: a NullObservation is heard, and not part of history.
Included(e) == e.kind # "null"

Init == /\ log = <<Event(1, "system", 0, "")>>
        /\ heard = 0 /\ skipped = {} /\ overtaken = 0
        /\ history = <<>> /\ cache = NoCache
        /\ endId = 0 /\ saved = 0
        /\ mode = "awaiting" /\ pending = 0 /\ open = {} /\ analysis = NoLoop
        /\ pipeline \in Pipelines
        /\ asks = 0 /\ tooLong = 0 /\ recoveries = 0 /\ crashes = 0

-----------------------------------------------------------------------------
(* The user, the memory and the runtime                                    *)

\* The event type of an entry, and the entries of the log in the bound's count.
Messages == {i \in DOMAIN log : log[i].kind = "message"}

UserWrites ==
    /\ Cardinality(Messages) < MaxMessages
    /\ Publish(<<Event(0, "message", 0, "m")>>)
    /\ UNCHANGED <<heard, skipped, overtaken, history, cache, endId, saved, mode,
                   pending, open, analysis, pipeline, counters>>

\* The memory answers recalls in their order, maybe with a NullObservation.
MemoryAnswers ==
    \E kind \in {"recalled", "null"} :
        LET recalls == {id \in open : log[id].kind = "recall"}
        IN  /\ recalls # {}
            /\ Publish(<<Event(0, kind, MinOf(recalls), "")>>)
            /\ open' = open \ {MinOf(recalls)}
            /\ UNCHANGED <<heard, skipped, overtaken, history, cache, endId, saved,
                           mode, pending, analysis, pipeline, counters>>

ToolEnds ==
    \E kind \in Results, id \in {i \in open : log[i].kind = "call"} :
        /\ Publish(<<Event(0, kind, id, log[id].what)>>)
        /\ open' = open \ {id}
        /\ UNCHANGED <<heard, skipped, overtaken, history, cache, endId, saved,
                       mode, pending, analysis, pipeline, counters>>

\* A client that was told of the loop chooses how to go on.
UserRecovers ==
    /\ mode = "error" /\ analysis # NoLoop /\ recoveries < MaxRecoveries
    /\ recoveries' = recoveries + 1
    /\ \E option \in Options :
        Publish(<<Event(0, "recovery", option, "")>>)
    /\ UNCHANGED <<heard, skipped, overtaken, history, cache, endId, saved, mode,
                   pending, open, analysis, pipeline, asks, tooLong, crashes>>

-----------------------------------------------------------------------------
(* One step of the controller: stuck, condensed, or an answer of the LLM.  *)
(* h is the history with the event that made it step, m the agent state    *)
(* and out what handling the event has published.                          *)

\* State.view: a cached view counts for every history of its length.  The
\* mutant computes no view for a history that has grown by one event.
FreshCache(h) == [checksum |-> Len(h), view |-> ViewOf(h), unhandled |-> Unhandled(h)]
CacheFor_Lags(h) ==
    IF Len(h) \in {cache.checksum, cache.checksum + 1} THEN cache ELSE FreshCache(h)
CacheFor(h) == IF Len(h) = cache.checksum THEN cache ELSE FreshCache(h)

\* set_agent_state_to saves the State when the agent state changes.
SetMode(m, end) ==
    /\ mode' = m
    /\ endId' = end
    /\ saved' = IF m = mode THEN saved ELSE end

\* The agent has decided on its next event.
Acts(event, m) ==
    /\ Publish(<<event>>)
    /\ SetMode(m, endId)
    /\ pending' = IF event.kind = "call" THEN NextId ELSE 0
    /\ open' = IF event.kind = "call" THEN open \cup {NextId} ELSE open

GetsStuck(h) ==
    /\ LoopStart(h, Headless) # NoLoop
    /\ SetMode("error", endId)
    /\ UNCHANGED <<log, cache, pending, open, asks, tooLong>>

Condenses(condensed, m) ==
    /\ IF condensed[1] = Raised
       THEN SetMode("failed", endId) /\ UNCHANGED <<log, pending, open>>
       ELSE Acts(condensed[1], m)
    /\ UNCHANGED <<asks, tooLong>>

AsksLLM(m) ==
    /\ asks < MaxAsks
    /\ asks' = asks + 1
    /\ \/ /\ \/ Acts(Event(0, "call", 0, "c"), m)
             \/ \E kind \in Says : Acts(Event(0, kind, 0, "s"), m)
          /\ UNCHANGED tooLong
       \/ /\ tooLong < MaxTooLong          \* the context window is exceeded
          /\ tooLong' = tooLong + 1
          /\ Acts(Event(0, "request", 0, ""), m)

Step(h, m) ==
    LET next == CacheFor(h)
        condensed == Condensed(pipeline, next.view, next.unhandled)
    IN  /\ analysis' = Analysis(h, Headless, analysis)
        /\ \/ GetsStuck(h)
           \/ /\ LoopStart(h, Headless) = NoLoop
              /\ cache' = next
              /\ IF condensed # <<>> THEN Condenses(condensed, m) ELSE AsksLLM(m)

-----------------------------------------------------------------------------
(* _on_event: add to the history, handle, and step                         *)

\* add_event numbers an event under the lock and queues it after: the event of
\* another producer with a later id may be queued, and heard, before it.  One
\* thread queues its events in order, and only a heard event is answered.
Producer(e) == CASE e.kind \in {"message", "recovery"} -> "user"
                 [] e.kind \in {"recalled", "null"} -> "memory"
                 [] e.kind \in {"result", "error"} /\ e.what # "stopped" -> "runtime"
                 [] OTHER -> "controller"
MayOvertake(i, j) ==
    \A k \in j + 1..i :
        /\ Producer(log[k]) # Producer(log[j])
        /\ log[k].kind # "recovery" => log[k].of # j

Hearing(e) ==
    \E i \in skipped \cup heard + 1..Len(log) :
        /\ e = log[i]
        /\ \A j \in skipped \cup heard + 1..i - 1 : j < i => MayOvertake(i, j)
        /\ overtaken' = IF i > heard + 1 THEN overtaken + 1 ELSE overtaken
        /\ overtaken' <= MaxOvertaken
        /\ heard' = IF i > heard THEN i ELSE heard
        /\ skipped' = (skipped \cup heard + 1..i - 1) \ {i}

Longer(e) == IF Included(e) THEN Append(history, e) ELSE history
Runs == mode = "running" /\ pending = 0
NoStep == UNCHANGED <<cache, analysis, asks, tooLong>>

\* A user message asks the memory first: the recall is the pending action.
HearMessage ==
    \E e \in {log[i] : i \in DOMAIN log} :
        /\ Hearing(e) /\ e.kind = "message"
        /\ history' = Longer(e)
        /\ Publish(<<Event(0, "recall", 0, e.what)>>)
        /\ pending' = NextId /\ open' = open \cup {NextId}
        /\ SetMode("running", endId)
        /\ NoStep /\ UNCHANGED <<pipeline, recoveries, crashes>>

\* An observation or a NullObservation answers the pending action, or none.
HearAnswer ==
    \E e \in {log[i] : i \in DOMAIN log} :
        /\ Hearing(e) /\ e.kind \in Observations \cup {"null"}
        /\ history' = Longer(e)
        /\ IF mode = "running" /\ pending \in {0, e.of}
           THEN Step(Longer(e), mode)
           ELSE /\ pending' = IF pending = e.of THEN 0 ELSE pending
                /\ NoStep /\ UNCHANGED <<log, endId, saved, mode, open>>
        /\ UNCHANGED <<pipeline, recoveries, crashes>>

\* A condensation or a request, or a message of the agent's own.
HearOwn ==
    \E e \in {log[i] : i \in DOMAIN log} :
        /\ Hearing(e) /\ e.kind \in {"condensation", "request", "say"}
        /\ history' = Longer(e)
        /\ IF Runs THEN Step(Longer(e), mode)
                   ELSE NoStep /\ UNCHANGED <<log, endId, saved, mode, pending, open>>
        /\ UNCHANGED <<pipeline, recoveries, crashes>>

\* Events that make nobody step; a question makes the agent wait.
HearRest ==
    \E e \in {log[i] : i \in DOMAIN log} :
        /\ Hearing(e) /\ e.kind \in {"system", "recall", "call", "ask"}
        /\ history' = Longer(e)
        /\ SetMode(IF e.kind = "ask" THEN "awaiting" ELSE mode, endId)
        /\ NoStep
        /\ UNCHANGED <<log, pending, open, pipeline, recoveries, crashes>>

\* _truncate_memory_to_point, and the end_id that goes with it.
Cut(h) == IF analysis >= Len(h) THEN h ELSE SubSeq(h, 1, analysis)
CutEnd(h) == IF analysis >= Len(h) THEN endId
             ELSE IF analysis = 0 THEN 0 ELSE h[analysis].id

\* _perform_loop_recovery: without the loop, wait for new instructions.
RecoverByUser(h) ==
    /\ history' = Cut(h)
    /\ SetMode("awaiting", CutEnd(h))
    /\ Publish(<<Event(0, "loop", 0, "")>>)
    /\ UNCHANGED <<pending, open>>

\* _restart_with_last_user_message: handles that message again.
RecoverByMessage(h) ==
    /\ history' = Cut(h)
    /\ SetMode("running", CutEnd(h))
    /\ Publish(<<Event(0, "loop", 0, ""), Event(0, "recall", 0, h[LastUser(h)].what)>>)
    /\ pending' = NextId + 1 /\ open' = open \cup {NextId + 1}

\* _reset: a pending call that has no result in the history gets an error.
Drops(h) ==
    /\ pending' = 0
    /\ Publish(IF /\ pending # 0 /\ log[pending].kind = "call"
                  /\ \A i \in DOMAIN h : h[i].of # pending
               THEN <<Event(0, "error", pending, "stopped")>> ELSE <<>>)

HearRecovery ==
    \E e \in {log[i] : i \in DOMAIN log} :
        /\ Hearing(e) /\ e.kind = "recovery"
        /\ CASE analysis # NoLoop /\ e.of = 3 ->
                  /\ history' = Longer(e)
                  /\ SetMode("stopped", endId)
                  /\ Drops(Longer(e)) /\ UNCHANGED open
             [] analysis # NoLoop /\ e.of = 2 /\ LastUser(Longer(e)) # 0 ->
                  RecoverByMessage(Longer(e))
             [] analysis # NoLoop /\ (e.of = 1 \/ LastUser(Longer(e)) = 0) ->
                  RecoverByUser(Longer(e))
             [] OTHER ->
                  /\ history' = Longer(e)
                  /\ UNCHANGED <<log, endId, saved, mode, pending, open>>
        /\ NoStep /\ UNCHANGED <<pipeline, recoveries, crashes>>

-----------------------------------------------------------------------------
\* The process dies, and the session is restored: _init_history loads what the
\* store has up to the saved end_id, and no cached view survives.
Stored(end) ==
    Picked(log, {i \in DOMAIN log : Included(log[i]) /\ (end = 0 \/ log[i].id <= end)})

Crash ==
    /\ crashes < MaxCrashes
    /\ crashes' = crashes + 1
    /\ history' = Stored(saved)
    /\ endId' = saved
    /\ heard' = Len(log) /\ skipped' = {}
    /\ cache' = NoCache /\ pending' = 0 /\ open' = {} /\ analysis' = NoLoop
    /\ mode' = "awaiting"
    /\ UNCHANGED <<log, overtaken, saved, pipeline, asks, tooLong, recoveries>>

Next == \/ UserWrites \/ MemoryAnswers \/ ToolEnds \/ UserRecovers
        \/ HearMessage \/ HearAnswer \/ HearOwn \/ HearRest \/ HearRecovery
        \/ Crash

Spec == Init /\ [][Next]_vars
-----------------------------------------------------------------------------
(* Properties                                                              *)

\* The controller's own events are in the log, and the answers still to come
\* are for recalls and calls.
TypeOK ==
    /\ heard \in 0..Len(log) /\ skipped \subseteq 1..heard /\ overtaken \in Nat
    /\ \A i \in DOMAIN log : log[i].id = i
    /\ \A i \in DOMAIN history : history[i] = log[history[i].id]
    /\ \A i, j \in DOMAIN history : i < j => history[i].id # history[j].id
    /\ overtaken = 0 =>
        \A i, j \in DOMAIN history : i < j => history[i].id < history[j].id
    /\ endId \in 0..Len(log) /\ saved \in 0..Len(log)
    /\ mode \in {"running", "awaiting", "error", "failed", "stopped"}
    /\ pending \in 0..Len(log)
    /\ \A i \in open : log[i].kind \in {"recall", "call"}
    /\ analysis \in NoLoop..Len(log)

\* What a view selects from, and what the condensations of a history have
\* forgotten with a summary and without one.
Told(h) == Picked(h, {i \in DOMAIN h : h[i].kind \notin {"condensation", "request"}})
TakenBy(h, summarized) ==
    UNION {h[i].forget : i \in {j \in Condensations(h) :
                                   (h[j].summary # NoSummary) = summarized}}

\* Whatever summarizing condensers have taken out of the view, however often and
\* with window condensations in between, is in the one summary that is left: "a
\* special summarization event after the prefix that summarizes all previous
\* summarizations and newly forgotten events" (llm_summarizing_condenser.py:18-23).
\* A window condensation that takes an event of that prefix lets others move up
\* into it, which a summary written meanwhile does not cover.  And when a loop is
\* cut out, condensations may be cut with it that a later summary relies on.
\* Events that were heard out of the order of their ids are another exception: a
\* condensation takes all ids from its first to its last event, and so an event of
\* the head or the tail, or one not heard yet, that no summary was written from.
PrefixStays(h) ==
    \A i \in DOMAIN Told(h) : i <= KeepFirst => Told(h)[i].id \notin TakenBy(h, FALSE)
SummaryIsComplete ==
    LET shown == UNION {e.summary.covers : e \in Range(ViewOf(history))}
    IN  overtaken = 0 /\ recoveries = 0 /\ PrefixStays(history) =>
            \A e \in Range(Told(history)) :
                e.id \in TakenBy(history, TRUE) \ TakenBy(history, FALSE) => e.id \in shown

\* The agent never loses its system prompt or the task: no sequence of window
\* and size condensations takes the first user message out of the view, as long
\* as events are heard in the order of their ids.
TaskIsKept == overtaken = 0 =>
    \A kind \in {"system", "message"} :
        LET first == SelectInSeq(history, LAMBDA e : e.kind = kind)
        IN  first # 0 => history[first] \in Range(ViewOf(history))

\* A condenser raises an error, which every later step repeats, only when it may
\* keep nothing of the tail, or when the context window is exceeded by a view that
\* is short already and no window condenser is in front.
OnlyShortViewsFail ==
    [][mode' = "failed" /\ mode # "failed" =>
        \/ "summarizing" \in Range(pipeline) /\ FromTail(KeepFirst) = 0
        \/ /\ cache'.unhandled /\ pipeline[1] # "window"
           /\ Len(cache'.view) <= MaxSize \div 2]_vars

\* The agent has decided on an event (agent_controller.py:901-1004).
Decided ==
    /\ Len(log') > Len(log)
    /\ log'[Len(log')].kind \in {"call", "say", "ask", "request", "condensation"}

\* What it decides is decided on a view of the history as it is (state.py:298-311).
ViewIsCurrent == [][Decided => cache'.view = ViewOf(history')]_vars

\* ... as long as no loop was cut out of the history.
ViewIsCurrentUnlessCut ==
    [][Decided /\ endId = 0 => cache'.view = ViewOf(history')]_vars

\* A condensation by size leaves half of the maximum, so that the next one is
\* not due at once.
CondensationShrinks ==
    [][LET new == log'[Len(log')]
       IN  Decided /\ new.kind = "condensation" /\ new.summary.offset >= 0 /\ endId = 0
           => Len(ViewOf(Append(history', new))) <= MaxSize \div 2]_vars

\* A restart takes no message of the user from the history that the agent worked
\* with: "Always load from the event stream to avoid losing history"
\* (agent_controller.py:1088).
MessagesIn(h) == {e \in Range(h) : e.kind = "message"}
RestartKeepsMessages ==
    [][crashes' > crashes => MessagesIn(history) \subseteq MessagesIn(history')]_vars
=============================================================================
