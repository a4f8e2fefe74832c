----------------------------- MODULE HistoryInit -----------------------------
(***************************************************************************)
(* The history of the root agent and its restoration after a restart:      *)
(* StateTracker (openhands/controller/state/state_tracker.py).  While the  *)
(* session lives the controller appends to the history what it hears; a    *)
(* restored session computes it from the event store with _init_history,   *)
(* from the start_id that the last saved State contains.  What happens to  *)
(* an event decides its kind here, and its place in the log is its id,     *)
(* which it gets when it is published.  The controller hears it later, and *)
(* another event with a greater id before it if that was queued first.     *)
(***************************************************************************)
EXTENDS Integers, Sequences, SequencesExt

CONSTANTS MaxEvents,    \* bound: events in the log
          MaxRestarts   \* bound: restarts of the session

ASSUME ConstantsAssumption == MaxEvents \in Nat /\ MaxRestarts \in Nat

Kinds == {"kept",        \* any event the history filter includes
          "dropped",     \* hidden, or of a type the filter excludes
          "delegate",    \* AgentDelegateAction
          "result"}      \* AgentDelegateObservation

VARIABLES log,        \* kinds of the stored events, the first one has id 1
          unheard,    \* ids of the events that the controller has yet to hear
          history,    \* ids of the events in state.history
          delegate,   \* id of the action of the active delegate, 0 for none
          startId,    \* state.start_id
          savedStart, \* start_id in the saved State
          restarts,
          late,       \* what this session had yet to hear when a delegate ended
          overtaken   \* whether this session has heard an event before an earlier one

session == <<startId, savedStart, restarts>>
vars == <<log, unheard, history, delegate, session, late, overtaken>>

\* The history never has an event twice, nor one that was not heard, nor a later
\* one first unless it was heard first.
TypeOK ==
    /\ log \in Seq(Kinds)
    /\ history \in Seq(DOMAIN log \ unheard)
    /\ \A i, j \in DOMAIN history : i # j => history[i] # history[j]
    /\ ~overtaken => \A i, j \in DOMAIN history : i < j => history[i] < history[j]
    /\ delegate \in 0..Len(log)
    /\ startId \in Nat /\ savedStart \in Nat /\ restarts \in 0..MaxRestarts
    /\ unheard \subseteq DOMAIN log /\ late \subseteq DOMAIN log
    /\ overtaken \in BOOLEAN

Init == /\ log = <<>> /\ unheard = {} /\ history = <<>> /\ delegate = 0
        /\ startId = 1 /\ savedStart = 1 /\ restarts = 0
        /\ late = {} /\ overtaken = FALSE

-----------------------------------------------------------------------------
(* _init_history.  An event is an id; the argument is what the store's     *)
(* filtered search yields.                                                 *)

Ids == [i \in DOMAIN log |-> i]

\* The entries of s at these positions, in their order: what filtering a list gives.
Picked(s, positions) ==
    LET upTo[n \in 0..Len(s)] ==
            IF n = 0 THEN <<>>
            ELSE IF n \in positions THEN Append(upTo[n - 1], s[n])
            ELSE upTo[n - 1]
    IN  upTo[Len(s)]

Stored_Exclusive(start) ==      \* mutant: start_id itself is left out
    Picked(Ids, {i \in DOMAIN log : i > start /\ log[i] # "dropped"})
Stored(start) ==
    Picked(Ids, {i \in DOMAIN log : i >= start /\ log[i] # "dropped"})

\* Pairs of delegate action and observation, by a stack of unmatched actions.
Pair(acc, i) ==
    CASE log[i] = "delegate" -> [acc EXCEPT !.open = Append(@, i)]
      [] log[i] = "result" /\ acc.open # <<>> ->
           [open |-> Front(acc.open),
            ranges |-> acc.ranges \cup {<<Last(acc.open), i>>}]
      [] OTHER -> acc
DelegateRanges(events) ==
    LET upTo[n \in 0..Len(events)] ==
            IF n = 0 THEN [open |-> <<>>, ranges |-> {}]
            ELSE Pair(upTo[n - 1], events[n])
    IN  upTo[Len(events)].ranges

\* By their actions, of which no two ranges have the same.
Sorted(ranges) ==
    LET starts == Picked(Ids, {r[1] : r \in ranges})
    IN  [k \in DOMAIN starts |-> CHOOSE r \in ranges : r[1] = starts[k]]

\* Where to go on after a delegate range; the mutant stays inside it.
After_Action(events, range) == Picked(events, {k \in DOMAIN events : events[k] > range[1]})
After(events, range) == Picked(events, {k \in DOMAIN events : events[k] > range[2]})

\* Without the events between a delegate action and its observation.
Collapse(acc, events, range) ==
    [out |-> acc.out
             \o Picked(acc.rest, {k \in DOMAIN acc.rest : acc.rest[k] < range[1]})
             \o Picked(events, {k \in DOMAIN events : events[k] \in {range[1], range[2]}}),
     rest |-> After(events, range)]
Filtered(events) ==
    LET sorted == Sorted(DelegateRanges(events))
        upTo[k \in 0..Len(sorted)] ==
            IF k = 0 THEN [out |-> <<>>, rest |-> events]
            ELSE Collapse(upTo[k - 1], events, sorted[k])
        end == upTo[Len(sorted)]
    IN  end.out \o end.rest

\* The start_id it stores: the loop over the ranges has assigned the variable.
NewStart(start) ==
    LET ranges == DelegateRanges(Stored(start))
    IN  IF ranges = {} THEN start ELSE Last(Sorted(ranges))[1]

-----------------------------------------------------------------------------
\* add_event: a new id, and the event is on its way to the controller.
Log(kind) ==
    /\ Len(log) < MaxEvents
    /\ log' = Append(log, kind)

\* Somebody publishes an event: the user, the runtime, the root or its delegate.
Publish(kind) ==
    /\ Log(kind)
    /\ unheard' = unheard \cup {Len(log')}
    /\ UNCHANGED <<history, delegate, session, late, overtaken>>

\* The root decides to delegate, once at a time.
Delegate ==
    /\ delegate = 0 /\ \A i \in unheard : log[i] # "delegate"
    /\ Publish("delegate")

\* The event is taken from the queue, after all that was queued before it.
Heard(i) ==
    /\ i \in unheard
    /\ overtaken' = (overtaken \/ \E j \in unheard : j < i)

\* Without a delegate the root handles the event itself.
HearOwn(i) ==
    /\ Heard(i) /\ delegate = 0 /\ log[i] # "delegate"
    /\ unheard' = unheard \ {i}
    /\ history' = IF log[i] = "dropped" THEN history ELSE Append(history, i)
    /\ UNCHANGED <<log, delegate, session, late>>

StartDelegate(i) ==
    /\ Heard(i) /\ delegate = 0 /\ log[i] = "delegate"
    /\ unheard' = unheard \ {i}
    /\ history' = Append(history, i)
    /\ delegate' = i
    /\ UNCHANGED <<log, session, late>>

\* The delegate gets the event, and may be finished after it.
Forward(i) ==
    /\ Heard(i) /\ delegate # 0
    /\ unheard' = unheard \ {i}
    /\ UNCHANGED <<log, history, delegate, session, late>>

\* Any event ends a delegate that is finished and is itself lost on the root.  The
\* result gets its id now, behind all that was published in the meantime.
EndDelegate(i) ==
    /\ Heard(i) /\ delegate # 0
    /\ \E j \in DOMAIN log \ unheard : j > delegate
    /\ Log("result")
    /\ unheard' = (unheard \ {i}) \cup {Len(log')}
    /\ late' = late \cup (unheard \ {i})
    /\ delegate' = 0
    /\ UNCHANGED <<history, session>>

\* The root changes its state, or is closed: the State is saved.
Save ==
    /\ savedStart' = startId
    /\ UNCHANGED <<log, unheard, history, delegate, startId, restarts, late, overtaken>>

\* The process ends, and the session is restored in a new one, which hears no
\* event of the old one.
Restart ==
    /\ restarts < MaxRestarts
    /\ restarts' = restarts + 1
    /\ history' = Filtered(Stored(savedStart))
    /\ startId' = NewStart(savedStart)
    /\ delegate' = 0
    /\ unheard' = {} /\ late' = {} /\ overtaken' = FALSE
    /\ UNCHANGED <<log, savedStart>>

Next == \/ \E kind \in {"kept", "dropped"} : Publish(kind)
        \/ Delegate
        \/ \E i \in 1..MaxEvents : \/ HearOwn(i) \/ StartDelegate(i)
                                  \/ Forward(i) \/ EndDelegate(i)
        \/ Save \/ Restart

Spec == Init /\ [][Next]_vars

-----------------------------------------------------------------------------
(* What the docstring of _init_history says, without ranges and stacks.    *)

\* A delegate's own event: the last delegate action before it has its result
\* after it, or is the one of the active delegate.
OfDelegate(i) ==
    \E a \in 1..(i - 1) :
        /\ log[a] = "delegate"
        /\ \A j \in (a + 1)..(i - 1) : log[j] \notin {"delegate", "result"}
        /\ log[i] \notin {"delegate", "result"}
        /\ \/ delegate = a
           \/ \E o \in (i + 1)..Len(log) :
                 /\ log[o] = "result"
                 /\ \A j \in (a + 1)..(o - 1) : log[j] \notin {"delegate", "result"}

\* At every moment, live or restored, the history is all that the root has heard,
\* without the dropped events and without its delegates' own events, each event
\* once and in order (state_tracker.py:104-113).  Two things a live session does
\* otherwise: it adds an event of a delegation that it hears after the end of the
\* delegate, and it does not follow the ids where it does not hear in their order.
HistoryIsComplete ==
    ~overtaken =>
        history = Picked(Ids, {i \in DOMAIN log \ unheard :
                                  log[i] # "dropped" /\ (OfDelegate(i) => i \in late)})
=============================================================================
