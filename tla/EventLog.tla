------------------------------ MODULE EventLog ------------------------------
(***************************************************************************)
(* What the event stream promises to its users (openhands/events/stream.py,*)
(* without files, locks, queues and threads): one log of events with       *)
(* distinct ids, and subscribers that each join once, handle the events    *)
(* from where they joined one by one in the order of the log, and handle   *)
(* nothing any more once they have left.  A restart begins a new log.      *)
(***************************************************************************)
EXTENDS Integers, Sequences

CONSTANTS Event, Subs

VARIABLES log,      \* the events published in this life of the process
          member,   \* "never", "in" or "left" for each subscriber
          from,     \* length of the log at which each subscriber joined
          seen      \* the events each subscriber has handled

vars == <<log, member, from, seen>>

Init == /\ log = <<>>
        /\ member = [s \in Subs |-> "never"]
        /\ from = [s \in Subs |-> 0]
        /\ seen = [s \in Subs |-> <<>>]

\* add_event has put an event with a new id on the queue.
Publish == /\ Len(log') = Len(log) + 1
           /\ LET e == log'[Len(log')]
              IN  /\ e \in Event
                  /\ \A i \in DOMAIN log : log[i].id # e.id
                  /\ log' = Append(log, e)
           /\ UNCHANGED <<member, from, seen>>

\* subscribe; events published but not yet dispatched may still be handled.
Join(s) == /\ member[s] = "never"
           /\ member' = [member EXCEPT ![s] = "in"]
           /\ \E n \in 0..Len(log) : from' = [from EXCEPT ![s] = n]
           /\ UNCHANGED <<log, seen>>

\* The callback returns from handling the next event.
Handle(s) == /\ member[s] = "in"
             /\ from[s] + Len(seen[s]) < Len(log)
             /\ seen' = [seen EXCEPT
                          ![s] = Append(@, log[from[s] + Len(seen[s]) + 1])]
             /\ UNCHANGED <<log, member, from>>

\* unsubscribe, or close.
Leave(s) == /\ member[s] = "in"
            /\ member' = [member EXCEPT ![s] = "left"]
            /\ UNCHANGED <<log, from, seen>>

\* A new EventStream object.
Restart == /\ log' = <<>>
           /\ member' = [s \in Subs |-> "never"]
           /\ from' = [s \in Subs |-> 0]
           /\ seen' = [s \in Subs |-> <<>>]

Next == \/ Publish \/ Restart
        \/ \E s \in Subs : Join(s) \/ Handle(s) \/ Leave(s)

Spec == Init /\ [][Next]_vars
=============================================================================
