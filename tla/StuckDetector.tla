---------------------------- MODULE StuckDetector ----------------------------
(***************************************************************************)
(* StuckDetector.is_stuck (openhands/controller/stuck.py): from which      *)
(* event of the history on the agent goes in circles.  The result is the   *)
(* number of events before the loop (loop_start_idx), or NoLoop.  The      *)
(* IPython branches of the second scenario compare the lines of a syntax   *)
(* error; they are "error" results here.                                   *)
(***************************************************************************)
EXTENDS AgentView

NoLoop == -1

\* Equality of events ignores their ids and causes (_eq_no_pid, __eq__).
Same(e, f) == /\ e.kind = f.kind /\ e.what = f.what
              /\ e.forget = f.forget /\ e.summary = f.summary

\* What is checked: everything but user messages, or in interactive mode what
\* follows the last of them (stuck.py:49-78).
LastUser(h) == SelectLastInSeq(h, LAMBDA e : e.kind = "message")
Offset(h, headless) == IF headless THEN 0 ELSE LastUser(h)
Checked(h, headless) ==
    LET recent == SubSeq(h, Offset(h, headless) + 1, Len(h))
    IN  Picked(recent, {i \in DOMAIN recent : recent[i].kind # "message"})

\* The last n actions or observations, the latest one first.
Latest(s, n) == [i \in 1..MinOf({n, Len(s)}) |-> s[Len(s) + 1 - i]]
Observed(f) == {i \in DOMAIN f : f[i].kind \in Observations}
LastActions(f, n) == Latest(Picked(f, DOMAIN f \ Observed(f)), n)
LastObservations(f, n) == Latest(Picked(f, Observed(f)), n)

AllSame(s) == \A i \in DOMAIN s : Same(s[i], s[1])
Alternating(s) == \A i \in 1..Len(s) - 2 : Same(s[i], s[i + 2])

\* filtered_history.index(event): the first equal event, from 0.
IndexOf(f, e) == SelectInSeq(f, LAMBDA x : Same(x, e)) - 1

\* Scenarios 1 and 2: the same action, with the same observation or an error.
Repeating(f) ==
    LET acts == LastActions(f, 4)
        seen == LastObservations(f, 4)
        observed == /\ Len(acts) = 4 /\ Len(seen) = 4
                    /\ AllSame(acts) /\ AllSame(seen)
        failing == /\ Len(acts) >= 3 /\ Len(seen) >= 3
                   /\ AllSame(SubSeq(acts, 1, 3))
                   /\ \A i \in 1..3 : seen[i].kind = "error"
    IN  IF observed \/ failing THEN IndexOf(f, acts[Len(acts)]) ELSE NoLoop

\* Scenario 3: the last three messages of the agent are the same, and nothing
\* was observed between them.
Monologue(f) ==
    LET said == Picked([i \in DOMAIN f |-> i],
                       {i \in DOMAIN f : f[i].kind \in {"say", "ask"}})
        last == [k \in 1..3 |-> said[Len(said) - 3 + k]]
    IN  IF /\ Len(said) >= 3
           /\ \A k \in 1..3 : Same(f[last[k]], f[last[1]])
           /\ \A i \in last[1]..last[3] : f[i].kind \notin Observations
        THEN last[1] - 1 ELSE NoLoop

\* Scenario 4: two actions and their observations take turns.
Pattern(f) ==
    LET acts == LastActions(f, 6)
        seen == LastObservations(f, 6)
    IN  IF Len(acts) = 6 /\ Len(seen) = 6 /\ Alternating(acts) /\ Alternating(seen)
        THEN IndexOf(f, acts[6]) ELSE NoLoop

\* Scenario 5: ten condensation observations, two of them neighbours.  Only views
\* contain such an observation, so that a history never shows this loop.
ContextLoop(f) ==
    LET all == Picked([i \in DOMAIN f |-> i], {i \in DOMAIN f : f[i].kind = "summary"})
        pairs == {k \in Len(all) - 9..Len(all) - 1 : all[k + 1] = all[k] + 1}
    IN  IF Len(all) >= 10 /\ pairs # {} THEN all[MinOf(pairs)] - 1 ELSE NoLoop

\* The scenarios in their order; fewer than three events show nothing.
LoopStart(h, headless) ==
    LET f == Checked(h, headless)
        starts == <<Repeating(f), Monologue(f), Pattern(f), ContextLoop(f)>>
        first == SelectInSeq(starts, LAMBDA start : start # NoLoop)
    IN  IF Len(f) < 3 \/ first = 0 THEN NoLoop
        ELSE starts[first] + Offset(h, headless)

\* What stuck_analysis is after the check: short histories leave it as it was.
Analysis(h, headless, old) ==
    IF Len(Checked(h, headless)) < 3 THEN old ELSE LoopStart(h, headless)
=============================================================================
