------------------------------ MODULE AgentView ------------------------------
(***************************************************************************)
(* What the agent sees of its history: View.from_events                    *)
(* (openhands/memory/view.py) and the condensers that decide what a view   *)
(* leaves out (openhands/memory/condenser).  Ids start at 1 here, and the  *)
(* summary that a view contains, which has no id in the code (-1), has 0.  *)
(* A summary is the set of the events whose content it was written from.   *)
(***************************************************************************)
EXTENDS Integers, Sequences, FiniteSets, SequencesExt

CONSTANTS KeepFirst, \* keep_first and max_size of the summarizing and of the
          MaxSize    \* amortized condenser

\* What the constructors accept (llm_summarizing_condenser.py:32-39,
\* amortized_forgetting_condenser.py:26-33).
ASSUME SizesAssumption ==
    /\ KeepFirst \in Nat /\ MaxSize \in Nat
    /\ KeepFirst < MaxSize \div 2

Observations == {"recalled", "result", "error", "loop", "summary"}

NoSummary == [offset |-> -1, covers |-> {}]

\* An event: what it is, the event it answers (cause), its content, and for
\* a CondensationAction the forgotten ids and the summary.
Entry(id, kind, of, what, forget, summary) ==
    [id |-> id, kind |-> kind, of |-> of, what |-> what,
     forget |-> forget, summary |-> summary]

Event(id, kind, of, what) == Entry(id, kind, of, what, {}, NoSummary)

SummaryEvent(covers) ==
    Entry(0, "summary", 0, "", {}, [offset |-> -1, covers |-> covers])

IdsOf(s) == {s[i].id : i \in DOMAIN s}
MinOf(S) == CHOOSE x \in S : \A y \in S : x <= y
MaxOf(S) == CHOOSE x \in S : \A y \in S : x >= y

\* The entries of s at these positions, in their order: SelectSeq with a set of
\* positions for the test, in a form that the proofs can expand.
Picked(s, positions) ==
    LET upTo[n \in 0..Len(s)] ==
            IF n = 0 THEN <<>>
            ELSE IF n \in positions THEN Append(upTo[n - 1], s[n])
            ELSE upTo[n - 1]
    IN  upTo[Len(s)]

-----------------------------------------------------------------------------
(* View.from_events                                                        *)

Condensations(h) == {i \in DOMAIN h : h[i].kind = "condensation"}

Forgotten(h) ==
    (UNION {h[i].forget \cup {h[i].id} : i \in Condensations(h)})
        \cup {h[i].id : i \in {j \in DOMAIN h : h[j].kind = "request"}}

\* Of the condensations with a summary, the last one counts.

ViewOf(h) ==
    LET forgotten == Forgotten(h)
        kept == Picked(h, {i \in DOMAIN h : h[i].id \notin forgotten})
        summaries == {i \in Condensations(h) : h[i].summary.offset >= 0}
        summary == h[MaxOf(summaries)].summary
        place == MinOf({summary.offset, Len(kept)}) + 1
    IN  IF summaries = {} THEN kept
        ELSE InsertAt(kept, place, SummaryEvent(summary.covers))

\* A request that no later condensation has answered.
Unhandled(h) ==
    \E i \in DOMAIN h : /\ h[i].kind = "request"
                        /\ \A j \in Condensations(h) : j < i

-----------------------------------------------------------------------------
(* The condensers.  Each yields a CondensationAction without an id; the    *)
(* ones that fail (min() of nothing, an index out of range) yield Raised.  *)

Raised == Event(0, "raised", 0, "")
Condensation(forget, summary) == Entry(0, "condensation", 0, "", forget, summary)

\* The system message, the first user message, and its recall and the answer:
\* positions in the view (conversation_window_condenser.py:37-100).
FirstUser_Last(v) == SelectLastInSeq(v, LAMBDA e : e.kind = "message")  \* mutant
FirstUser(v) == SelectInSeq(v, LAMBDA e : e.kind = "message")
Essential(v) ==
    LET user == FirstUser(v)
        system == SelectInSeq(v, LAMBDA e : e.kind = "system")
        recall == SelectInSeq(v, LAMBDA e : /\ e.kind = "recall"
                                            /\ e.id > v[user].id
                                            /\ e.what = v[user].what)
        answer == SelectInSeq(v, LAMBDA e : /\ e.kind \in Observations
                                            /\ e.of = v[recall].id)
    IN  {system, user, recall, IF recall = 0 THEN 0 ELSE answer} \ {0}

\* ConversationWindowCondenser: the essential events and the latter half of the
\* others, without observations at its start.
Window(v) ==
    LET others == Len(v) - Cardinality(Essential(v))
        start == Len(v) - MaxOf({1, others \div 2}) + 1
        valid == {i \in start..Len(v) : v[i].kind \notin Observations}
        first == IF valid = {} THEN Len(v) + 1 ELSE MinOf(valid)
        keep == Essential(v) \cup first..Len(v)
    IN  Condensation(IF v = <<>> \/ FirstUser(v) = 0 THEN {}
                     ELSE {v[i].id : i \in DOMAIN v} \ {v[i].id : i \in keep},
                     NoSummary)

\* How many events of the tail stay, beside the head and the summary.
FromTail_All(head) == MaxSize - head - 1               \* mutant
FromTail(head) == MaxSize \div 2 - head - 1

\* Where get_condensation finds the previous summary; the mutant is off by one.
Previous_Next(v) == v[KeepFirst + 2]
Previous(v) == v[KeepFirst + 1]

\* LLMSummarizingCondenser.get_condensation: the ids from the first to the last
\* forgotten one, and a summary of them and of the previous summary.
Summarize(v) ==
    LET last == IF FromTail(KeepFirst) = 0 THEN 0 ELSE Len(v) - FromTail(KeepFirst)
        gone == {v[i].id : i \in {j \in KeepFirst + 1..last : v[j].kind # "summary"}}
    IN  IF Len(v) <= KeepFirst \/ gone = {} THEN Raised
        ELSE Condensation(MinOf(gone)..MaxOf(gone),
                          [offset |-> KeepFirst,
                           covers |-> gone \cup Previous(v).summary.covers])

\* AmortizedForgettingCondenser.get_condensation: the same without a summary.
Amortize(v) ==
    LET head == MinOf({KeepFirst, Len(v)})
        tail == MaxOf({Len(v) - (MaxSize \div 2 - head) + 1, 1})
        gone == IdsOf(v) \ {v[i].id : i \in 1..head \cup tail..Len(v)}
    IN  IF gone = {} THEN Raised ELSE Condensation(MinOf(gone)..MaxOf(gone), NoSummary)

\* should_condense of the three; the mutant's window leaves requests to others.
Due_NotWindow(condenser, v, unhandled) == condenser # "window" /\ (unhandled \/ Len(v) > MaxSize)
Due(condenser, v, unhandled) ==
    unhandled \/ (condenser # "window" /\ Len(v) > MaxSize)

CondensationBy(condenser, v) ==
    CASE condenser = "window" -> Window(v)
      [] condenser = "summarizing" -> Summarize(v)
      [] condenser = "amortized" -> Amortize(v)

\* CondenserPipeline.condense: the first condenser that is due; <<>> for a view
\* that passes all of them.
Condensed(pipeline, v, unhandled) ==
    LET due == {i \in DOMAIN pipeline : Due(pipeline[i], v, unhandled)}
    IN  IF due = {} THEN <<>> ELSE <<CondensationBy(pipeline[MinOf(due)], v)>>
=============================================================================
