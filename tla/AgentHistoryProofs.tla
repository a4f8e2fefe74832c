------------------------- MODULE AgentHistoryProofs -------------------------
(***************************************************************************)
(* Proofs about AgentHistory, for any pipelines of condensers, sizes,      *)
(* messages, crashes and recoveries: the task stays in the agent's view,   *)
(* the condensers never fail, the view the agent decides on is current,    *)
(* a condensation by size halves it, and the summary that is in view       *)
(* covers what summaries have taken.                                       *)
(***************************************************************************)
(* The argument goes from the log to the view.  Of the log, Harmless says  *)
(* that no entry forgets the first two; the history is a part of it that   *)
(* begins with these two; a view of such a history begins with them, too;  *)
(* and a condenser that is given such a view makes another harmless entry. *)
(*                                                                         *)
(* The last part is about ids alone (Story): what a condensation may take  *)
(* and must cover when it was made of the history as it was at a date,     *)
(* and that the latest summary then covers all.  Uncut dates every         *)
(* condensation of a run in which no loop is cut out, and StoryHolds reads *)
(* the story off such a run.                                               *)
(***************************************************************************)
EXTENDS AgentHistory, FiniteSetTheorems, SequenceTheorems, TLAPS

-----------------------------------------------------------------------------
(* Numbers: least and greatest elements, and induction over an interval,   *)
(* stated with a set because no prover instantiates a predicate.           *)

Less == {ss \in Nat \X Nat : ss[1] < ss[2]}

LEMMA LessIsWellFounded == IsWellFoundedOn(Less, Nat)
BY NatLessThanWellFounded DEF OpToRel, Less

LEMMA LeastNumber ==
    ASSUME NEW T \in SUBSET Nat, T # {}
    PROVE  \E n \in T : \A m \in T : n <= m
<1>1. PICK n \in T : \A m \in T : ~(<<m, n>> \in Less)
    BY LessIsWellFounded, WFMin
<1>2. ASSUME NEW m \in T PROVE n <= m
    <2>1. ~(m < n)
        BY <1>1 DEF Less
    <2> QED
        BY <2>1
<1> QED
    BY <1>2

LEMMA IntervalInduction ==
    ASSUME NEW m \in Nat, NEW U, 0 \in U,
           \A n \in 0..m - 1 : n \in U => n + 1 \in U
    PROVE  0..m \subseteq U
<1> DEFINE T == (0..m) \ U
<1> SUFFICES ASSUME T # {} PROVE FALSE
    OBVIOUS
<1>0. T \in SUBSET Nat
    OBVIOUS
<1>1. PICK n \in T : \A k \in T : n <= k
    <2> HIDE DEF T
    <2> QED
        BY <1>0, LeastNumber
<1>2. n # 0 /\ n - 1 \in 0..m - 1
    OBVIOUS
<1>3. n - 1 \in U
    BY <1>1, <1>2
<1> QED
    BY <1>2, <1>3

\* The greatest element of a set of numbers below a bound.
LEMMA GreatestNumber ==
    ASSUME NEW b \in Nat, NEW T \in SUBSET (0..b), T # {}
    PROVE  \E n \in T : \A m \in T : n >= m
<1> DEFINE D == {b - n : n \in T}
<1>0. D \in SUBSET Nat /\ D # {}
    <2>1. \A n \in T : b - n \in Nat
        OBVIOUS
    <2>2. \A d \in D : d \in Nat
        BY <2>1
    <2> QED
        BY <2>2
<1>1. PICK d \in D : \A e \in D : d <= e
    <2> HIDE DEF D
    <2> QED
        BY <1>0, LeastNumber
<1>2. PICK n \in T : d = b - n
    BY <1>1
<1>3. ASSUME NEW m \in T PROVE n >= m
    BY <1>1, <1>2
<1> QED
    BY <1>3

\* MinOf and MaxOf are what their names say.
LEMMA MinOfFact ==
    ASSUME NEW T \in SUBSET Nat, T # {}
    PROVE  MinOf(T) \in T /\ \A m \in T : MinOf(T) <= m
BY LeastNumber DEF MinOf

LEMMA MaxOfFact ==
    ASSUME NEW b \in Nat, NEW T \in SUBSET (0..b), T # {}
    PROVE  MaxOf(T) \in T /\ \A m \in T : MaxOf(T) >= m
BY GreatestNumber DEF MaxOf

LEMMA MinOfPair ==
    ASSUME NEW a \in Nat, NEW b \in Nat
    PROVE  MinOf({a, b}) = IF a <= b THEN a ELSE b
<1> MinOf({a, b}) \in {a, b} /\ MinOf({a, b}) <= a /\ MinOf({a, b}) <= b
    BY MinOfFact
<1> QED
    OBVIOUS

LEMMA MaxOfPair ==
    ASSUME NEW a \in Int, NEW b \in Int
    PROVE  MaxOf({a, b}) = IF a >= b THEN a ELSE b
<1>1. \E x \in {a, b} : \A y \in {a, b} : x >= y
    <2>1. CASE a >= b
        BY <2>1
    <2>2. CASE ~(a >= b)
        BY <2>2
    <2> QED
        BY <2>1, <2>2
<1>2. MaxOf({a, b}) \in {a, b} /\ \A y \in {a, b} : MaxOf({a, b}) >= y
    BY <1>1 DEF MaxOf
<1> QED
    BY <1>2

-----------------------------------------------------------------------------
(* Picked: the entries at some positions of a sequence, in their order.    *)

\* What Picked's recursive function is on 0..m.
Steps(upTo, s, P, m) ==
    upTo = [n \in 0..m |->
        IF n = 0 THEN <<>>
        ELSE IF n \in P THEN Append(upTo[n - 1], s[n])
        ELSE upTo[n - 1]]

PickedUpTo(s, P, m) == CHOOSE upTo : Steps(upTo, s, P, m)

LEMMA StepsExist ==
    ASSUME NEW s, Len(s) \in Nat, NEW P
    PROVE  \E upTo : Steps(upTo, s, P, Len(s))
<1> DEFINE U == {m \in 0..Len(s) : \E upTo : Steps(upTo, s, P, m)}
<1>1. 0 \in U
    <2>1. Steps([n \in 0..0 |-> <<>>], s, P, 0)
        BY DEF Steps
    <2> QED
        BY <2>1
<1>2. ASSUME NEW m \in 0..Len(s) - 1, m \in U PROVE m + 1 \in U
    <2>1. PICK f : Steps(f, s, P, m)
        BY <1>2
    <2> DEFINE g == [n \in 0..m + 1 |->
                       IF n <= m THEN f[n]
                       ELSE IF n \in P THEN Append(f[n - 1], s[n]) ELSE f[n - 1]]
    <2>2. \A n \in 0..m : g[n] = f[n]
        OBVIOUS
    <2>3. \A n \in 0..m : f[n] = IF n = 0 THEN <<>>
                                 ELSE IF n \in P THEN Append(f[n - 1], s[n])
                                 ELSE f[n - 1]
        BY <2>1 DEF Steps
    <2>4. ASSUME NEW n \in 0..m + 1
          PROVE  g[n] = IF n = 0 THEN <<>>
                        ELSE IF n \in P THEN Append(g[n - 1], s[n])
                        ELSE g[n - 1]
        <3>1. CASE n = 0
            BY <3>1, <2>2, <2>3
        <3>2. CASE n \in 1..m
            <4>1. n \in 0..m /\ n - 1 \in 0..m /\ n # 0
                BY <3>2
            <4> QED
                BY <4>1, <2>2, <2>3
        <3>3. CASE n = m + 1
            <4>1. n - 1 \in 0..m /\ n # 0 /\ ~(n <= m)
                BY <3>3
            <4> QED
                BY <4>1, <2>2
        <3> QED
            BY <3>1, <3>2, <3>3
    <2>5. Steps(g, s, P, m + 1)
        BY <2>4 DEF Steps
    <2> QED
        BY <2>5
<1>3. 0..Len(s) \subseteq U
    <2> HIDE DEF U
    <2> QED
        BY <1>1, <1>2, IntervalInduction
<1> QED
    BY <1>3

\* t is what s has at the positions P among the first n; at says where from.
Selects(t, at, s, P, n) ==
    /\ at \in [1..Len(t) -> (1..n) \cap P]
    /\ \A i \in 1..Len(t) : t[i] = s[at[i]]
    /\ \A i, j \in 1..Len(t) : i < j => at[i] < at[j]
    /\ \A p \in (1..n) \cap P : \E i \in 1..Len(t) : at[i] = p

LEMMA SelectsStep ==
    ASSUME NEW S, NEW s \in Seq(S), NEW P, NEW n \in 1..Len(s),
           NEW t \in Seq(S), NEW at, Selects(t, at, s, P, n - 1),
           NEW u, u = IF n \in P THEN Append(t, s[n]) ELSE t
    PROVE  u \in Seq(S) /\ \E bt : Selects(u, bt, s, P, n)
<1>1. CASE n \notin P
    <2>1. (1..n) \cap P = (1..n - 1) \cap P
        BY <1>1
    <2> QED
        BY <1>1, <2>1 DEF Selects
<1>2. CASE n \in P
    <2>1. u = Append(t, s[n]) /\ s[n] \in S
        BY <1>2
    <2>2. u \in Seq(S) /\ Len(u) = Len(t) + 1 /\ Len(t) \in Nat
        BY <2>1
    <2>3. \A i \in 1..Len(t) : u[i] = t[i]
        BY <2>1
    <2>4. u[Len(t) + 1] = s[n]
        BY <2>1
    <2> DEFINE bt == [i \in 1..Len(u) |-> IF i <= Len(t) THEN at[i] ELSE n]
    <2>5. \A i \in 1..Len(t) : at[i] \in (1..n - 1) \cap P
        BY DEF Selects
    <2>6. bt \in [1..Len(u) -> (1..n) \cap P]
        BY <1>2, <2>2, <2>5
    <2>7. ASSUME NEW i \in 1..Len(u) PROVE u[i] = s[bt[i]]
        <3>1. CASE i <= Len(t)
            BY <3>1, <2>2, <2>3 DEF Selects
        <3>2. CASE ~(i <= Len(t))
            BY <3>2, <2>2, <2>4
        <3> QED
            BY <3>1, <3>2
    <2>8. ASSUME NEW i \in 1..Len(u), NEW j \in 1..Len(u), i < j PROVE bt[i] < bt[j]
        <3>1. i \in 1..Len(t) /\ i <= Len(t)
            BY <2>2, <2>8
        <3>2. CASE j <= Len(t)
            BY <3>1, <3>2, <2>2, <2>8 DEF Selects
        <3>3. CASE ~(j <= Len(t))
            BY <3>1, <3>3, <2>2, <2>5
        <3> QED
            BY <3>2, <3>3
    <2>9. ASSUME NEW p \in (1..n) \cap P PROVE \E i \in 1..Len(u) : bt[i] = p
        <3>1. CASE p = n
            <4>1. Len(t) + 1 \in 1..Len(u) /\ ~(Len(t) + 1 <= Len(t))
                BY <2>2
            <4> QED
                BY <3>1, <4>1
        <3>2. CASE p # n
            <4>1. PICK i \in 1..Len(t) : at[i] = p
                BY <3>2 DEF Selects
            <4>2. i \in 1..Len(u) /\ i <= Len(t)
                BY <2>2
            <4> QED
                BY <4>1, <4>2
        <3> QED
            BY <3>1, <3>2
    <2>10. Selects(u, bt, s, P, n)
        <3> HIDE DEF bt
        <3> QED
            BY <2>6, <2>7, <2>8, <2>9 DEF Selects
    <2> QED
        BY <2>2, <2>10
<1> QED
    BY <1>1, <1>2

LEMMA PickedFacts ==
    ASSUME NEW S, NEW s \in Seq(S), NEW P
    PROVE  /\ Picked(s, P) \in Seq(S)
           /\ \E at : Selects(Picked(s, P), at, s, P, Len(s))
<1>1. Len(s) \in Nat
    OBVIOUS
<1>2. PICK f : f = PickedUpTo(s, P, Len(s))
    OBVIOUS
<1>3. Steps(f, s, P, Len(s))
    BY <1>1, <1>2, StepsExist, Zenon DEF PickedUpTo
<1>4. f[0] = <<>> /\ \A n \in 1..Len(s) :
        f[n] = IF n \in P THEN Append(f[n - 1], s[n]) ELSE f[n - 1]
    <2>1. \A n \in 0..Len(s) :
            f[n] = IF n = 0 THEN <<>>
                   ELSE IF n \in P THEN Append(f[n - 1], s[n])
                   ELSE f[n - 1]
        <3> DEFINE g == [n \in 0..Len(s) |->
                           IF n = 0 THEN <<>>
                           ELSE IF n \in P THEN Append(f[n - 1], s[n])
                           ELSE f[n - 1]]
        <3>1. f = g
            BY <1>3, Zenon DEF Steps
        <3>2. \A n \in 0..Len(s) :
                g[n] = IF n = 0 THEN <<>>
                       ELSE IF n \in P THEN Append(f[n - 1], s[n])
                       ELSE f[n - 1]
            OBVIOUS
        <3> HIDE DEF g
        <3> QED
            BY <3>1, <3>2
    <2> QED
        BY <1>1, <2>1
<1> DEFINE U == {n \in 0..Len(s) :
                   f[n] \in Seq(S) /\ \E at : Selects(f[n], at, s, P, n)}
<1>5. 0 \in U
    <2>1. Selects(<<>>, [i \in 1..0 |-> 0], s, P, 0)
        BY DEF Selects
    <2>2. <<>> \in Seq(S) /\ 0 \in 0..Len(s)
        BY <1>1
    <2> QED
        BY <1>4, <2>1, <2>2, Zenon
<1>6. ASSUME NEW m \in 0..Len(s) - 1, m \in U PROVE m + 1 \in U
    <2>1. PICK n \in 1..Len(s) : n = m + 1 /\ n - 1 = m
        BY <1>1
    <2>2. PICK at : Selects(f[n - 1], at, s, P, n - 1)
        BY <1>6, <2>1
    <2>3. f[n - 1] \in Seq(S)
        BY <1>6, <2>1
    <2>4. f[n] = IF n \in P THEN Append(f[n - 1], s[n]) ELSE f[n - 1]
        BY <1>4
    <2>5. PICK t \in Seq(S) : t = f[n - 1]
        BY <2>3
    <2>6. PICK u : u = f[n]
        OBVIOUS
    <2>7. u \in Seq(S) /\ \E bt : Selects(u, bt, s, P, n)
        <3>1. Selects(t, at, s, P, n - 1) /\ u = IF n \in P THEN Append(t, s[n]) ELSE t
            BY <2>2, <2>4, <2>5, <2>6
        <3> QED
            BY <3>1, SelectsStep, Zenon
    <2> QED
        BY <2>1, <2>6, <2>7
<1>7. 0..Len(s) \subseteq U
    <2> HIDE DEF U
    <2> QED
        BY <1>1, <1>5, <1>6, IntervalInduction
<1>8. Picked(s, P) = f[Len(s)]
    BY <1>2 DEF Picked, PickedUpTo, Steps
<1>9. Len(s) \in U
    BY <1>1, <1>7
<1> QED
    BY <1>8, <1>9

-----------------------------------------------------------------------------
(* The inductive invariant.                                                *)

LoggedKinds == {"system", "message", "recall", "recalled", "null", "call",
                "result", "error", "say", "ask", "request", "condensation",
                "recovery", "loop"}

Contents == {"", "m", "c", "s", "stopped"}

Entries == [id : Nat, kind : LoggedKinds \cup {"summary"}, of : Nat,
            what : Contents, forget : SUBSET Nat,
            summary : [offset : Int, covers : SUBSET Nat]]

\* What every published event is like under the pipeline p: it leaves the system
\* message and the first user message alone, no summary comes from a pipeline with
\* the amortized condenser, and a recovery was offered.
Harmless(e, p) ==
    /\ e.kind \in LoggedKinds
    /\ e.forget \cap {1, 2} = {}
    /\ e.summary.offset \in {-1, KeepFirst}
    /\ "amortized" \in Range(p) => e.summary.offset = -1
    /\ e.kind = "recovery" => Options # {}

LogInv ==
    /\ log \in Seq(Entries) /\ log # <<>>
    /\ \A i \in 1..Len(log) : log[i].id = i /\ Harmless(log[i], pipeline)
    /\ log[1].kind = "system"
    /\ Len(log) >= 2 => log[2].kind = "message"

\* A history is a part of the log, in its order, that begins with the system
\* message and the first user message.
Opening(h) ==
    /\ Len(h) >= 1 => h[1].id = 1
    /\ Len(h) >= 2 => h[2].id = 2

PartOfLog(h) ==
    /\ h \in Seq(Entries)
    /\ \A i \in 1..Len(h) : h[i].id \in 1..Len(log) /\ h[i] = log[h[i].id]
    /\ \A i, j \in 1..Len(h) : i < j => h[i].id < h[j].id
    /\ Opening(h)

HistoryInv ==
    /\ overtaken = 0 /\ skipped = {}
    /\ heard \in 0..Len(log)
    /\ PartOfLog(history)
    /\ \A i \in 1..Len(history) : history[i].id <= heard
    /\ heard >= 1 => Len(history) >= 1
    /\ heard >= 2 => Len(history) >= 2

\* Where histories are cut: never before the first user message.
CutsInv ==
    /\ endId \in Nat \ {1} /\ saved \in Nat \ {1}
    /\ Options # {} =>
          analysis = NoLoop \/ (analysis \in Nat \ {0, 1} /\ Len(log) >= 2)

WaitingInv ==
    /\ pipeline \in Pipelines
    /\ pending \in 0..Len(log)
    /\ open \subseteq 1..Len(log)

\* What the condensers count on: a view begins with the system message and the
\* first user message, has no event twice and at most one summary, the entry
\* with the id 0.
GoodView(v, p) ==
    /\ v \in Seq(Entries) /\ Len(v) >= 2
    /\ v[1].id = 1 /\ v[1].kind = "system"
    /\ v[2].id = 2 /\ v[2].kind = "message"
    /\ \A i, j \in 1..Len(v) : i < j => v[i].id # v[j].id
    /\ \A i \in 1..Len(v) : v[i].kind = "summary" <=> v[i].id = 0
    /\ "amortized" \in Range(p) => \A i \in 1..Len(v) : v[i].id # 0

CacheInv ==
    \/ cache = NoCache
    \/ /\ cache.checksum \in Nat /\ cache.unhandled \in BOOLEAN
       /\ GoodView(cache.view, pipeline)

\* Until a loop is cut out, the cached view is one of the history's beginning.
CurrentInv ==
    endId = 0 =>
        /\ cache.checksum <= Len(history)
        /\ cache.checksum # -1
           => cache.view = ViewOf(SubSeq(history, 1, cache.checksum))

IInv == /\ LogInv /\ HistoryInv /\ CutsInv /\ WaitingInv /\ CacheInv /\ CurrentInv

-----------------------------------------------------------------------------
(* Views of histories.                                                     *)

\* What PartOfLog says of a history without the log.
GoodHistory(h, p) ==
    /\ h \in Seq(Entries)
    /\ \A i \in 1..Len(h) : h[i].id \in Nat \ {0} /\ Harmless(h[i], p)
    /\ \A i, j \in 1..Len(h) : i < j => h[i].id < h[j].id
    /\ Len(h) >= 1 => h[1].id = 1 /\ h[1].kind = "system"
    /\ Len(h) >= 2 => h[2].id = 2 /\ h[2].kind = "message"

Kept(h) == Picked(h, {i \in DOMAIN h : h[i].id \notin Forgotten(h)})
Summaries(h) == {i \in Condensations(h) : h[i].summary.offset >= 0}

LEMMA EntryType ==
    ASSUME NEW e \in Entries
    PROVE  /\ e.id \in Nat /\ e.kind \in LoggedKinds \cup {"summary"} /\ e.of \in Nat
           /\ e.forget \in SUBSET Nat
           /\ e.summary \in [offset : Int, covers : SUBSET Nat]
           /\ e.summary.offset \in Int /\ e.summary.covers \in SUBSET Nat
BY DEF Entries

LEMMA EntryIsTyped ==
    ASSUME NEW a \in Nat, NEW b \in LoggedKinds \cup {"summary"}, NEW c \in Nat,
           NEW d \in Contents, NEW f \in SUBSET Nat,
           NEW n \in [offset : Int, covers : SUBSET Nat]
    PROVE  Entry(a, b, c, d, f, n) \in Entries
BY DEF Entry, Entries

LEMMA EntryFields ==
    ASSUME NEW a, NEW b, NEW c, NEW d, NEW f, NEW n
    PROVE  /\ Entry(a, b, c, d, f, n).id = a /\ Entry(a, b, c, d, f, n).kind = b
           /\ Entry(a, b, c, d, f, n).of = c /\ Entry(a, b, c, d, f, n).what = d
           /\ Entry(a, b, c, d, f, n).forget = f /\ Entry(a, b, c, d, f, n).summary = n
BY DEF Entry

LEMMA NoSummaryType == NoSummary \in [offset : Int, covers : SUBSET Nat]
BY DEF NoSummary

LEMMA SetId ==
    ASSUME NEW e \in Entries, NEW x \in Nat
    PROVE  /\ [e EXCEPT !.id = x] \in Entries
           /\ [e EXCEPT !.id = x].id = x /\ [e EXCEPT !.id = x].kind = e.kind
           /\ [e EXCEPT !.id = x].of = e.of /\ [e EXCEPT !.id = x].what = e.what
           /\ [e EXCEPT !.id = x].forget = e.forget
           /\ [e EXCEPT !.id = x].summary = e.summary
BY DEF Entries

LEMMA SummaryEventType ==
    ASSUME NEW c \in SUBSET Nat
    PROVE  /\ SummaryEvent(c) \in Entries
           /\ SummaryEvent(c).id = 0 /\ SummaryEvent(c).kind = "summary"
           /\ SummaryEvent(c).summary.covers = c
<1>0. [offset |-> -1, covers |-> c] \in [offset : Int, covers : SUBSET Nat]
    OBVIOUS
<1>1. PICK s \in [offset : Int, covers : SUBSET Nat] : s = [offset |-> -1, covers |-> c]
    BY <1>0, Zenon
<1>2. SummaryEvent(c) = Entry(0, "summary", 0, "", {}, s)
    BY <1>1 DEF SummaryEvent
<1>3. Entry(0, "summary", 0, "", {}, s) \in Entries
    BY EntryIsTyped DEF Contents
<1>4. /\ Entry(0, "summary", 0, "", {}, s).id = 0
      /\ Entry(0, "summary", 0, "", {}, s).kind = "summary"
      /\ Entry(0, "summary", 0, "", {}, s).summary = s
    BY DEF Entry
<1>5. s.covers = c
    BY <1>1
<1> QED
    BY <1>2, <1>3, <1>4, <1>5, Zenon

\* v is s with e put before its entry k.
Inserted(v, s, k, e) ==
    /\ v \in Seq(Entries) /\ Len(v) = Len(s) + 1
    /\ \A i \in 1..Len(s) + 1 : v[i] = IF i < k THEN s[i]
                                       ELSE IF i = k THEN e ELSE s[i - 1]

LEMMA InsertFacts ==
    ASSUME NEW s \in Seq(Entries), NEW e \in Entries, NEW k \in 1..Len(s) + 1,
           NEW v, v = InsertAt(s, k, e)
    PROVE  Inserted(v, s, k, e)
<1> DEFINE l == SubSeq(s, 1, k - 1)
           m == l \o <<e>>
           r == SubSeq(s, k, Len(s))
<1>1. Len(s) \in Nat /\ k \in Nat
    OBVIOUS
<1>2. l \in Seq(Entries) /\ Len(l) = k - 1 /\ \A i \in 1..k - 1 : l[i] = s[i]
    BY <1>1
<1>3. r \in Seq(Entries) /\ Len(r) = Len(s) - k + 1
      /\ \A i \in 1..Len(s) - k + 1 : r[i] = s[k + i - 1]
    BY <1>1
<1>4. m \in Seq(Entries) /\ Len(m) = k /\ m[k] = e /\ \A i \in 1..k - 1 : m[i] = s[i]
    <2> HIDE DEF l
    <2>1. l \o <<e>> = Append(l, e)
        BY <1>2
    <2> QED
        BY <1>1, <1>2, <2>1
<1>5. v = m \o r
    BY DEF InsertAt
<1> HIDE DEF l, m, r
<1>6. m \o r \in Seq(Entries) /\ Len(m \o r) = Len(s) + 1
    BY <1>1, <1>3, <1>4
<1>7. ASSUME NEW i \in 1..Len(s) + 1
      PROVE  (m \o r)[i] = IF i < k THEN s[i] ELSE IF i = k THEN e ELSE s[i - 1]
    <2>1. (m \o r)[i] = IF i <= Len(m) THEN m[i] ELSE r[i - Len(m)]
        BY <1>1, <1>3, <1>4
    <2>2. CASE i <= k
        BY <2>1, <2>2, <1>1, <1>4
    <2>3. CASE i > k
        <3>1. i - k \in 1..Len(s) - k + 1 /\ k + (i - k) - 1 = i - 1
            BY <2>3, <1>1
        <3> QED
            BY <2>1, <2>3, <3>1, <1>1, <1>3, <1>4
    <2>4. i <= k \/ i > k
        BY <1>1
    <2> QED
        BY <2>2, <2>3, <2>4, Zenon
<1> QED
    BY <1>5, <1>6, <1>7 DEF Inserted

LEMMA OpeningStays ==
    ASSUME NEW p, NEW h, GoodHistory(h, p), NEW i \in 1..Len(h), i <= 2
    PROVE  h[i].id \notin Forgotten(h)
<1> SUFFICES ASSUME h[i].id \in Forgotten(h) PROVE FALSE
    OBVIOUS
<1>1. h \in Seq(Entries) /\ Len(h) \in Nat /\ DOMAIN h = 1..Len(h)
    BY DEF GoodHistory
<1>2. h[i].id = i /\ h[i].kind \in {"system", "message"}
    <2>1. i = 1 \/ i = 2
        BY <1>1
    <2> QED
        BY <2>1, <1>1 DEF GoodHistory
<1>3. PICK j \in 1..Len(h) :
        \/ h[j].kind = "condensation" /\ (h[i].id \in h[j].forget \/ h[i].id = h[j].id)
        \/ h[j].kind = "request" /\ h[i].id = h[j].id
    <2>1. CASE h[i].id \in UNION {h[j].forget \cup {h[j].id} : j \in Condensations(h)}
        <3>1. PICK j \in Condensations(h) : h[i].id \in h[j].forget \cup {h[j].id}
            BY <2>1, Zenon
        <3>2. j \in 1..Len(h) /\ h[j].kind = "condensation"
            BY <1>1 DEF Condensations
        <3>3. h[i].id \in h[j].forget \/ h[i].id = h[j].id
            BY <3>1
        <3> QED
            BY <3>2, <3>3, Zenon
    <2>2. CASE h[i].id \in {h[j].id : j \in {k \in DOMAIN h : h[k].kind = "request"}}
        BY <2>2, <1>1
    <2> QED
        BY <2>1, <2>2, Zenon DEF Forgotten
<1>4. h[i].id # h[j].id
    <2>1. i # j
        BY <1>2, <1>3
    <2>2. h[i].id \in Nat /\ h[j].id \in Nat
        BY DEF GoodHistory
    <2> QED
        BY <2>1, <2>2, <1>1 DEF GoodHistory
<1>5. h[j].forget \cap {1, 2} = {}
    BY DEF GoodHistory, Harmless
<1> QED
    BY <1>1, <1>2, <1>3, <1>4, <1>5

\* A view without its summary: where its entries come from.
Origins(h, at) ==
    /\ at \in [1..Len(Kept(h)) -> 1..Len(h)]
    /\ \A i \in 1..Len(Kept(h)) :
          Kept(h)[i] = h[at[i]] /\ h[at[i]].id \notin Forgotten(h)
    /\ \A i, j \in 1..Len(Kept(h)) : i < j => at[i] < at[j]
    /\ \A n \in 1..Len(h) : h[n].id \notin Forgotten(h)
          => \E i \in 1..Len(Kept(h)) : at[i] = n

LEMMA KeptOrigins ==
    ASSUME NEW h \in Seq(Entries)
    PROVE  Kept(h) \in Seq(Entries) /\ \E at : Origins(h, at)
<1> DEFINE P == {i \in DOMAIN h : h[i].id \notin Forgotten(h)}
<1>1. DOMAIN h = 1..Len(h) /\ Len(h) \in Nat
    OBVIOUS
<1>2. Kept(h) = Picked(h, P)
    BY DEF Kept
<1>3. \A n \in 1..Len(h) : n \in P <=> h[n].id \notin Forgotten(h)
    BY <1>1
<1> HIDE DEF P
<1>4. Kept(h) \in Seq(Entries)
    BY <1>2, PickedFacts
<1>5. PICK at : Selects(Kept(h), at, h, P, Len(h))
    BY <1>2, PickedFacts
<1>6. Origins(h, at)
    BY <1>3, <1>5 DEF Origins, Selects
<1> QED
    BY <1>4, <1>6

\* The first two events are never forgotten, so that the view keeps them first.
LEMMA KeptOpening ==
    ASSUME NEW p, NEW h, GoodHistory(h, p), NEW at, Origins(h, at), Len(h) >= 2
    PROVE  Len(Kept(h)) >= 2 /\ at[1] = 1 /\ at[2] = 2
<1>1. h \in Seq(Entries) /\ Len(h) \in Nat
    BY DEF GoodHistory
<1>2. Len(Kept(h)) \in Nat
    BY <1>1, KeptOrigins
<1>3. PICK i \in 1..Len(Kept(h)) : at[i] = 1
    BY <1>1, OpeningStays DEF Origins
<1>4. PICK j \in 1..Len(Kept(h)) : at[j] = 2
    BY <1>1, OpeningStays DEF Origins
<1>5. \A k \in 1..Len(Kept(h)) : at[k] \in 1..Len(h)
    BY DEF Origins
<1>6. i = 1
    <2>1. SUFFICES ASSUME i > 1 PROVE FALSE
        BY <1>2
    <2>2. 1 \in 1..Len(Kept(h)) /\ at[1] < at[i]
        BY <2>1, <1>2 DEF Origins
    <2> QED
        BY <2>2, <1>3, <1>5
<1>7. j >= 2
    BY <1>3, <1>4, <1>6, <1>2
<1>8. j = 2
    <2>1. SUFFICES ASSUME j > 2 PROVE FALSE
        BY <1>7, <1>2
    <2>2. 1 \in 1..Len(Kept(h)) /\ 2 \in 1..Len(Kept(h))
        BY <2>1, <1>2
    <2>3. at[1] < at[2] /\ at[2] < at[j]
        BY <2>1, <2>2 DEF Origins
    <2> QED
        BY <2>2, <2>3, <1>3, <1>4, <1>5, <1>6
<1> QED
    BY <1>2, <1>3, <1>4, <1>6, <1>8

\* A summarizing or amortized condenser leaves the system message and the first
\* user message alone: keep_first is 4 in a session (session.py:238).
Keeps == KeepFirst >= 2

\* Loops are cut out in interactive sessions only ("Only supports CLI for now",
\* agent_controller.py:1112), where the stuck detector looks at nothing but what
\* follows the last user message (stuck.py:50-61).
Interactive == ~Headless \/ Options = {}

LEMMA ViewShape ==
    ASSUME Keeps, NEW p, NEW h, GoodHistory(h, p)
    PROVE  \/ Summaries(h) = {} /\ ViewOf(h) = Kept(h)
           \/ /\ Summaries(h) # {}
              /\ \E m \in Summaries(h) :
                    /\ \A n \in Summaries(h) : m >= n
                    /\ ViewOf(h) = InsertAt(Kept(h), MinOf({KeepFirst, Len(Kept(h))}) + 1,
                                            SummaryEvent(h[m].summary.covers))
<1>1. h \in Seq(Entries) /\ Len(h) \in Nat /\ DOMAIN h = 1..Len(h)
    BY DEF GoodHistory
<1>2. Summaries(h) \in SUBSET (0..Len(h))
    BY <1>1 DEF Summaries, Condensations
<1>3. ViewOf(h) = IF Summaries(h) = {} THEN Kept(h)
                  ELSE InsertAt(Kept(h),
                         MinOf({h[MaxOf(Summaries(h))].summary.offset, Len(Kept(h))}) + 1,
                         SummaryEvent(h[MaxOf(Summaries(h))].summary.covers))
    BY DEF ViewOf, Kept, Summaries
<1>4. CASE Summaries(h) # {}
    <2>1. PICK m : m = MaxOf(Summaries(h))
        OBVIOUS
    <2>2. m \in Summaries(h) /\ \A n \in Summaries(h) : m >= n
        BY <1>1, <1>2, <1>4, <2>1, MaxOfFact
    <2>3. m \in 1..Len(h) /\ h[m].summary.offset >= 0
        BY <2>2, <1>1 DEF Summaries, Condensations
    <2>4. h[m].summary.offset = KeepFirst
        BY <2>3 DEF GoodHistory, Harmless
    <2> QED
        BY <1>3, <1>4, <2>1, <2>2, <2>4
<1> QED
    BY <1>3, <1>4

LEMMA KeptFacts ==
    ASSUME NEW p, NEW h, GoodHistory(h, p), Len(h) >= 2
    PROVE  /\ Kept(h) \in Seq(Entries) /\ Len(Kept(h)) >= 2
           /\ Kept(h)[1] = h[1] /\ Kept(h)[2] = h[2]
           /\ \A i \in 1..Len(Kept(h)) : /\ Kept(h)[i].id \in Nat \ {0}
                                         /\ Kept(h)[i].kind \in LoggedKinds
           /\ \A i, j \in 1..Len(Kept(h)) : i < j => Kept(h)[i].id < Kept(h)[j].id
<1>1. h \in Seq(Entries) /\ Len(h) \in Nat
    BY DEF GoodHistory
<1>2. Kept(h) \in Seq(Entries)
    BY <1>1, KeptOrigins
<1>3. PICK at : Origins(h, at)
    BY <1>1, KeptOrigins
<1>4. Len(Kept(h)) >= 2 /\ at[1] = 1 /\ at[2] = 2
    BY <1>3, KeptOpening
<1>5. \A i \in 1..Len(Kept(h)) : at[i] \in 1..Len(h) /\ Kept(h)[i] = h[at[i]]
    BY <1>3 DEF Origins
<1>6. Kept(h)[1] = h[1] /\ Kept(h)[2] = h[2]
    <2>1. Len(Kept(h)) \in Nat
        BY <1>2
    <2>2. 1 \in 1..Len(Kept(h)) /\ 2 \in 1..Len(Kept(h))
        BY <2>1, <1>4
    <2> QED
        BY <1>4, <1>5, <2>2
<1>7. ASSUME NEW i \in 1..Len(Kept(h))
      PROVE  Kept(h)[i].id \in Nat \ {0} /\ Kept(h)[i].kind \in LoggedKinds
    BY <1>5 DEF GoodHistory, Harmless
<1>8. ASSUME NEW i \in 1..Len(Kept(h)), NEW j \in 1..Len(Kept(h)), i < j
      PROVE  Kept(h)[i].id < Kept(h)[j].id
    <2>1. at[i] < at[j]
        BY <1>3, <1>8 DEF Origins
    <2> QED
        BY <2>1, <1>5 DEF GoodHistory
<1> QED
    BY <1>2, <1>4, <1>6, <1>7, <1>8

LEMMA KeptIsGood ==
    ASSUME NEW p, NEW h, GoodHistory(h, p), Len(h) >= 2
    PROVE  GoodView(Kept(h), p)
<1>1. Len(Kept(h)) \in Nat
    BY KeptFacts
<1>2. /\ h[1].id = 1 /\ h[1].kind = "system"
      /\ h[2].id = 2 /\ h[2].kind = "message"
    <2>1. Len(h) \in Nat
        BY DEF GoodHistory
    <2> QED
        BY <2>1 DEF GoodHistory
<1>3. \A i, j \in 1..Len(Kept(h)) : i < j => Kept(h)[i].id # Kept(h)[j].id
    <2> SUFFICES ASSUME NEW i \in 1..Len(Kept(h)), NEW j \in 1..Len(Kept(h)), i < j
                 PROVE  Kept(h)[i].id # Kept(h)[j].id
        OBVIOUS
    <2>1. Kept(h)[i].id < Kept(h)[j].id /\ Kept(h)[i].id \in Nat /\ Kept(h)[j].id \in Nat
        BY KeptFacts
    <2> QED
        BY <2>1
<1>4. \A i \in 1..Len(Kept(h)) : Kept(h)[i].id # 0 /\ Kept(h)[i].kind # "summary"
    BY KeptFacts DEF LoggedKinds
<1>5. Kept(h) \in Seq(Entries) /\ Len(Kept(h)) >= 2
      /\ Kept(h)[1] = h[1] /\ Kept(h)[2] = h[2]
    BY KeptFacts
<1> QED
    BY <1>2, <1>3, <1>4, <1>5 DEF GoodView

LEMMA ViewFacts ==
    ASSUME Keeps, NEW p, NEW h, GoodHistory(h, p), Len(h) >= 2
    PROVE  /\ GoodView(ViewOf(h), p)
           /\ ViewOf(h)[1] = h[1] /\ ViewOf(h)[2] = h[2]
<1>1. PICK k : k = Kept(h)
    OBVIOUS
<1>2. /\ k \in Seq(Entries) /\ Len(k) \in Nat /\ Len(k) >= 2
      /\ k[1] = h[1] /\ k[2] = h[2] /\ GoodView(k, p)
      /\ \A i \in 1..Len(k) : k[i].id \in Nat \ {0} /\ k[i].kind \in LoggedKinds
    BY <1>1, KeptFacts, KeptIsGood
<1>3. CASE Summaries(h) = {}
    <2>1. ViewOf(h) = k
        BY <1>1, <1>3, ViewShape
    <2> QED
        BY <2>1, <1>2
<1>4. CASE Summaries(h) # {}
    <2>1. PICK m \in Summaries(h) :
            ViewOf(h) = InsertAt(k, MinOf({KeepFirst, Len(k)}) + 1,
                                 SummaryEvent(h[m].summary.covers))
        BY <1>1, <1>4, ViewShape
    <2>2. h \in Seq(Entries) /\ m \in 1..Len(h) /\ h[m].summary.offset >= 0
        BY DEF GoodHistory, Summaries, Condensations
    <2>3. PICK n : n = MinOf({KeepFirst, Len(k)}) + 1
        OBVIOUS
    <2>4. n \in 3..Len(k) + 1
        <3>1. PICK l \in Nat : l = Len(k) /\ l >= 2
            BY <1>2
        <3>2. KeepFirst \in Nat /\ KeepFirst >= 2
            BY SizesAssumption DEF SizesAssumption, Keeps
        <3>3. MinOf({KeepFirst, l}) \in 2..l
            BY <3>1, <3>2, MinOfPair
        <3> QED
            BY <2>3, <3>1, <3>3
    <2>5. PICK s : s = SummaryEvent(h[m].summary.covers)
        OBVIOUS
    <2>6. s \in Entries /\ s.id = 0 /\ s.kind = "summary"
        BY <2>2, <2>5, EntryType, SummaryEventType
    <2>7. PICK v : v = ViewOf(h)
        OBVIOUS
    <2>8. /\ v \in Seq(Entries) /\ Len(v) = Len(k) + 1
          /\ \A i \in 1..Len(k) + 1 : v[i] = IF i < n THEN k[i]
                                             ELSE IF i = n THEN s ELSE k[i - 1]
        <3>1. n \in 1..Len(k) + 1
            BY <2>4, <1>2
        <3>2. v = InsertAt(k, n, s)
            BY <2>1, <2>3, <2>5, <2>7
        <3>3. Inserted(v, k, n, s)
            BY <1>2, <2>6, <3>1, <3>2, InsertFacts, Zenon
        <3> QED
            BY <3>3 DEF Inserted
    <2>9. v[1] = h[1] /\ v[2] = h[2]
        BY <2>4, <2>8, <1>2
    <2>10. ASSUME NEW i \in 1..Len(v) PROVE v[i].kind = "summary" <=> v[i].id = 0
        <3>1. CASE i = n
            BY <3>1, <2>6, <2>8
        <3>2. CASE i # n
            <4>1. PICK j \in 1..Len(k) : v[i] = k[j]
                <5>1. CASE i < n
                    BY <5>1, <2>4, <2>8, <1>2
                <5>2. CASE i > n
                    <6>1. i - 1 \in 1..Len(k)
                        BY <5>2, <2>4, <2>8, <1>2
                    <6> QED
                        BY <6>1, <5>2, <2>4, <2>8, <1>2
                <5> QED
                    BY <3>2, <5>1, <5>2, <2>4, <1>2
            <4> QED
                BY <4>1, <1>2 DEF LoggedKinds
        <3> QED
            BY <3>1, <3>2
    <2>11. ASSUME NEW i \in 1..Len(v), NEW j \in 1..Len(v), i < j
           PROVE  v[i].id # v[j].id
        <3>1. \A a, b \in 1..Len(k) : a < b => k[a].id # k[b].id
            BY <1>2 DEF GoodView
        <3>2. CASE i = n
            <4>1. j - 1 \in 1..Len(k) /\ v[j] = k[j - 1]
                BY <3>2, <2>4, <2>8, <2>11, <1>2
            <4> QED
                BY <4>1, <3>2, <2>4, <2>6, <2>8, <1>2
        <3>3. CASE j = n
            <4>1. i \in 1..Len(k) /\ v[i] = k[i]
                BY <3>3, <2>4, <2>8, <2>11, <1>2
            <4> QED
                BY <4>1, <3>3, <2>4, <2>6, <2>8, <1>2
        <3>4. CASE i < n /\ j < n
            BY <3>1, <3>4, <2>4, <2>8, <2>11, <1>2
        <3>5. CASE i < n /\ j > n
            <4>1. i \in 1..Len(k) /\ j - 1 \in 1..Len(k) /\ i < j - 1
                BY <3>5, <2>4, <2>8, <2>11, <1>2
            <4>2. v[i] = k[i] /\ v[j] = k[j - 1]
                BY <3>5, <2>4, <2>8, <2>11, <1>2
            <4> QED
                BY <4>1, <4>2, <3>1
        <3>6. CASE i > n
            <4>1. i - 1 \in 1..Len(k) /\ j - 1 \in 1..Len(k) /\ i - 1 < j - 1
                BY <3>6, <2>4, <2>8, <2>11, <1>2
            <4>2. v[i] = k[i - 1] /\ v[j] = k[j - 1]
                BY <3>6, <2>4, <2>8, <2>11, <1>2
            <4> QED
                BY <4>1, <4>2, <3>1
        <3> QED
            BY <3>2, <3>3, <3>4, <3>5, <3>6, <2>4, <1>2
    <2>12. ~("amortized" \in Range(p))
        BY <2>2 DEF GoodHistory, Harmless
    <2>13. Len(v) >= 2
        BY <2>8, <1>2
    <2>14. v[1].id = 1 /\ v[1].kind = "system" /\ v[2].id = 2 /\ v[2].kind = "message"
        BY <2>9, <1>2 DEF GoodView
    <2>15. GoodView(v, p)
        BY <2>8, <2>10, <2>11, <2>12, <2>13, <2>14 DEF GoodView
    <2> QED
        BY <2>7, <2>9, <2>15
<1> QED
    BY <1>3, <1>4

-----------------------------------------------------------------------------
(* The condensers.                                                         *)

LEMMA IdsAreBounded ==
    ASSUME NEW v \in Seq(Entries)
    PROVE  \E b \in Nat : \A i \in 1..Len(v) : v[i].id \in 0..b
<1> DEFINE U == {n \in 0..Len(v) : \E b \in Nat : \A i \in 1..n : v[i].id \in 0..b}
<1>1. Len(v) \in Nat /\ \A i \in 1..Len(v) : v[i].id \in Nat
    BY EntryType
<1>2. 0 \in U
    BY <1>1
<1>3. ASSUME NEW n \in 0..Len(v) - 1, n \in U PROVE n + 1 \in U
    <2>1. PICK b \in Nat : \A i \in 1..n : v[i].id \in 0..b
        BY <1>3
    <2>2. PICK c \in Nat : c = v[n + 1].id
        BY <1>1
    <2>3. ASSUME NEW i \in 1..n + 1 PROVE v[i].id \in 0..b + c
        <3>1. CASE i \in 1..n
            BY <3>1, <2>1
        <3>2. CASE i = n + 1
            BY <3>2, <2>2
        <3> QED
            BY <3>1, <3>2
    <2>4. b + c \in Nat /\ n + 1 \in 0..Len(v)
        BY <1>1
    <2> QED
        BY <2>3, <2>4, Zenon
<1>4. 0..Len(v) \subseteq U
    <2> HIDE DEF U
    <2> QED
        BY <1>1, <1>2, <1>3, IntervalInduction
<1>5. Len(v) \in 0..Len(v)
    BY <1>1
<1>6. Len(v) \in U
    <2> HIDE DEF U
    <2> QED
        BY <1>4, <1>5
<1> QED
    BY <1>6, Zenon

\* A range of ids of the view that spares its first two entries.
LEMMA RangeFacts ==
    ASSUME NEW v \in Seq(Entries), NEW gone, gone # {},
           \A n \in gone : n > 2 /\ \E i \in 1..Len(v) : n = v[i].id
    PROVE  /\ MinOf(gone) \in gone /\ MaxOf(gone) \in gone
           /\ \A n \in gone : n \in MinOf(gone)..MaxOf(gone)
           /\ MinOf(gone)..MaxOf(gone) \in SUBSET Nat
           /\ (MinOf(gone)..MaxOf(gone)) \cap {1, 2} = {}
<1>1. PICK b \in Nat : \A i \in 1..Len(v) : v[i].id \in 0..b
    BY IdsAreBounded
<1>2. gone \in SUBSET (0..b) /\ gone \in SUBSET Nat
    BY <1>1
<1>3. MinOf(gone) \in gone /\ \A n \in gone : MinOf(gone) <= n
    BY <1>2, MinOfFact
<1>4. MaxOf(gone) \in gone /\ \A n \in gone : MaxOf(gone) >= n
    BY <1>2, MaxOfFact
<1>5. MinOf(gone) > 2 /\ MinOf(gone) \in Nat /\ MaxOf(gone) \in Nat
    BY <1>2, <1>3, <1>4
<1> QED
    BY <1>2, <1>3, <1>4, <1>5

\* What the properties need of a condensation that was decided under the pipeline p.
Decent(c, p) == c \in Entries /\ c.kind = "condensation" /\ Harmless(c, p)

LEMMA DecentCondensation ==
    ASSUME NEW p, NEW F \in SUBSET Nat, F \cap {1, 2} = {},
           NEW s \in [offset : Int, covers : SUBSET Nat], s.offset \in {-1, KeepFirst},
           "amortized" \in Range(p) => s.offset = -1
    PROVE  Decent(Condensation(F, s), p)
<1>1. PICK c : c = Condensation(F, s)
    OBVIOUS
<1>2. c = Entry(0, "condensation", 0, "", F, s)
    BY <1>1 DEF Condensation
<1>3. c \in Entries /\ c.kind = "condensation" /\ c.forget = F /\ c.summary = s
    <2>1. "condensation" \in LoggedKinds
        BY DEF LoggedKinds
    <2>2. "condensation" \in LoggedKinds \cup {"summary"} /\ 0 \in Nat
          /\ "" \in Contents
        BY <2>1 DEF Contents
    <2>3. Entry(0, "condensation", 0, "", F, s) \in Entries
        BY <2>2, EntryIsTyped
    <2>4. PICK d : d = Entry(0, "condensation", 0, "", F, s)
        OBVIOUS
    <2>5. d.kind = "condensation" /\ d.forget = F /\ d.summary = s
        BY <2>4 DEF Entry
    <2> QED
        BY <1>2, <2>3, <2>4, <2>5, Zenon
<1>4. "condensation" \in LoggedKinds /\ "condensation" # "recovery"
    BY DEF LoggedKinds
<1> QED
    BY <1>1, <1>3, <1>4 DEF Decent, Harmless

LEMMA NotRaised ==
    ASSUME NEW F, NEW s
    PROVE  Condensation(F, s) # Raised
<1>1. Condensation(F, s).kind = "condensation"
    BY DEF Condensation, Entry
<1>2. Raised.kind = "raised"
    BY DEF Raised, Event, Entry
<1> QED
    BY <1>1, <1>2

LEMMA FirstOfGoodView ==
    ASSUME NEW p, NEW v, GoodView(v, p)
    PROVE  /\ v \in Seq(Entries) /\ Len(v) \in Nat /\ Len(v) >= 2
           /\ v[1].id = 1 /\ v[2].id = 2
           /\ \A i \in 1..Len(v) : v[i].id \in Nat
           /\ \A i \in 3..Len(v) : v[i].id # 1 /\ v[i].id # 2
           /\ \A i \in 3..Len(v) : v[i].kind # "summary" => v[i].id > 2
<1>1. v \in Seq(Entries) /\ Len(v) \in Nat /\ Len(v) >= 2 /\ v[1].id = 1 /\ v[2].id = 2
    BY DEF GoodView
<1>2. \A i \in 1..Len(v) : v[i].id \in Nat
    BY <1>1, EntryType
<1>3. ASSUME NEW i \in 3..Len(v) PROVE v[i].id # 1 /\ v[i].id # 2
    <2>1. 1 < i /\ 2 < i /\ 1 \in 1..Len(v) /\ 2 \in 1..Len(v) /\ i \in 1..Len(v)
        BY <1>1
    <2>2. v[1].id # v[i].id /\ v[2].id # v[i].id
        BY <2>1 DEF GoodView
    <2> QED
        BY <2>2, <1>1
<1>4. ASSUME NEW i \in 3..Len(v), v[i].kind # "summary" PROVE v[i].id > 2
    <2>1. i \in 1..Len(v)
        BY <1>1
    <2>2. v[i].id # 0
        BY <2>1, <1>4 DEF GoodView
    <2> QED
        BY <2>1, <2>2, <1>2, <1>3
<1> QED
    BY <1>1, <1>2, <1>3, <1>4

LEMMA FirstUserIsSecond ==
    ASSUME NEW p, NEW v, GoodView(v, p)
    PROVE  FirstUser(v) = 2
<1> DEFINE I == {i \in 1..Len(v) : v[i].kind = "message"}
<1>1. Len(v) \in Nat /\ Len(v) >= 2 /\ v[1].kind = "system" /\ v[2].kind = "message"
    BY DEF GoodView
<1>2. 2 \in I /\ \A i \in I : 2 <= i
    BY <1>1
<1>3. FirstUser(v) = IF I # {} THEN CHOOSE x \in I : \A y \in I : x <= y ELSE 0
    BY DEF FirstUser, SelectInSeq, Min
<1>4. I \in SUBSET Nat
    OBVIOUS
<1> HIDE DEF I
<1>5. PICK x : x = CHOOSE m \in I : \A y \in I : m <= y
    OBVIOUS
<1>6. x \in I /\ \A y \in I : x <= y
    BY <1>2, <1>5
<1>7. x = 2
    BY <1>2, <1>4, <1>6
<1> QED
    BY <1>2, <1>3, <1>5, <1>7

LEMMA SystemIsFirst ==
    ASSUME NEW p, NEW v, GoodView(v, p)
    PROVE  SelectInSeq(v, LAMBDA e : e.kind = "system") = 1
<1> DEFINE I == {i \in 1..Len(v) : v[i].kind = "system"}
<1>1. Len(v) \in Nat /\ Len(v) >= 2 /\ v[1].kind = "system"
    BY DEF GoodView
<1>2. 1 \in I /\ \A i \in I : 1 <= i
    BY <1>1
<1>3. SelectInSeq(v, LAMBDA e : e.kind = "system")
        = IF I # {} THEN CHOOSE x \in I : \A y \in I : x <= y ELSE 0
    BY DEF SelectInSeq, Min
<1>4. I \in SUBSET Nat
    OBVIOUS
<1> HIDE DEF I
<1>5. PICK x : x = CHOOSE m \in I : \A y \in I : m <= y
    OBVIOUS
<1>6. x \in I /\ \A y \in I : x <= y
    BY <1>2, <1>5
<1>7. x = 1
    BY <1>2, <1>4, <1>6
<1> QED
    BY <1>2, <1>3, <1>5, <1>7

LEMMA WindowFacts ==
    ASSUME NEW p, NEW v, GoodView(v, p)
    PROVE  Decent(Window(v), p) /\ Window(v) # Raised
<1>1. PICK K : /\ {1, 2} \subseteq K
               /\ Window(v) = Condensation(
                    IF v = <<>> \/ FirstUser(v) = 0 THEN {}
                    ELSE {v[i].id : i \in DOMAIN v} \ {v[i].id : i \in K}, NoSummary)
    <2>1. {1, 2} \subseteq Essential(v)
        BY FirstUserIsSecond, SystemIsFirst DEF Essential
    <2> QED
        BY <2>1 DEF Window
<1>2. PICK F : F = IF v = <<>> \/ FirstUser(v) = 0 THEN {}
                   ELSE {v[i].id : i \in DOMAIN v} \ {v[i].id : i \in K}
    OBVIOUS
<1>3. F \in SUBSET Nat
    BY <1>2, FirstOfGoodView
<1>4. 1 \notin F /\ 2 \notin F
    BY <1>1, <1>2, FirstOfGoodView
<1>5. Window(v) = Condensation(F, NoSummary)
    BY <1>1, <1>2
<1>6. NoSummary.offset = -1
    BY DEF NoSummary
<1> QED
    BY <1>3, <1>4, <1>5, <1>6, NoSummaryType, DecentCondensation, NotRaised

LEMMA PreviousFacts ==
    ASSUME NEW v \in Seq(Entries), Len(v) > KeepFirst
    PROVE  Previous(v).summary.covers \in SUBSET Nat
<1>1. KeepFirst + 1 \in 1..Len(v)
    BY SizesAssumption DEF SizesAssumption
<1>2. v[KeepFirst + 1] \in Entries
    BY <1>1
<1> QED
    BY <1>2, EntryType DEF Previous

\* The ids that the summarizing condenser takes out of a view, if it keeps any
\* event of the tail.
Taken(v) == {v[i].id : i \in {j \in KeepFirst + 1..Len(v) - FromTail(KeepFirst) :
                                 v[j].kind # "summary"}}

LEMMA FromTailFacts ==
    /\ FromTail(KeepFirst) \in Nat
    /\ KeepFirst + FromTail(KeepFirst) + 1 = MaxSize \div 2
    /\ MaxSize \div 2 <= MaxSize /\ MaxSize >= 2 /\ MaxSize \div 2 \in Nat
<1>1. KeepFirst \in Nat /\ MaxSize \in Nat /\ KeepFirst < MaxSize \div 2
    BY SizesAssumption DEF SizesAssumption
<1>2. MaxSize \div 2 \in Nat /\ MaxSize \div 2 <= MaxSize
    BY <1>1
<1> QED
    BY <1>1, <1>2 DEF FromTail

LEMMA SummarizeShape ==
    ASSUME NEW v \in Seq(Entries)
    PROVE  Summarize(v) =
             IF FromTail(KeepFirst) = 0 \/ Len(v) <= KeepFirst \/ Taken(v) = {} THEN Raised
             ELSE Condensation(MinOf(Taken(v))..MaxOf(Taken(v)),
                               [offset |-> KeepFirst,
                                covers |-> Taken(v) \cup Previous(v).summary.covers])
<1>1. CASE FromTail(KeepFirst) = 0
    <2>1. KeepFirst + 1..0 = {}
        BY SizesAssumption DEF SizesAssumption
    <2> QED
        BY <1>1, <2>1 DEF Summarize
<1>2. CASE FromTail(KeepFirst) # 0
    BY <1>2, Zenon DEF Summarize, Taken
<1> QED
    BY <1>1, <1>2

LEMMA TakenFacts ==
    ASSUME Keeps, NEW p, NEW v, GoodView(v, p)
    PROVE  /\ Taken(v) \in SUBSET Nat
           /\ \A n \in Taken(v) : n > 2 /\ \E i \in 1..Len(v) : n = v[i].id
<1>1. ASSUME NEW n \in Taken(v) PROVE n \in Nat /\ n > 2 /\ \E i \in 1..Len(v) : n = v[i].id
    <2>1. PICK i \in KeepFirst + 1..Len(v) - FromTail(KeepFirst) :
            v[i].kind # "summary" /\ n = v[i].id
        BY DEF Taken
    <2>2. i \in 3..Len(v) /\ i \in 1..Len(v)
        BY FromTailFacts, FirstOfGoodView, SizesAssumption DEF SizesAssumption, Keeps
    <2> QED
        BY <2>1, <2>2, FirstOfGoodView
<1> QED
    BY <1>1

LEMMA SummarizeFacts ==
    ASSUME Keeps, NEW p, NEW v, GoodView(v, p), ~("amortized" \in Range(p))
    PROVE  /\ Summarize(v) = Raised \/ Decent(Summarize(v), p)
           /\ Summarize(v) = Raised => FromTail(KeepFirst) = 0 \/ Len(v) <= MaxSize \div 2
<1>1. v \in Seq(Entries) /\ Len(v) \in Nat
    BY FirstOfGoodView
<1>2. Summarize(v) = Raised \/ Decent(Summarize(v), p)
    <2>0. SUFFICES ASSUME ~(FromTail(KeepFirst) = 0 \/ Len(v) <= KeepFirst \/ Taken(v) = {})
                   PROVE  Decent(Summarize(v), p)
        BY <1>1, SummarizeShape, Zenon
    <2>1. Len(v) > KeepFirst /\ Taken(v) # {}
        BY <1>1, <2>0, SizesAssumption DEF SizesAssumption
    <2>2. PICK F : F = MinOf(Taken(v))..MaxOf(Taken(v))
        OBVIOUS
    <2>3. F \in SUBSET Nat /\ F \cap {1, 2} = {}
        BY <1>1, <2>1, <2>2, TakenFacts, RangeFacts
    <2>4. PICK c \in SUBSET Nat : c = Taken(v) \cup Previous(v).summary.covers
        BY <1>1, <2>1, TakenFacts, PreviousFacts
    <2>5. KeepFirst \in Int
        BY SizesAssumption DEF SizesAssumption
    <2>6. PICK s \in [offset : Int, covers : SUBSET Nat] :
            s = [offset |-> KeepFirst, covers |-> c]
        BY <2>5
    <2>7. s.offset = KeepFirst
        BY <2>6
    <2>8. Summarize(v) = Condensation(F, s)
        BY <1>1, <2>0, <2>2, <2>4, <2>6, SummarizeShape, Zenon
    <2>9. Decent(Condensation(F, s), p)
        BY <2>3, <2>7, DecentCondensation
    <2> QED
        BY <2>8, <2>9
<1>3. ASSUME FromTail(KeepFirst) # 0, ~(Len(v) <= MaxSize \div 2)
      PROVE  Summarize(v) # Raised
    <2>1. KeepFirst \in Nat /\ MaxSize \in Nat
        BY SizesAssumption DEF SizesAssumption
    <2>2. PICK a \in KeepFirst + 1..Len(v) - FromTail(KeepFirst) : a = KeepFirst + 1
        BY <1>1, <1>3, <2>1, FromTailFacts
    <2>3. PICK b \in KeepFirst + 1..Len(v) - FromTail(KeepFirst) : b = KeepFirst + 2
        BY <1>1, <1>3, <2>1, FromTailFacts
    <2>4. a \in 1..Len(v) /\ b \in 1..Len(v) /\ a < b
        BY <1>1, <2>1, <2>2, <2>3, FromTailFacts
    <2>5. v[a].id # v[b].id
        BY <2>4 DEF GoodView
    <2>6. v[a].kind # "summary" \/ v[b].kind # "summary"
        BY <2>4, <2>5 DEF GoodView
    <2>7. v[a].id \in Taken(v) \/ v[b].id \in Taken(v)
        BY <2>2, <2>3, <2>6 DEF Taken
    <2>8. Taken(v) # {} /\ ~(Len(v) <= KeepFirst)
        BY <1>1, <1>3, <2>1, <2>7, FromTailFacts
    <2> QED
        BY <1>1, <1>3, <2>8, SummarizeShape, NotRaised
<1> QED
    BY <1>2, <1>3

LEMMA AmortizeFacts ==
    ASSUME Keeps, NEW p, NEW v, GoodView(v, p), "amortized" \in Range(p)
    PROVE  /\ Amortize(v) = Raised \/ Decent(Amortize(v), p)
           /\ Amortize(v) = Raised => Len(v) <= MaxSize \div 2
<1>1. v \in Seq(Entries) /\ Len(v) \in Nat /\ Len(v) >= 2
    BY FirstOfGoodView
<1>2. PICK head : head = MinOf({KeepFirst, Len(v)})
    OBVIOUS
<1>3. head \in Nat /\ head >= 2 /\ head <= Len(v) /\ head <= KeepFirst
    BY <1>1, <1>2, MinOfPair, SizesAssumption DEF SizesAssumption, Keeps
<1>4. PICK tail : tail = MaxOf({Len(v) - (MaxSize \div 2 - head) + 1, 1})
    OBVIOUS
<1>5. tail \in Nat /\ tail = IF Len(v) - (MaxSize \div 2 - head) + 1 >= 1
                             THEN Len(v) - (MaxSize \div 2 - head) + 1 ELSE 1
    BY <1>1, <1>3, <1>4, FromTailFacts, MaxOfPair
<1>6. PICK gone : gone = IdsOf(v) \ {v[i].id : i \in 1..head \cup tail..Len(v)}
    OBVIOUS
<1>7. Amortize(v) = IF gone = {} THEN Raised
                    ELSE Condensation(MinOf(gone)..MaxOf(gone), NoSummary)
    BY <1>2, <1>4, <1>6, Zenon DEF Amortize
<1>8. ASSUME NEW n \in gone PROVE n > 2 /\ \E i \in 1..Len(v) : n = v[i].id
    <2>1. PICK i \in 1..Len(v) : n = v[i].id
        BY <1>1, <1>6 DEF IdsOf
    <2>2. i \notin 1..head
        BY <2>1, <1>6
    <2>3. i \in 3..Len(v)
        BY <1>1, <1>3, <2>2
    <2>4. v[i].kind # "summary"
        BY DEF GoodView
    <2> QED
        BY <2>1, <2>3, <2>4, FirstOfGoodView
<1>9. ASSUME gone # {} PROVE Decent(Amortize(v), p)
    <2>1. PICK F : F = MinOf(gone)..MaxOf(gone)
        OBVIOUS
    <2>2. F \in SUBSET Nat /\ F \cap {1, 2} = {}
        BY <1>1, <1>8, <1>9, <2>1, RangeFacts
    <2>3. NoSummary.offset = -1
        BY DEF NoSummary
    <2>4. Decent(Condensation(F, NoSummary), p)
        BY <2>2, <2>3, NoSummaryType, DecentCondensation
    <2> QED
        BY <1>7, <1>9, <2>1, <2>4
<1>10. ASSUME ~(Len(v) <= MaxSize \div 2) PROVE gone # {}
    <2>1. PICK i : i = head + 1
        OBVIOUS
    <2>2. i \in 1..Len(v) /\ i < tail
        BY <1>1, <1>3, <1>5, <1>10, <2>1, FromTailFacts, SizesAssumption DEF SizesAssumption
    <2>3. ASSUME NEW j \in 1..head \cup tail..Len(v) PROVE v[i].id # v[j].id
        <3>1. j \in 1..Len(v) /\ (j < i \/ i < j)
            BY <1>1, <1>3, <1>5, <2>1, <2>2, <2>3
        <3> QED
            BY <2>2, <3>1 DEF GoodView
    <2>4. v[i].id \in IdsOf(v)
        BY <1>1, <2>2 DEF IdsOf
    <2>5. v[i].id \in gone
        BY <1>6, <2>3, <2>4
    <2> QED
        BY <2>5
<1> QED
    BY <1>7, <1>9, <1>10, NotRaised

LEMMA OnlyOneCounts ==
    ASSUME NEW p \in Pipelines
    PROVE  /\ Len(p) \in Nat /\ DOMAIN p = 1..Len(p)
           /\ \A i \in 1..Len(p) : /\ p[i] \in {"window", "summarizing", "amortized"}
                                   /\ p[i] \in Range(p)
           /\ "summarizing" \in Range(p) => ~("amortized" \in Range(p))
<1>1. p \in Seq({"window", "summarizing", "amortized"})
      /\ ~({"summarizing", "amortized"} \subseteq Range(p))
    BY PipelinesAssumption DEF PipelinesAssumption
<1>2. Len(p) \in Nat /\ DOMAIN p = 1..Len(p)
      /\ \A i \in 1..Len(p) : p[i] \in {"window", "summarizing", "amortized"}
    BY <1>1
<1>3. \A i \in 1..Len(p) : p[i] \in Range(p)
    BY <1>2 DEF Range
<1> QED
    BY <1>1, <1>2, <1>3

\* When a condenser may fail: it keeps nothing of the tail, or the view is short
\* already, and no window condenser has answered the request for a condensation.
MayFail(p, v, u) ==
    \/ "summarizing" \in Range(p) /\ FromTail(KeepFirst) = 0
    \/ u /\ p[1] # "window" /\ Len(v) <= MaxSize \div 2

\* What a pipeline does to a view: the condenser that is due yields a decent
\* condensation, or fails.
LEMMA CondensedFacts ==
    ASSUME Keeps, NEW p \in Pipelines, NEW v, GoodView(v, p), NEW u \in BOOLEAN,
           NEW c, c = Condensed(p, v, u), c # <<>>
    PROVE  /\ c[1] = Raised \/ Decent(c[1], p)
           /\ c[1] = Raised => MayFail(p, v, u)
           /\ c[1] # Raised /\ c[1].summary.offset >= 0 => c[1] = Summarize(v)
<1>1. PICK due : due = {i \in DOMAIN p : Due(p[i], v, u)}
    OBVIOUS
<1>2. due # {} /\ c = <<CondensationBy(p[MinOf(due)], v)>>
    BY <1>1 DEF Condensed
<1>3. PICK i : i = MinOf(due)
    OBVIOUS
<1>4. due \in SUBSET Nat
    BY <1>1, OnlyOneCounts
<1>5. i \in due /\ \A j \in due : i <= j
    BY <1>2, <1>3, <1>4, MinOfFact
<1>6. i \in 1..Len(p) /\ Due(p[i], v, u)
    BY <1>1, <1>5, OnlyOneCounts
<1>7. c[1] = CondensationBy(p[i], v)
    BY <1>2, <1>3
<1>8. ASSUME c[1] = Raised PROVE MayFail(p, v, u)
    <2>1. p[i] # "window"
        BY <1>7, <1>8, WindowFacts DEF CondensationBy
    <2>2. \/ "summarizing" \in Range(p) /\ FromTail(KeepFirst) = 0
          \/ Len(v) <= MaxSize \div 2
        <3>1. CASE p[i] = "summarizing"
            <4>1. Summarize(v) = Raised /\ "summarizing" \in Range(p)
                BY <1>6, <1>7, <1>8, <3>1, OnlyOneCounts DEF CondensationBy
            <4> QED
                BY <4>1, OnlyOneCounts, SummarizeFacts
        <3>2. CASE p[i] = "amortized"
            <4>1. Amortize(v) = Raised /\ "amortized" \in Range(p)
                BY <1>6, <1>7, <1>8, <3>2, OnlyOneCounts DEF CondensationBy
            <4> QED
                BY <4>1, AmortizeFacts
        <3> QED
            BY <1>6, <2>1, <3>1, <3>2, OnlyOneCounts
    <2>3. ASSUME Len(v) <= MaxSize \div 2 PROVE u
        <3>1. Len(v) \in Nat /\ MaxSize \in Nat
            BY FirstOfGoodView, SizesAssumption DEF SizesAssumption
        <3>2. ~(Len(v) > MaxSize)
            BY <2>3, <3>1, FromTailFacts
        <3> QED
            BY <1>6, <3>2 DEF Due
    <2>4. ASSUME u PROVE p[1] # "window"
        <3>1. 1 \in due
            BY <1>1, <1>6, <2>4, OnlyOneCounts DEF Due
        <3>2. i = 1
            BY <1>5, <1>6, <3>1, OnlyOneCounts
        <3> QED
            BY <2>1, <3>2
    <2> QED
        BY <2>2, <2>3, <2>4 DEF MayFail
<1>9. CASE p[i] = "window"
    <2>1. c[1] = Window(v)
        BY <1>7, <1>9 DEF CondensationBy
    <2>2. c[1].summary.offset = -1
        <3>1. PICK F : Window(v) = Condensation(F, NoSummary)
            BY Zenon DEF Window
        <3>2. PICK w : w = Entry(0, "condensation", 0, "", F, NoSummary)
            OBVIOUS
        <3>3. w.summary = NoSummary
            BY <3>2 DEF Entry
        <3>4. NoSummary.offset = -1
            BY DEF NoSummary
        <3> QED
            BY <2>1, <3>1, <3>2, <3>3, <3>4 DEF Condensation
    <2> QED
        BY <1>8, <2>1, <2>2, WindowFacts
<1>10. CASE p[i] = "summarizing"
    <2>1. c[1] = Summarize(v)
        BY <1>7, <1>10 DEF CondensationBy
    <2> QED
        BY <1>6, <1>8, <1>10, <2>1, OnlyOneCounts, SummarizeFacts
<1>11. CASE p[i] = "amortized"
    <2>1. c[1] = Amortize(v)
        BY <1>7, <1>11 DEF CondensationBy
    <2>2. c[1] = Raised \/ Decent(c[1], p)
        BY <1>6, <1>11, <2>1, OnlyOneCounts, AmortizeFacts
    <2>3. ASSUME c[1] # Raised PROVE c[1].summary.offset = -1
        BY <1>6, <1>11, <2>2, <2>3, OnlyOneCounts DEF Decent, Harmless
    <2> QED
        BY <1>8, <2>1, <2>2, <2>3
<1> QED
    BY <1>6, <1>9, <1>10, <1>11, OnlyOneCounts

-----------------------------------------------------------------------------
(* The stuck detector.                                                     *)

LEMMA IndexOfType ==
    ASSUME NEW f \in Seq(Entries), NEW e
    PROVE  IndexOf(f, e) \in Nat \cup {NoLoop}
<1> DEFINE I == {i \in 1..Len(f) : Same(f[i], e)}
<1>1. IndexOf(f, e) = (IF I # {} THEN CHOOSE x \in I : \A y \in I : x <= y ELSE 0) - 1
    BY DEF IndexOf, SelectInSeq, Min
<1>2. I \in SUBSET Nat /\ \A i \in I : i >= 1
    OBVIOUS
<1> HIDE DEF I
<1>3. CASE I # {}
    <2>1. PICK x : x = CHOOSE m \in I : \A y \in I : m <= y
        OBVIOUS
    <2>2. x \in I
        BY <1>2, <1>3, <2>1, LeastNumber
    <2>3. IndexOf(f, e) = x - 1
        BY <1>1, <1>3, <2>1, Zenon
    <2>4. x \in Nat /\ x >= 1
        BY <1>2, <2>2
    <2> QED
        BY <2>3, <2>4
<1>4. CASE I = {}
    BY <1>1, <1>4 DEF NoLoop
<1> QED
    BY <1>3, <1>4

LEMMA PositionsPicked ==
    ASSUME NEW f \in Seq(Entries), NEW P
    PROVE  Picked([i \in DOMAIN f |-> i], P) \in Seq(1..Len(f))
<1>1. [i \in DOMAIN f |-> i] \in Seq(1..Len(f))
    OBVIOUS
<1> QED
    BY <1>1, PickedFacts

LEMMA RepeatingType ==
    ASSUME NEW f \in Seq(Entries)
    PROVE  Repeating(f) \in Nat \cup {NoLoop} /\ Pattern(f) \in Nat \cup {NoLoop}
<1>1. Repeating(f) = NoLoop \/ \E e : Repeating(f) = IndexOf(f, e)
    BY Zenon DEF Repeating
<1>2. Pattern(f) = NoLoop \/ \E e : Pattern(f) = IndexOf(f, e)
    BY Zenon DEF Pattern
<1> QED
    BY <1>1, <1>2, IndexOfType

LEMMA MonologueType ==
    ASSUME NEW f \in Seq(Entries)
    PROVE  Monologue(f) \in Nat \cup {NoLoop}
<1>1. PICK said : said = Picked([i \in DOMAIN f |-> i],
                                {i \in DOMAIN f : f[i].kind \in {"say", "ask"}})
    OBVIOUS
<1>2. said \in Seq(1..Len(f)) /\ Len(said) \in Nat
    BY <1>1, PositionsPicked
<1>3. PICK last : last = [k \in 1..3 |-> said[Len(said) - 3 + k]]
    OBVIOUS
<1>4. Monologue(f) = NoLoop \/ (Len(said) >= 3 /\ Monologue(f) = last[1] - 1)
    BY <1>1, <1>3, Zenon DEF Monologue
<1>5. CASE Len(said) >= 3
    <2>1. Len(said) - 2 \in 1..Len(said) /\ last[1] = said[Len(said) - 2]
        BY <1>2, <1>3, <1>5
    <2>2. last[1] \in 1..Len(f)
        BY <1>2, <2>1
    <2>3. Len(f) \in Nat
        OBVIOUS
    <2> QED
        BY <1>4, <2>2, <2>3
<1> QED
    BY <1>4, <1>5

LEMMA ContextLoopType ==
    ASSUME NEW f \in Seq(Entries)
    PROVE  ContextLoop(f) \in Nat \cup {NoLoop}
<1>1. PICK all : all = Picked([i \in DOMAIN f |-> i],
                              {i \in DOMAIN f : f[i].kind = "summary"})
    OBVIOUS
<1>2. all \in Seq(1..Len(f)) /\ Len(all) \in Nat
    BY <1>1, PositionsPicked
<1>3. PICK pairs : pairs = {k \in Len(all) - 9..Len(all) - 1 : all[k + 1] = all[k] + 1}
    OBVIOUS
<1>4. \/ ContextLoop(f) = NoLoop
      \/ Len(all) >= 10 /\ pairs # {} /\ ContextLoop(f) = all[MinOf(pairs)] - 1
    BY <1>1, <1>3, Zenon DEF ContextLoop
<1>5. CASE Len(all) >= 10 /\ pairs # {} /\ ContextLoop(f) = all[MinOf(pairs)] - 1
    <2>1. pairs \in SUBSET Nat /\ \A k \in pairs : k \in 1..Len(all)
        <3>1. ASSUME NEW k \in pairs PROVE k \in Nat /\ k \in 1..Len(all)
            <4>1. k \in Len(all) - 9..Len(all) - 1
                BY <1>3, Zenon
            <4> QED
                BY <4>1, <1>2, <1>5
        <3> QED
            BY <3>1
    <2>2. MinOf(pairs) \in pairs
        BY <1>5, <2>1, MinOfFact
    <2>3. MinOf(pairs) \in 1..Len(all)
        BY <2>1, <2>2
    <2>4. all[MinOf(pairs)] \in 1..Len(f) /\ Len(f) \in Nat
        BY <1>2, <2>3
    <2> QED
        BY <1>5, <2>4
<1> QED
    BY <1>4, <1>5

\* The last user message is at the second place of the history or behind it.
LEMMA LastUserFacts ==
    ASSUME NEW p, NEW h, GoodHistory(h, p), Len(h) >= 2
    PROVE  LastUser(h) \in 2..Len(h)
<1> DEFINE I == {i \in 1..Len(h) : h[i].kind = "message"}
<1>1. Len(h) \in Nat /\ h[2].kind = "message"
    BY DEF GoodHistory
<1>2. 2 \in I
    BY <1>1
<1>3. LastUser(h) = IF I # {} THEN CHOOSE x \in I : \A y \in I : x >= y ELSE 0
    BY DEF LastUser, SelectLastInSeq, Max
<1>4. I \in SUBSET (0..Len(h)) /\ I \in SUBSET (1..Len(h))
    OBVIOUS
<1> HIDE DEF I
<1>5. PICK x : x = CHOOSE m \in I : \A y \in I : m >= y
    OBVIOUS
<1>6. x \in I /\ \A y \in I : x >= y
    BY <1>1, <1>2, <1>4, <1>5, GreatestNumber
<1>7. LastUser(h) = x
    BY <1>2, <1>3, <1>5, Zenon
<1>8. x \in 1..Len(h) /\ x >= 2
    BY <1>2, <1>4, <1>6
<1> QED
    BY <1>1, <1>7, <1>8

LEMMA CheckedType ==
    ASSUME ~Headless, NEW p, NEW h, GoodHistory(h, p), Len(h) >= 2
    PROVE  Checked(h, Headless) \in Seq(Entries)
<1>1. h \in Seq(Entries) /\ Len(h) \in Nat
    BY DEF GoodHistory
<1>2. Offset(h, Headless) = LastUser(h)
    BY DEF Offset
<1>3. PICK r : r = SubSeq(h, LastUser(h) + 1, Len(h))
    OBVIOUS
<1>4. r \in Seq(Entries)
    BY <1>1, <1>3, LastUserFacts
<1>5. Checked(h, Headless) = Picked(r, {i \in DOMAIN r : r[i].kind # "message"})
    BY <1>2, <1>3 DEF Checked
<1> QED
    BY <1>4, <1>5, PickedFacts

\* A loop begins behind the last user message.
LEMMA LoopStartFacts ==
    ASSUME ~Headless, NEW p, NEW h, GoodHistory(h, p), Len(h) >= 2
    PROVE  LoopStart(h, Headless) = NoLoop \/ LoopStart(h, Headless) \in Nat \ {0, 1}
<1>1. PICK f \in Seq(Entries) : f = Checked(h, Headless)
    BY CheckedType
<1>2. PICK starts : starts = <<Repeating(f), Monologue(f), Pattern(f), ContextLoop(f)>>
    OBVIOUS
<1>3. Len(starts) = 4 /\ \A i \in 1..4 : starts[i] \in Nat \cup {NoLoop}
    BY <1>2, RepeatingType, MonologueType, ContextLoopType
<1> DEFINE I == {i \in 1..Len(starts) : starts[i] # NoLoop}
<1>4. PICK first : first = SelectInSeq(starts, LAMBDA start : start # NoLoop)
    OBVIOUS
<1>5. first = IF I # {} THEN CHOOSE x \in I : \A y \in I : x <= y ELSE 0
    BY <1>4 DEF SelectInSeq, Min
<1>6. \/ LoopStart(h, Headless) = NoLoop
      \/ first # 0 /\ LoopStart(h, Headless) = starts[first] + Offset(h, Headless)
    BY <1>1, <1>2, <1>4, Zenon DEF LoopStart
<1>7. CASE first # 0 /\ LoopStart(h, Headless) = starts[first] + Offset(h, Headless)
    <2>1. I # {} /\ I \in SUBSET Nat
        BY <1>5, <1>7
    <2>2. first \in I
        <3> HIDE DEF I
        <3> QED
            BY <1>5, <2>1, LeastNumber
    <2>3. starts[first] \in Nat
        BY <1>3, <2>2
    <2>4. Offset(h, Headless) \in Nat /\ Offset(h, Headless) >= 2
        <3>1. LastUser(h) \in 2..Len(h) /\ Len(h) \in Nat
            BY LastUserFacts DEF GoodHistory
        <3> QED
            BY <3>1 DEF Offset
    <2> QED
        BY <1>7, <2>3, <2>4
<1> QED
    BY <1>6, <1>7

LEMMA AnalysisFacts ==
    ASSUME ~Headless, NEW p, NEW h, GoodHistory(h, p), Len(h) >= 2,
           NEW old, old = NoLoop \/ old \in Nat \ {0, 1}
    PROVE  \/ Analysis(h, Headless, old) = NoLoop
           \/ Analysis(h, Headless, old) \in Nat \ {0, 1}
BY LoopStartFacts DEF Analysis

-----------------------------------------------------------------------------
(* The log grows, and histories are parts of it.                           *)

Grows == /\ Len(log') \in Nat /\ Len(log') >= Len(log)
         /\ \A i \in 1..Len(log) : log'[i] = log[i]

LEMMA LogFacts ==
    ASSUME LogInv
    PROVE  /\ log \in Seq(Entries) /\ Len(log) \in Nat /\ Len(log) >= 1
           /\ DOMAIN log = 1..Len(log) /\ NextId \in Nat
           /\ \A i \in 1..Len(log) : log[i] \in Entries /\ log[i].id = i
BY DEF LogInv, NextId

LEMMA NumberedFacts ==
    ASSUME LogInv, NEW es \in Seq(Entries)
    PROVE  /\ Numbered(es) \in Seq(Entries) /\ Len(Numbered(es)) = Len(es)
           /\ \A k \in 1..Len(es) :
                /\ Numbered(es)[k].id = Len(log) + k /\ Numbered(es)[k].kind = es[k].kind
                /\ Numbered(es)[k].forget = es[k].forget
                /\ Numbered(es)[k].summary = es[k].summary
<1>1. DOMAIN es = 1..Len(es) /\ Len(es) \in Nat /\ \A k \in 1..Len(es) : es[k] \in Entries
    OBVIOUS
<1>2. Numbered(es) = [k \in 1..Len(es) |-> [es[k] EXCEPT !.id = Len(log) + k]]
    BY <1>1, Zenon DEF Numbered
<1>3. ASSUME NEW k \in 1..Len(es)
      PROVE  /\ [es[k] EXCEPT !.id = Len(log) + k] \in Entries
             /\ [es[k] EXCEPT !.id = Len(log) + k].id = Len(log) + k
             /\ [es[k] EXCEPT !.id = Len(log) + k].kind = es[k].kind
             /\ [es[k] EXCEPT !.id = Len(log) + k].forget = es[k].forget
             /\ [es[k] EXCEPT !.id = Len(log) + k].summary = es[k].summary
    <2>1. Len(log) + k \in Nat /\ es[k] \in Entries
        BY <1>1, LogFacts
    <2> QED
        BY <2>1, SetId, Zenon
<1>4. \A k \in 1..Len(es) : Numbered(es)[k] = [es[k] EXCEPT !.id = Len(log) + k]
    BY <1>2
<1>5. Numbered(es) \in [1..Len(es) -> Entries]
    BY <1>2, <1>3, Zenon
<1>6. Numbered(es) \in Seq(Entries) /\ Len(Numbered(es)) = Len(es)
    BY <1>1, <1>5
<1>7. ASSUME NEW k \in 1..Len(es)
      PROVE  /\ Numbered(es)[k].id = Len(log) + k /\ Numbered(es)[k].kind = es[k].kind
             /\ Numbered(es)[k].forget = es[k].forget
             /\ Numbered(es)[k].summary = es[k].summary
    BY <1>3, <1>4, Zenon
<1> QED
    BY <1>6, <1>7

\* Published events that are harmless keep the log's invariant; the second event
\* of a log is the user's first message.
LEMMA PublishFacts ==
    ASSUME LogInv, NEW es \in Seq(Entries), Publish(es), pipeline' = pipeline,
           \A k \in 1..Len(es) : Harmless(es[k], pipeline),
           Len(log) >= 2 \/ (es # <<>> /\ es[1].kind = "message")
    PROVE  /\ LogInv' /\ Grows /\ Len(log') = Len(log) + Len(es)
           /\ es # <<>> => /\ log'[Len(log')].kind = es[Len(es)].kind
                           /\ log'[Len(log')].forget = es[Len(es)].forget
                           /\ log'[Len(log')].summary = es[Len(es)].summary
<1>1. PICK n \in Seq(Entries) : n = Numbered(es)
    BY NumberedFacts
<1>2. /\ Len(n) = Len(es) /\ Len(es) \in Nat
      /\ \A k \in 1..Len(es) :
            /\ n[k].id = Len(log) + k /\ n[k].kind = es[k].kind
            /\ n[k].forget = es[k].forget /\ n[k].summary = es[k].summary
    BY <1>1, NumberedFacts
<1>3. PICK l : l = log'
    OBVIOUS
<1>4. l = log \o n
    BY <1>1, <1>3 DEF Publish
<1>5. log \in Seq(Entries) /\ Len(log) \in Nat /\ Len(log) >= 1
    BY LogFacts
<1>6. l \in Seq(Entries) /\ Len(l) = Len(log) + Len(es) /\ Len(l) \in Nat
    <2>1. log \o n \in Seq(Entries)
        BY <1>5
    <2>2. Len(log \o n) = Len(log) + Len(n)
        BY <1>5
    <2> QED
        BY <1>2, <1>4, <1>5, <2>1, <2>2
<1>7. \A i \in 1..Len(log) : l[i] = log[i]
    BY <1>4, <1>5
<1>8. ASSUME NEW k \in 1..Len(es) PROVE l[Len(log) + k] = n[k]
    BY <1>2, <1>4, <1>5
<1>9. ASSUME NEW i \in 1..Len(l) PROVE l[i].id = i /\ Harmless(l[i], pipeline)
    <2>1. CASE i <= Len(log)
        BY <1>5, <1>7, <2>1 DEF LogInv
    <2>2. CASE i > Len(log)
        <3>1. PICK k \in 1..Len(es) : i = Len(log) + k
            <4>1. i - Len(log) \in 1..Len(es) /\ i = Len(log) + (i - Len(log))
                BY <1>2, <1>5, <1>6, <2>2
            <4> QED
                BY <4>1
        <3>2. l[i] = n[k] /\ n[k].id = i
            BY <1>2, <1>8, <3>1
        <3>3. Harmless(es[k], pipeline)
            OBVIOUS
        <3>4. Harmless(n[k], pipeline)
            BY <1>2, <3>3 DEF Harmless
        <3> QED
            BY <3>2, <3>4
    <2> QED
        BY <1>5, <1>6, <2>1, <2>2
<1>10. l[1].kind = "system"
    BY <1>5, <1>7 DEF LogInv
<1>11. Len(l) >= 2 => l[2].kind = "message"
    <2>1. CASE Len(log) >= 2
        BY <1>5, <1>7, <2>1 DEF LogInv
    <2>2. CASE Len(log) < 2
        <3>0. ~(Len(log) >= 2)
            BY <1>5, <2>2
        <3>1. es # <<>> /\ es[1].kind = "message"
            BY <3>0, Zenon
        <3>2. 1 \in 1..Len(es)
            BY <1>2, <3>1
        <3>3. l[Len(log) + 1].kind = "message"
            BY <1>2, <1>8, <3>1, <3>2
        <3>4. Len(log) + 1 = 2
            BY <1>5, <2>2
        <3> QED
            BY <3>3, <3>4, Zenon
    <2> QED
        BY <1>5, <2>1, <2>2
<1>12. LogInv'
    <2>1. l # <<>>
        BY <1>5, <1>6
    <2> QED
        BY <1>3, <1>6, <1>9, <1>10, <1>11, <2>1 DEF LogInv
<1>13. Grows
    BY <1>2, <1>3, <1>5, <1>6, <1>7 DEF Grows
<1>14. ASSUME es # <<>>
       PROVE  /\ l[Len(l)].kind = es[Len(es)].kind /\ l[Len(l)].forget = es[Len(es)].forget
              /\ l[Len(l)].summary = es[Len(es)].summary
    <2>1. Len(es) \in 1..Len(es)
        BY <1>2, <1>14
    <2>2. l[Len(l)] = n[Len(es)]
        BY <1>6, <1>8, <2>1
    <2> QED
        BY <1>2, <2>1, <2>2
<1> QED
    BY <1>3, <1>6, <1>12, <1>13, <1>14

LEMMA SameLog ==
    ASSUME LogInv, UNCHANGED <<log, pipeline>>
    PROVE  LogInv' /\ Grows
BY LogFacts DEF LogInv, Grows

LEMMA PartGrows ==
    ASSUME LogInv, Grows, NEW h, PartOfLog(h)
    PROVE  PartOfLog(h)'
<1>1. Len(log) \in Nat /\ Len(log') \in Nat /\ Len(log') >= Len(log)
    BY LogFacts DEF Grows
<1>2. \A i \in 1..Len(h) : h[i].id \in 1..Len(log') /\ h[i] = log'[h[i].id]
    BY <1>1 DEF Grows, PartOfLog
<1> QED
    BY <1>2 DEF PartOfLog, Opening

LEMMA GoodPart ==
    ASSUME LogInv, NEW h, PartOfLog(h)
    PROVE  GoodHistory(h, pipeline)
<1>1. h \in Seq(Entries) /\ Len(h) \in Nat
    BY DEF PartOfLog
<1>2. ASSUME NEW i \in 1..Len(h) PROVE h[i].id \in Nat \ {0} /\ Harmless(h[i], pipeline)
    BY DEF PartOfLog, LogInv
<1>3. \A i, j \in 1..Len(h) : i < j => h[i].id < h[j].id
    BY DEF PartOfLog
<1>4. ASSUME Len(h) >= 1 PROVE h[1].id = 1 /\ h[1].kind = "system"
    <2>1. h[1].id = 1 /\ h[1] = log[h[1].id]
        BY <1>1, <1>4 DEF PartOfLog, Opening
    <2> QED
        BY <2>1 DEF LogInv
<1>5. ASSUME Len(h) >= 2 PROVE h[2].id = 2 /\ h[2].kind = "message"
    <2>1. h[2].id = 2 /\ h[2] = log[h[2].id] /\ h[2].id \in 1..Len(log)
        BY <1>1, <1>5 DEF PartOfLog, Opening
    <2>2. Len(log) >= 2
        BY <2>1, LogFacts
    <2> QED
        BY <2>1, <2>2 DEF LogInv
<1> QED
    BY <1>1, <1>2, <1>3, <1>4, <1>5 DEF GoodHistory

\* A beginning of a history with its first two events is one, too.
LEMMA BeginningFacts ==
    ASSUME NEW h, PartOfLog(h), NEW n \in 1..Len(h)
    PROVE  /\ PartOfLog(SubSeq(h, 1, n)) /\ Len(SubSeq(h, 1, n)) = n
           /\ \A i \in 1..n : SubSeq(h, 1, n)[i] = h[i]
<1>1. h \in Seq(Entries) /\ Len(h) \in Nat /\ n \in Nat
    BY DEF PartOfLog
<1>2. PICK g : g = SubSeq(h, 1, n)
    OBVIOUS
<1>3. g \in Seq(Entries) /\ Len(g) = n /\ \A i \in 1..n : g[i] = h[i]
    BY <1>1, <1>2
<1>4. \A i \in 1..n : i \in 1..Len(h)
    BY <1>1
<1>5. \A i \in 1..n : g[i].id \in 1..Len(log) /\ g[i] = log[g[i].id]
    BY <1>3, <1>4 DEF PartOfLog
<1>6. \A i, j \in 1..n : i < j => g[i].id < g[j].id
    BY <1>3, <1>4 DEF PartOfLog
<1>7. Opening(g)
    BY <1>1, <1>3 DEF PartOfLog, Opening
<1> QED
    BY <1>2, <1>3, <1>5, <1>6, <1>7 DEF PartOfLog

-----------------------------------------------------------------------------
(* Hearing an event.                                                       *)

LEMMA HearingFacts ==
    ASSUME overtaken' = 0, LogInv, HistoryInv, NEW e, Hearing(e)
    PROVE  /\ heard \in Nat /\ heard + 1 \in 1..Len(log) /\ heard' = heard + 1
           /\ skipped' = {}
           /\ e \in Entries /\ e.id = heard + 1 /\ e = log[e.id]
           /\ e.kind # "system" => heard >= 1
           /\ e.kind \notin {"system", "message"} => heard >= 2
           /\ e.kind = "recovery" => Options # {}
<1>1. /\ heard \in 0..Len(log) /\ Len(log) \in Nat /\ heard < Len(log)
      /\ e = log[heard + 1] /\ heard' = heard + 1 /\ skipped' = {}
    <2>1. heard \in Nat /\ Len(log) \in Nat /\ overtaken = 0 /\ skipped = {}
        BY LogFacts DEF HistoryInv
    <2>2. PICK i \in heard + 1..Len(log) :
            /\ e = log[i] /\ overtaken' = IF i > heard + 1 THEN overtaken + 1 ELSE overtaken
            /\ heard' = IF i > heard THEN i ELSE heard
            /\ skipped' = (skipped \cup heard + 1..i - 1) \ {i}
        BY <2>1 DEF Hearing
    <2>3. i = heard + 1
        BY <2>1, <2>2
    <2>4. heard + 1..i - 1 = {}
        BY <2>1, <2>3
    <2> QED
        BY <2>1, <2>2, <2>3, <2>4
<1>2. heard \in Nat /\ heard + 1 \in 1..Len(log)
    BY <1>1
<1>3. e \in Entries /\ e.id = heard + 1
    BY <1>1, <1>2, LogFacts
<1>4. heard = 0 => e.kind = "system"
    BY <1>1 DEF LogInv
<1>5. heard = 1 => e.kind = "message"
    BY <1>1, <1>2 DEF LogInv
<1>6. Harmless(e, pipeline)
    BY <1>1, <1>2 DEF LogInv
<1> QED
    BY <1>1, <1>2, <1>3, <1>4, <1>5, <1>6 DEF Harmless

\* The history with the event that was heard.
LEMMA LongerFacts ==
    ASSUME overtaken' = 0, LogInv, HistoryInv, NEW e, Hearing(e)
    PROVE  /\ PartOfLog(Longer(e))
           /\ \A i \in 1..Len(Longer(e)) : Longer(e)[i].id <= heard + 1
           /\ Len(Longer(e)) >= 1 /\ (heard >= 1 => Len(Longer(e)) >= 2)
           /\ Longer(e) = history \/ Longer(e) = Append(history, e)
<1>1. /\ heard \in Nat /\ heard + 1 \in 1..Len(log) /\ e \in Entries
      /\ e.id = heard + 1 /\ e = log[e.id]
    BY HearingFacts
<1>2. history \in Seq(Entries) /\ Len(history) \in Nat /\ PartOfLog(history)
    BY DEF HistoryInv, PartOfLog
<1>3. \A i \in 1..Len(history) : history[i].id \in Nat \ {0} /\ history[i].id <= heard
    BY DEF HistoryInv, PartOfLog
<1>4. CASE ~Included(e)
    <2>1. heard >= 2
        BY <1>4, HearingFacts DEF Included
    <2>2. Longer(e) = history
        BY <1>4 DEF Longer
    <2>3. Len(history) >= 2
        BY <2>1 DEF HistoryInv
    <2>4. \A i \in 1..Len(history) : history[i].id <= heard + 1
        BY <1>1, <1>3
    <2> QED
        BY <1>2, <2>2, <2>3, <2>4
<1>5. CASE Included(e)
    <2>1. PICK h : h = Append(history, e)
        OBVIOUS
    <2>2. Longer(e) = h
        BY <1>5, <2>1 DEF Longer
    <2>3. /\ h \in Seq(Entries) /\ Len(h) = Len(history) + 1
          /\ \A i \in 1..Len(history) : h[i] = history[i]
          /\ h[Len(history) + 1] = e
        BY <1>1, <1>2, <2>1
    <2>4. ASSUME NEW i \in 1..Len(h)
          PROVE  h[i].id \in 1..Len(log) /\ h[i] = log[h[i].id] /\ h[i].id <= heard + 1
        <3>1. CASE i \in 1..Len(history)
            BY <1>1, <1>3, <2>3, <3>1 DEF HistoryInv, PartOfLog
        <3>2. CASE i = Len(history) + 1
            BY <1>1, <2>3, <3>2
        <3> QED
            BY <1>2, <2>3, <3>1, <3>2
    <2>5. ASSUME NEW i \in 1..Len(h), NEW j \in 1..Len(h), i < j
          PROVE  h[i].id < h[j].id
        <3>1. i \in 1..Len(history)
            BY <1>2, <2>3, <2>5
        <3>2. CASE j \in 1..Len(history)
            BY <1>2, <2>3, <2>5, <3>1, <3>2 DEF PartOfLog
        <3>3. CASE j = Len(history) + 1
            BY <1>1, <1>3, <2>3, <3>1, <3>3
        <3> QED
            BY <1>2, <2>3, <3>2, <3>3
    <2>6. Opening(h)
        <3>1. CASE Len(history) >= 2
            BY <1>2, <2>3, <3>1 DEF PartOfLog, Opening
        <3>2. CASE Len(history) = 1
            <4>1. heard = 1
                BY <1>1, <1>3, <3>2 DEF HistoryInv
            <4> QED
                BY <1>1, <1>2, <2>3, <3>2, <4>1 DEF PartOfLog, Opening
        <3>3. CASE Len(history) = 0
            <4>1. heard = 0
                BY <1>1, <3>3 DEF HistoryInv
            <4> QED
                BY <1>1, <2>3, <3>3, <4>1 DEF Opening
        <3>4. PICK n \in Nat : n = Len(history)
            BY <1>2
        <3>5. n >= 2 \/ n = 1 \/ n = 0
            OBVIOUS
        <3> QED
            BY <3>1, <3>2, <3>3, <3>4, <3>5, Zenon
    <2>7. PartOfLog(h)
        BY <2>3, <2>4, <2>5, <2>6 DEF PartOfLog
    <2>8. Len(h) >= 1 /\ (heard >= 1 => Len(h) >= 2)
        BY <1>2, <2>3 DEF HistoryInv
    <2> QED
        BY <2>1, <2>2, <2>4, <2>7, <2>8
<1> QED
    BY <1>4, <1>5

LEMMA HeardHistory ==
    ASSUME overtaken' = 0, LogInv, HistoryInv, NEW e, Hearing(e), history' = Longer(e), Grows
    PROVE  HistoryInv'
<1>1. PICK h : h = Longer(e)
    OBVIOUS
<1>2. /\ PartOfLog(h) /\ \A i \in 1..Len(h) : h[i].id <= heard + 1
      /\ Len(h) >= 1 /\ (heard >= 1 => Len(h) >= 2)
    BY <1>1, LongerFacts
<1>3. PartOfLog(h)'
    BY <1>2, PartGrows
<1>4. /\ heard' = heard + 1 /\ heard \in Nat /\ heard + 1 \in 1..Len(log)
      /\ skipped' = {}
    BY HearingFacts
<1>5. heard' \in 0..Len(log')
    BY <1>4, LogFacts DEF Grows
<1>6. heard' >= 2 => heard >= 1
    BY <1>4
<1> QED
    BY <1>1, <1>2, <1>3, <1>4, <1>5, <1>6 DEF HistoryInv

LEMMA SameHistory ==
    ASSUME LogInv, HistoryInv, Grows, UNCHANGED <<history, heard, skipped, overtaken>>
    PROVE  HistoryInv'
<1>1. PICK h : h = history
    OBVIOUS
<1>2. PartOfLog(h)'
    BY <1>1, PartGrows DEF HistoryInv
<1>3. heard' \in 0..Len(log')
    BY LogFacts DEF HistoryInv, Grows
<1> QED
    BY <1>1, <1>2, <1>3 DEF HistoryInv

\* The cached view stays one of the history's beginning while the history grows.
LEMMA HeardCurrent ==
    ASSUME overtaken' = 0, LogInv, HistoryInv, CacheInv, CurrentInv, NEW e, Hearing(e),
           history' = Longer(e), endId' = endId,
           cache' = cache \/ cache' = FreshCache(Longer(e))
    PROVE  CurrentInv'
<1> SUFFICES ASSUME endId = 0
             PROVE  /\ cache'.checksum <= Len(history')
                    /\ cache'.checksum # -1 =>
                         cache'.view = ViewOf(SubSeq(history', 1, cache'.checksum))
    BY DEF CurrentInv
<1>1. PICK h : h = Longer(e)
    OBVIOUS
<1>2. h \in Seq(Entries) /\ Len(h) \in Nat
    BY <1>1, LongerFacts DEF PartOfLog
<1>3. CASE cache' = FreshCache(Longer(e))
    <2>1. cache'.checksum = Len(h) /\ cache'.view = ViewOf(h)
        BY <1>1, <1>3 DEF FreshCache
    <2>2. SubSeq(h, 1, Len(h)) = h
        BY <1>2
    <2>3. SubSeq(h, 1, cache'.checksum) = h
        BY <2>1, <2>2, Zenon
    <2>4. Len(h) <= Len(h)
        BY <1>2
    <2> QED
        BY <1>1, <2>1, <2>3, <2>4, Zenon
<1>4. CASE cache' = cache
    <2>1. history \in Seq(Entries) /\ Len(history) \in Nat /\ e \in Entries
        BY HearingFacts DEF HistoryInv, PartOfLog
    <2>2. PICK c : c = cache.checksum
        OBVIOUS
    <2>3. c \in Nat \/ c = -1
        BY <2>2 DEF CacheInv, NoCache
    <2>4. c <= Len(history) /\ (c # -1 => cache.view = ViewOf(SubSeq(history, 1, c)))
        BY <2>2 DEF CurrentInv
    <2>5. h = history \/ h = Append(history, e)
        BY <1>1, LongerFacts
    <2>6. Len(history) <= Len(h)
        BY <2>1, <2>5
    <2>7. c # -1 => SubSeq(h, 1, c) = SubSeq(history, 1, c)
        <3> SUFFICES ASSUME c # -1, h = Append(history, e)
                     PROVE  SubSeq(h, 1, c) = SubSeq(history, 1, c)
            BY <2>5
        <3>1. c \in Nat /\ c <= Len(history)
            BY <2>3, <2>4
        <3>2. \A i \in 1..c : h[i] = history[i]
            BY <2>1, <3>1
        <3> QED
            BY <1>2, <2>1, <3>1, <3>2
    <2>8. c <= Len(h)
        BY <1>2, <2>1, <2>3, <2>4, <2>6
    <2>9. c # -1 => cache.view = ViewOf(SubSeq(h, 1, c))
        BY <2>4, <2>7
    <2> QED
        BY <1>1, <1>4, <2>2, <2>8, <2>9, Zenon
<1> QED
    BY <1>3, <1>4

-----------------------------------------------------------------------------
(* The steps that keep the inductive invariant.                            *)

LEMMA EventFacts ==
    ASSUME NEW kind \in LoggedKinds, NEW of \in Nat, NEW what \in Contents,
           kind = "recovery" => Options # {}
    PROVE  \E e \in Entries : /\ e = Event(0, kind, of, what) /\ e.kind = kind
                              /\ Harmless(e, pipeline)
<1>1. PICK e : e = Entry(0, kind, of, what, {}, NoSummary)
    OBVIOUS
<1>2. e \in Entries
    BY <1>1, EntryIsTyped, NoSummaryType
<1>3. e.kind = kind /\ e.forget = {} /\ e.summary = NoSummary
    BY <1>1 DEF Entry
<1>4. NoSummary.offset = -1
    BY DEF NoSummary
<1>5. Harmless(e, pipeline)
    BY <1>3, <1>4 DEF Harmless
<1> QED
    BY <1>1, <1>2, <1>3, <1>5 DEF Event

\* The kinds and the contents of the events that are published.
SafeKinds == LoggedKinds \ {"recovery"}

LEMMA Literals ==
    /\ 0 \in Nat
    /\ "message" \in SafeKinds /\ "recall" \in SafeKinds /\ "recalled" \in SafeKinds
    /\ "null" \in SafeKinds /\ "call" \in SafeKinds /\ "result" \in SafeKinds
    /\ "error" \in SafeKinds /\ "say" \in SafeKinds /\ "ask" \in SafeKinds
    /\ "request" \in SafeKinds /\ "loop" \in SafeKinds
    /\ "" \in Contents /\ "m" \in Contents /\ "c" \in Contents /\ "s" \in Contents
    /\ "stopped" \in Contents
BY DEF LoggedKinds, SafeKinds, Contents

\* An event that is published, named, so that the provers see it as one value.
LEMMA LoggedEvent ==
    ASSUME NEW kind \in SafeKinds, NEW of \in Nat, NEW what \in Contents
    PROVE  \E e \in Entries : /\ e = Event(0, kind, of, what) /\ e.kind = kind
                              /\ Harmless(e, pipeline)
<1>1. kind \in LoggedKinds /\ kind # "recovery"
    BY DEF SafeKinds
<1> QED
    BY <1>1, EventFacts

LEMMA PublishOne ==
    ASSUME LogInv, NEW e \in Entries, Harmless(e, pipeline), Publish(<<e>>),
           pipeline' = pipeline, Len(log) >= 2 \/ e.kind = "message"
    PROVE  /\ LogInv' /\ Grows /\ Len(log') = NextId
           /\ log'[Len(log')].kind = e.kind /\ log'[Len(log')].forget = e.forget
           /\ log'[Len(log')].summary = e.summary
<1>0. <<e>> \in Seq(Entries)
    OBVIOUS
<1>1. PICK es \in Seq(Entries) : es = <<e>>
    BY <1>0, Zenon
<1>2. Len(es) = 1 /\ es[1] = e /\ es # <<>>
    BY <1>1
<1>3. \A k \in 1..Len(es) : Harmless(es[k], pipeline)
    BY <1>2
<1>4. Publish(es)
    BY <1>1
<1>5. Len(log) >= 2 \/ (es # <<>> /\ es[1].kind = "message")
    BY <1>2
<1>6. /\ LogInv' /\ Grows /\ Len(log') = Len(log) + Len(es)
      /\ es # <<>> => /\ log'[Len(log')].kind = es[Len(es)].kind
                      /\ log'[Len(log')].forget = es[Len(es)].forget
                      /\ log'[Len(log')].summary = es[Len(es)].summary
    BY <1>3, <1>4, <1>5, PublishFacts
<1> QED
    BY <1>2, <1>6 DEF NextId

LEMMA CutsKept ==
    ASSUME LogInv, CutsInv, Grows, analysis' = analysis,
           endId' \in Nat \ {1}, saved' \in Nat \ {1}
    PROVE  CutsInv'
BY LogFacts DEF CutsInv, Grows

LEMMA WaitingKept ==
    ASSUME LogInv, WaitingInv, Grows, UNCHANGED <<pipeline, pending, open>>
    PROVE  WaitingInv'
BY LogFacts DEF WaitingInv, Grows

LEMMA CacheKept ==
    ASSUME CacheInv, UNCHANGED <<cache, pipeline>>
    PROVE  CacheInv'
BY DEF CacheInv, NoCache

LEMMA CurrentKept ==
    ASSUME CurrentInv, UNCHANGED <<cache, history, endId>>
    PROVE  CurrentInv'
BY DEF CurrentInv

\* The steps of anybody but the agent.
Quiet == ~Decided /\ mode' \in {mode, "running", "awaiting", "stopped"}

DecidedKinds == {"call", "say", "ask", "request", "condensation"}

LEMMA PublishQuietly ==
    ASSUME LogInv, NEW e \in Entries, Harmless(e, pipeline), Publish(<<e>>),
           pipeline' = pipeline, Len(log) >= 2 \/ e.kind = "message",
           e.kind \notin DecidedKinds
    PROVE  ~Decided
BY PublishOne DEF Decided, DecidedKinds

LEMMA SilentIsQuiet ==
    ASSUME LogInv, log' = log
    PROVE  ~Decided
BY LogFacts DEF Decided

\* An event from outside the controller changes only the log and what is open.
LEMMA FromOutside ==
    ASSUME IInv, NEW e \in Entries, Harmless(e, pipeline), Publish(<<e>>),
           Len(log) >= 2 \/ e.kind = "message", open' \subseteq open,
           e.kind \notin DecidedKinds,
           UNCHANGED <<heard, skipped, overtaken, history, cache, endId, saved, mode,
                       pending, analysis, pipeline>>
    PROVE  IInv' /\ Quiet
<1>1. LogInv /\ HistoryInv /\ CutsInv /\ WaitingInv /\ CacheInv /\ CurrentInv
    BY DEF IInv
<1>2. LogInv' /\ Grows
    BY <1>1, PublishOne
<1>3. HistoryInv'
    BY <1>1, <1>2, SameHistory
<1>4. CutsInv'
    BY <1>1, <1>2, CutsKept DEF CutsInv
<1>5. WaitingInv'
    <2>1. Len(log) \in Nat /\ Len(log') \in Nat /\ Len(log') >= Len(log)
        BY <1>1, <1>2, LogFacts DEF Grows
    <2>2. open' \subseteq 1..Len(log') /\ pending' \in 0..Len(log')
        BY <1>1, <2>1 DEF WaitingInv
    <2> QED
        BY <1>1, <2>2 DEF WaitingInv
<1>6. CacheInv' /\ CurrentInv'
    BY <1>1, CacheKept, CurrentKept
<1>7. Quiet
    BY <1>1, PublishQuietly DEF Quiet
<1> QED
    BY <1>2, <1>3, <1>4, <1>5, <1>6, <1>7 DEF IInv

\* What is open was published behind the first user message.
LEMMA OpenFacts ==
    ASSUME IInv, NEW i \in open, log[i].kind # "system"
    PROVE  Len(log) >= 2 /\ i \in Nat /\ i \in 1..Len(log) /\ log[i] \in Entries
<1>1. i \in 1..Len(log) /\ Len(log) \in Nat /\ log[1].kind = "system"
    BY LogFacts DEF IInv, WaitingInv, LogInv
<1>2. i # 1
    BY <1>1
<1> QED
    BY <1>1, <1>2, LogFacts DEF IInv

LEMMA UserWritesKeeps ==
    ASSUME IInv, UserWrites
    PROVE  IInv' /\ Quiet
<1>1. PICK e \in Entries : /\ e = Event(0, "message", 0, "m") /\ e.kind = "message"
                          /\ Harmless(e, pipeline)
    BY Literals, LoggedEvent, Zenon
<1>2. Publish(<<e>>)
    BY <1>1 DEF UserWrites
<1> QED
    BY <1>1, <1>2, FromOutside DEF UserWrites, counters, DecidedKinds

LEMMA MemoryAnswersKeeps ==
    ASSUME IInv, MemoryAnswers
    PROVE  IInv' /\ Quiet
<1>1. PICK recalls : recalls = {id \in open : log[id].kind = "recall"}
    OBVIOUS
<1>2. PICK kind \in {"recalled", "null"} :
        /\ recalls # {} /\ Publish(<<Event(0, kind, MinOf(recalls), "")>>)
        /\ open' = open \ {MinOf(recalls)}
        /\ UNCHANGED <<heard, skipped, overtaken, history, cache, endId, saved, mode,
                       pending, analysis, pipeline>>
    BY <1>1, Zenon DEF MemoryAnswers
<1>3. recalls \in SUBSET Nat /\ Len(log) >= 2
    BY <1>1, <1>2, OpenFacts
<1>4. MinOf(recalls) \in Nat
    BY <1>2, <1>3, MinOfFact
<1>5. PICK e \in Entries : e = Event(0, kind, MinOf(recalls), "") /\ e.kind = kind
                           /\ Harmless(e, pipeline)
    <2>1. kind \in SafeKinds
        BY DEF LoggedKinds, SafeKinds
    <2> QED
        BY <1>4, <2>1, Literals, LoggedEvent, Zenon
<1>6. Publish(<<e>>)
    BY <1>2, <1>5
<1> QED
    BY <1>2, <1>3, <1>5, <1>6, FromOutside DEF DecidedKinds

LEMMA ToolEndsKeeps ==
    ASSUME IInv, ToolEnds
    PROVE  IInv' /\ Quiet
<1>1. PICK kind \in Results : \E i \in {i \in open : log[i].kind = "call"} :
        /\ Publish(<<Event(0, kind, i, log[i].what)>>)
        /\ open' = open \ {i}
        /\ UNCHANGED <<heard, skipped, overtaken, history, cache, endId, saved, mode,
                       pending, analysis, pipeline>>
    BY Zenon DEF ToolEnds
<1>2. PICK i \in {i \in open : log[i].kind = "call"} :
        /\ Publish(<<Event(0, kind, i, log[i].what)>>)
        /\ open' = open \ {i}
        /\ UNCHANGED <<heard, skipped, overtaken, history, cache, endId, saved, mode,
                       pending, analysis, pipeline>>
    BY <1>1, Zenon
<1>3. Len(log) >= 2 /\ i \in Nat /\ log[i] \in Entries
    BY <1>2, OpenFacts
<1>4. kind \in SafeKinds /\ kind \notin DecidedKinds
    BY ChoicesAssumption DEF ChoicesAssumption, LoggedKinds, SafeKinds, DecidedKinds
<1>5. log[i].what \in Contents
    BY <1>3 DEF Entries
<1>6. PICK e \in Entries : e = Event(0, kind, i, log[i].what) /\ e.kind = kind
                           /\ Harmless(e, pipeline)
    BY <1>3, <1>4, <1>5, LoggedEvent, Zenon
<1>7. Publish(<<e>>)
    BY <1>2, <1>6
<1> QED
    BY <1>2, <1>3, <1>4, <1>6, <1>7, FromOutside

LEMMA UserRecoversKeeps ==
    ASSUME IInv, UserRecovers
    PROVE  IInv' /\ Quiet
<1>1. PICK option \in Options : Publish(<<Event(0, "recovery", option, "")>>)
    BY Zenon DEF UserRecovers
<1>2. option \in Nat /\ Options # {}
    BY ChoicesAssumption DEF ChoicesAssumption
<1>3. Len(log) >= 2
    BY <1>2 DEF IInv, CutsInv, UserRecovers
<1>4. PICK e \in Entries : e = Event(0, "recovery", option, "") /\ e.kind = "recovery"
                           /\ Harmless(e, pipeline)
    <2>1. "recovery" \in LoggedKinds
        BY DEF LoggedKinds
    <2> QED
        BY <1>2, <2>1, Literals, EventFacts, Zenon
<1>5. Publish(<<e>>)
    BY <1>1, <1>4
<1> QED
    BY <1>3, <1>4, <1>5, FromOutside DEF UserRecovers, DecidedKinds

\* The view that a step works with.
LEMMA CacheForFacts ==
    ASSUME Keeps, LogInv, CacheInv, NEW h, PartOfLog(h), Len(h) >= 2
    PROVE  /\ CacheFor(h) = cache \/ CacheFor(h) = FreshCache(h)
           /\ CacheFor(h).checksum \in Nat /\ CacheFor(h).unhandled \in BOOLEAN
           /\ GoodView(CacheFor(h).view, pipeline)
<1>1. Len(h) \in Nat
    BY DEF PartOfLog
<1>2. CASE Len(h) = cache.checksum
    <2>1. CacheFor(h) = cache
        BY <1>2 DEF CacheFor
    <2>2. cache # NoCache
        <3>1. cache.checksum # -1
            BY <1>1, <1>2
        <3> QED
            BY <3>1 DEF NoCache
    <2> QED
        BY <2>1, <2>2 DEF CacheInv
<1>3. CASE Len(h) # cache.checksum
    <2>1. CacheFor(h) = FreshCache(h)
        BY <1>3 DEF CacheFor
    <2>2. /\ FreshCache(h).checksum = Len(h) /\ FreshCache(h).view = ViewOf(h)
          /\ FreshCache(h).unhandled = Unhandled(h)
        BY DEF FreshCache
    <2>3. Unhandled(h) \in BOOLEAN
        BY DEF Unhandled
    <2>4. GoodView(ViewOf(h), pipeline)
        BY GoodPart, ViewFacts
    <2> QED
        BY <1>1, <2>1, <2>2, <2>3, <2>4
<1> QED
    BY <1>2, <1>3

\* ... is the view of the history, as long as no loop was cut out.
LEMMA CurrentView ==
    ASSUME overtaken' = 0, LogInv, HistoryInv, CacheInv, CurrentInv, endId = 0, NEW e, Hearing(e)
    PROVE  CacheFor(Longer(e)).view = ViewOf(Longer(e))
<1>1. PICK h : h = Longer(e)
    OBVIOUS
<1>2. h \in Seq(Entries) /\ Len(h) \in Nat /\ (h = history \/ h = Append(history, e))
    BY <1>1, LongerFacts DEF PartOfLog
<1>3. CASE Len(h) = cache.checksum
    <2>1. CacheFor(h) = cache
        BY <1>3 DEF CacheFor
    <2>2. cache.checksum <= Len(history) /\ cache.checksum # -1
        BY <1>2, <1>3 DEF CurrentInv
    <2>3. history \in Seq(Entries) /\ Len(history) \in Nat /\ e \in Entries
        BY HearingFacts DEF HistoryInv, PartOfLog
    <2>4. h # Append(history, e)
        <3> SUFFICES ASSUME h = Append(history, e) PROVE FALSE
            OBVIOUS
        <3>1. Len(h) = Len(history) + 1
            BY <2>3
        <3> QED
            BY <1>3, <2>2, <2>3, <3>1
    <2>5. h = history
        BY <1>2, <2>4
    <2>6. SubSeq(h, 1, Len(h)) = h
        BY <1>2
    <2>7. cache.view = ViewOf(SubSeq(history, 1, cache.checksum))
        BY <2>2 DEF CurrentInv
    <2> QED
        BY <1>1, <1>3, <2>1, <2>5, <2>6, <2>7, Zenon
<1>4. CASE Len(h) # cache.checksum
    <2>1. CacheFor(h) = FreshCache(h)
        BY <1>4 DEF CacheFor
    <2> QED
        BY <1>1, <2>1 DEF FreshCache
<1> QED
    BY <1>3, <1>4

LEMMA ActsFacts ==
    ASSUME LogInv, WaitingInv, CutsInv, Len(log) >= 2, pipeline' = pipeline,
           NEW e \in Entries, Harmless(e, pipeline), NEW m, Acts(e, m)
    PROVE  /\ LogInv' /\ Grows /\ WaitingInv' /\ Len(log') > Len(log)
           /\ endId' = endId /\ saved' \in Nat \ {1} /\ mode' = m
           /\ log'[Len(log')].kind = e.kind /\ log'[Len(log')].forget = e.forget
           /\ log'[Len(log')].summary = e.summary
<1>1. Publish(<<e>>) /\ SetMode(m, endId)
    BY DEF Acts
<1>2. /\ LogInv' /\ Grows /\ Len(log') = NextId
      /\ log'[Len(log')].kind = e.kind /\ log'[Len(log')].forget = e.forget
      /\ log'[Len(log')].summary = e.summary
    BY <1>1, PublishOne
<1>3. endId' = endId /\ saved' \in Nat \ {1} /\ mode' = m
    BY <1>1 DEF SetMode, CutsInv
<1>4. Len(log) \in Nat /\ NextId = Len(log) + 1
    BY LogFacts DEF NextId
<1>5. pending' \in 0..Len(log') /\ open' \subseteq 1..Len(log')
    <2>1. pending' \in {0, NextId} /\ open' \subseteq open \cup {NextId}
        BY DEF Acts
    <2> QED
        BY <1>2, <1>4, <2>1 DEF WaitingInv
<1>6. WaitingInv'
    BY <1>5 DEF WaitingInv
<1> QED
    BY <1>2, <1>3, <1>4, <1>6

\* What a step publishes with these conditions; Condenses and AsksLLM.
LEMMA AsksFacts ==
    ASSUME NEW m, AsksLLM(m)
    PROVE  \E e \in Entries : /\ Acts(e, m) /\ Harmless(e, pipeline)
                              /\ e.kind \in {"call", "say", "ask", "request"}
<1>1. \/ Acts(Event(0, "call", 0, "c"), m)
      \/ \E kind \in Says : Acts(Event(0, kind, 0, "s"), m)
      \/ Acts(Event(0, "request", 0, ""), m)
    BY Zenon DEF AsksLLM
<1>2. CASE Acts(Event(0, "call", 0, "c"), m)
    <2>1. PICK e \in Entries : e = Event(0, "call", 0, "c") /\ e.kind = "call"
                               /\ Harmless(e, pipeline)
        BY Literals, LoggedEvent, Zenon
    <2> QED
        BY <1>2, <2>1
<1>3. CASE \E kind \in Says : Acts(Event(0, kind, 0, "s"), m)
    <2>1. PICK kind \in Says : Acts(Event(0, kind, 0, "s"), m)
        BY <1>3
    <2>2. kind \in {"say", "ask"} /\ kind \in SafeKinds
        BY ChoicesAssumption DEF ChoicesAssumption, LoggedKinds, SafeKinds
    <2>3. PICK e \in Entries : e = Event(0, kind, 0, "s") /\ e.kind = kind
                               /\ Harmless(e, pipeline)
        BY <2>2, Literals, LoggedEvent, Zenon
    <2> QED
        BY <2>1, <2>2, <2>3
<1>4. CASE Acts(Event(0, "request", 0, ""), m)
    <2>1. PICK e \in Entries : e = Event(0, "request", 0, "") /\ e.kind = "request"
                               /\ Harmless(e, pipeline)
        BY Literals, LoggedEvent, Zenon
    <2> QED
        BY <1>4, <2>1
<1> QED
    BY <1>1, <1>2, <1>3, <1>4

\* The shape of a step: stuck, failed to condense, or a decision on an event, which
\* is what the condenser yields or what the LLM answers.
LEMMA StepShape ==
    ASSUME Keeps, LogInv, CacheInv, WaitingInv, NEW h, PartOfLog(h), Len(h) >= 2,
           NEW m, Step(h, m), NEW c, c = Condensed(pipeline, CacheFor(h).view,
                                                   CacheFor(h).unhandled)
    PROVE  /\ analysis' = Analysis(h, Headless, analysis)
           /\ \/ /\ SetMode("error", endId)
                 /\ UNCHANGED <<log, cache, pending, open>>
              \/ /\ c # <<>> /\ c[1] = Raised
                 /\ SetMode("failed", endId) /\ cache' = CacheFor(h)
                 /\ UNCHANGED <<log, pending, open>>
              \/ /\ cache' = CacheFor(h)
                 /\ \E e \in Entries :
                      /\ Acts(e, m) /\ Harmless(e, pipeline)
                      /\ \/ e.kind \in {"call", "say", "ask", "request"}
                         \/ e.kind = "condensation" /\ c # <<>> /\ e = c[1] /\ e # Raised
<1>1. analysis' = Analysis(h, Headless, analysis)
    BY DEF Step
<1>2. GetsStuck(h) \/ (/\ cache' = CacheFor(h)
                       /\ IF c # <<>> THEN Condenses(c, m) ELSE AsksLLM(m))
    BY Zenon DEF Step
<1>3. CASE GetsStuck(h)
    BY <1>1, <1>3 DEF GetsStuck
<1>4. CASE cache' = CacheFor(h) /\ c # <<>> /\ Condenses(c, m)
    <2>1. CASE c[1] = Raised
        BY <1>1, <1>4, <2>1 DEF Condenses
    <2>2. CASE c[1] # Raised
        <3>1. Acts(c[1], m)
            BY <1>4, <2>2 DEF Condenses
        <3>2. c[1] = Raised \/ Decent(c[1], pipeline)
            <4>1. pipeline \in Pipelines /\ CacheFor(h).unhandled \in BOOLEAN
                  /\ GoodView(CacheFor(h).view, pipeline)
                BY CacheForFacts DEF WaitingInv
            <4> QED
                BY <1>4, <4>1, CondensedFacts
        <3>3. /\ c[1] \in Entries /\ c[1].kind = "condensation"
              /\ Harmless(c[1], pipeline)
            BY <2>2, <3>2 DEF Decent
        <3>4. PICK e \in Entries : e = c[1]
            BY <3>3
        <3> QED
            BY <1>1, <1>4, <2>2, <3>1, <3>3, <3>4, Zenon
    <2> QED
        BY <2>1, <2>2
<1>5. CASE cache' = CacheFor(h) /\ AsksLLM(m)
    <2>1. PICK e \in Entries : /\ Acts(e, m) /\ Harmless(e, pipeline)
                               /\ e.kind \in {"call", "say", "ask", "request"}
        BY <1>5, AsksFacts
    <2> QED
        BY <1>1, <1>5, <2>1, Zenon
<1> QED
    BY <1>2, <1>3, <1>4, <1>5, Zenon

LEMMA StepKeeps ==
    ASSUME Keeps, Interactive, IInv, Len(log) >= 2, NEW h, PartOfLog(h), Len(h) >= 2,
           NEW m, Step(h, m), pipeline' = pipeline
    PROVE  /\ LogInv' /\ Grows /\ CutsInv' /\ WaitingInv' /\ CacheInv' /\ endId' = endId
           /\ cache' = cache \/ cache' = FreshCache(h)
<1>1. LogInv /\ HistoryInv /\ CutsInv /\ WaitingInv /\ CacheInv /\ CurrentInv
    BY DEF IInv
<1>2. GoodHistory(h, pipeline)
    BY <1>1, GoodPart
<1>3. PICK c : c = Condensed(pipeline, CacheFor(h).view, CacheFor(h).unhandled)
    OBVIOUS
<1>4. /\ analysis' = Analysis(h, Headless, analysis)
      /\ \/ /\ SetMode("error", endId)
            /\ UNCHANGED <<log, cache, pending, open>>
         \/ /\ SetMode("failed", endId) /\ cache' = CacheFor(h)
            /\ UNCHANGED <<log, pending, open>>
         \/ /\ cache' = CacheFor(h)
            /\ \E e \in Entries : Acts(e, m) /\ Harmless(e, pipeline)
    BY <1>1, <1>3, StepShape, Zenon
<1>5. cache' = cache \/ cache' = FreshCache(h)
    BY <1>1, <1>4, CacheForFacts
<1>6. CacheInv'
    <2>1. CASE cache' = cache
        BY <1>1, <2>1, CacheKept
    <2>2. CASE cache' = CacheFor(h)
        BY <1>1, <2>2, CacheForFacts DEF CacheInv
    <2> QED
        BY <1>4, <2>1, <2>2
<1>7. LogInv' /\ Grows /\ WaitingInv' /\ endId' = endId /\ saved' \in Nat \ {1}
    <2>1. ASSUME NEW a, SetMode(a, endId), UNCHANGED <<log, pending, open>>
          PROVE  LogInv' /\ Grows /\ WaitingInv' /\ endId' = endId /\ saved' \in Nat \ {1}
        <3>1. LogInv' /\ Grows
            BY <1>1, <2>1, SameLog
        <3>2. WaitingInv'
            BY <1>1, <2>1, <3>1, WaitingKept
        <3>3. endId' = endId /\ saved' \in Nat \ {1}
            BY <1>1, <2>1 DEF SetMode, CutsInv
        <3> QED
            BY <3>1, <3>2, <3>3
    <2>2. ASSUME NEW e \in Entries, Acts(e, m), Harmless(e, pipeline)
          PROVE  LogInv' /\ Grows /\ WaitingInv' /\ endId' = endId /\ saved' \in Nat \ {1}
        BY <1>1, <2>2, ActsFacts
    <2> QED
        BY <1>4, <2>1, <2>2
<1>8. Options # {} => analysis' = NoLoop \/ analysis' \in Nat \ {0, 1}
    <2> SUFFICES ASSUME Options # {}
                 PROVE  analysis' = NoLoop \/ analysis' \in Nat \ {0, 1}
        OBVIOUS
    <2>1. ~Headless /\ (analysis = NoLoop \/ analysis \in Nat \ {0, 1})
        BY <1>1 DEF Interactive, CutsInv
    <2> QED
        BY <1>2, <1>4, <2>1, AnalysisFacts
<1>9. CutsInv'
    BY <1>1, <1>7, <1>8, LogFacts DEF CutsInv, Grows
<1> QED
    BY <1>5, <1>6, <1>7, <1>9

LEMMA HeardSteps ==
    ASSUME overtaken' = 0, Keeps, Interactive, IInv, NEW e, Hearing(e), e.kind \notin {"system", "message"},
           history' = Longer(e), Step(Longer(e), mode), pipeline' = pipeline
    PROVE  IInv'
<1>1. LogInv /\ HistoryInv /\ CutsInv /\ WaitingInv /\ CacheInv /\ CurrentInv
    BY DEF IInv
<1>2. PICK h : h = Longer(e)
    OBVIOUS
<1>3. PartOfLog(h) /\ Len(h) >= 2
    <2>1. heard >= 1
        BY <1>1, HearingFacts
    <2> QED
        BY <1>1, <1>2, <2>1, LongerFacts
<1>4. Len(log) >= 2
    BY <1>1, HearingFacts, LogFacts
<1>5. /\ LogInv' /\ Grows /\ CutsInv' /\ WaitingInv' /\ CacheInv' /\ endId' = endId
      /\ cache' = cache \/ cache' = FreshCache(h)
    BY <1>2, <1>3, <1>4, StepKeeps
<1>6. HistoryInv'
    BY <1>1, <1>5, HeardHistory
<1>7. CurrentInv'
    BY <1>1, <1>2, <1>5, HeardCurrent
<1> QED
    BY <1>5, <1>6, <1>7 DEF IInv

LEMMA HeardQuietly ==
    ASSUME overtaken' = 0, IInv, NEW e, Hearing(e), history' = Longer(e),
           UNCHANGED <<pipeline, cache, analysis>>, LogInv', Grows,
           endId' = endId, saved' \in Nat \ {1},
           pending' \in 0..Len(log'), open' \subseteq 1..Len(log')
    PROVE  IInv'
<1>1. LogInv /\ HistoryInv /\ CutsInv /\ WaitingInv /\ CacheInv /\ CurrentInv
    BY DEF IInv
<1>2. HistoryInv' /\ CurrentInv'
    BY <1>1, HeardHistory, HeardCurrent
<1>3. CutsInv'
    BY <1>1, CutsKept DEF CutsInv
<1>4. WaitingInv'
    BY <1>1 DEF WaitingInv
<1>5. CacheInv'
    BY <1>1, CacheKept
<1> QED
    BY <1>2, <1>3, <1>4, <1>5 DEF IInv

\* What waits for an answer keeps doing so while the log grows.
LEMMA StillWaiting ==
    ASSUME LogInv, WaitingInv, Grows
    PROVE  /\ \A n \in 0..Len(log) : n \in 0..Len(log')
           /\ pending \in 0..Len(log') /\ open \subseteq 1..Len(log') /\ 0 \in 0..Len(log')
BY LogFacts DEF WaitingInv, Grows

LEMMA HearMessageKeeps ==
    ASSUME overtaken' = 0, Keeps, Interactive, IInv, HearMessage
    PROVE  IInv' /\ Quiet
<1>1. LogInv /\ HistoryInv /\ CutsInv /\ WaitingInv
    BY DEF IInv
<1>2. PICK e : /\ Hearing(e) /\ e.kind = "message" /\ history' = Longer(e)
               /\ Publish(<<Event(0, "recall", 0, e.what)>>)
               /\ pending' = NextId /\ open' = open \cup {NextId}
               /\ SetMode("running", endId) /\ NoStep /\ pipeline' = pipeline
    BY Zenon DEF HearMessage
<1>3. e \in Entries /\ Len(log) >= 2
    BY <1>1, <1>2, HearingFacts, LogFacts
<1>4. e.what \in Contents
    BY <1>3 DEF Entries
<1>5. PICK r \in Entries : r = Event(0, "recall", 0, e.what) /\ r.kind = "recall"
                           /\ Harmless(r, pipeline)
    BY <1>4, Literals, LoggedEvent, Zenon
<1>6. LogInv' /\ Grows /\ Len(log') = NextId
    BY <1>1, <1>2, <1>3, <1>5, PublishOne
<1>7. endId' = endId /\ saved' \in Nat \ {1}
    BY <1>1, <1>2 DEF SetMode, CutsInv
<1>8. pending' \in 0..Len(log') /\ open' \subseteq 1..Len(log')
    <2>1. NextId \in Nat /\ NextId >= 1
        BY <1>1, LogFacts DEF NextId
    <2> QED
        BY <1>1, <1>2, <1>6, <2>1, StillWaiting
<1>9. Quiet
    <2>1. ~Decided
        BY <1>1, <1>2, <1>3, <1>5, PublishQuietly DEF DecidedKinds
    <2> QED
        BY <1>2, <2>1 DEF Quiet, SetMode
<1> QED
    BY <1>2, <1>6, <1>7, <1>8, <1>9, HeardQuietly DEF NoStep

\* The steps of the agent.
AgentSteps(e) ==
    /\ Hearing(e) /\ e.kind \notin {"system", "message"}
    /\ history' = Longer(e) /\ Step(Longer(e), mode) /\ pipeline' = pipeline

LEMMA HearAnswerKeeps ==
    ASSUME overtaken' = 0, Keeps, Interactive, IInv, HearAnswer
    PROVE  IInv' /\ (Quiet \/ \E e : AgentSteps(e))
<1>1. LogInv /\ HistoryInv /\ CutsInv /\ WaitingInv
    BY DEF IInv
<1>2. PICK e : /\ Hearing(e) /\ e.kind \in Observations \cup {"null"}
               /\ history' = Longer(e) /\ pipeline' = pipeline
               /\ \/ Step(Longer(e), mode)
                  \/ /\ pending' = IF pending = e.of THEN 0 ELSE pending
                     /\ NoStep /\ UNCHANGED <<log, endId, saved, mode, open>>
    BY Zenon DEF HearAnswer
<1>3. e.kind \notin {"system", "message"}
    BY <1>2 DEF Observations
<1>4. CASE Step(Longer(e), mode)
    <2>1. AgentSteps(e)
        BY <1>2, <1>3, <1>4 DEF AgentSteps
    <2> QED
        BY <1>2, <1>3, <1>4, <2>1, HeardSteps
<1>5. CASE /\ pending' = IF pending = e.of THEN 0 ELSE pending
           /\ NoStep /\ UNCHANGED <<log, endId, saved, mode, open>>
    <2>1. LogInv' /\ Grows
        BY <1>1, <1>2, <1>5, SameLog
    <2>2. pending' \in 0..Len(log') /\ open' \subseteq 1..Len(log')
        BY <1>1, <1>5, <2>1, StillWaiting
    <2>3. endId' = endId /\ saved' \in Nat \ {1}
        BY <1>1, <1>5 DEF CutsInv
    <2>4. Quiet
        BY <1>1, <1>5, SilentIsQuiet DEF Quiet
    <2> QED
        BY <1>2, <1>5, <2>1, <2>2, <2>3, <2>4, HeardQuietly DEF NoStep
<1> QED
    BY <1>2, <1>4, <1>5

LEMMA HearOwnKeeps ==
    ASSUME overtaken' = 0, Keeps, Interactive, IInv, HearOwn
    PROVE  IInv' /\ (Quiet \/ \E e : AgentSteps(e))
<1>1. LogInv /\ HistoryInv /\ CutsInv /\ WaitingInv
    BY DEF IInv
<1>2. PICK e : /\ Hearing(e) /\ e.kind \in {"condensation", "request", "say"}
               /\ history' = Longer(e) /\ pipeline' = pipeline
               /\ \/ Step(Longer(e), mode)
                  \/ NoStep /\ UNCHANGED <<log, endId, saved, mode, pending, open>>
    BY Zenon DEF HearOwn
<1>3. e.kind \notin {"system", "message"}
    BY <1>2
<1>4. CASE Step(Longer(e), mode)
    <2>1. AgentSteps(e)
        BY <1>2, <1>3, <1>4 DEF AgentSteps
    <2> QED
        BY <1>2, <1>3, <1>4, <2>1, HeardSteps
<1>5. CASE NoStep /\ UNCHANGED <<log, endId, saved, mode, pending, open>>
    <2>1. LogInv' /\ Grows
        BY <1>1, <1>2, <1>5, SameLog
    <2>2. pending' \in 0..Len(log') /\ open' \subseteq 1..Len(log')
        BY <1>1, <1>5, <2>1, StillWaiting
    <2>3. endId' = endId /\ saved' \in Nat \ {1}
        BY <1>1, <1>5 DEF CutsInv
    <2>4. Quiet
        BY <1>1, <1>5, SilentIsQuiet DEF Quiet
    <2> QED
        BY <1>2, <1>5, <2>1, <2>2, <2>3, <2>4, HeardQuietly DEF NoStep
<1> QED
    BY <1>2, <1>4, <1>5

LEMMA HearRestKeeps ==
    ASSUME overtaken' = 0, Keeps, Interactive, IInv, HearRest
    PROVE  IInv' /\ Quiet
<1>1. LogInv /\ HistoryInv /\ CutsInv /\ WaitingInv
    BY DEF IInv
<1>2. PICK e : /\ Hearing(e) /\ history' = Longer(e) /\ pipeline' = pipeline
               /\ SetMode(IF e.kind = "ask" THEN "awaiting" ELSE mode, endId)
               /\ NoStep /\ UNCHANGED <<log, pending, open>>
    BY Zenon DEF HearRest
<1>3. LogInv' /\ Grows
    BY <1>1, <1>2, SameLog
<1>4. pending' \in 0..Len(log') /\ open' \subseteq 1..Len(log')
    BY <1>1, <1>2, <1>3, StillWaiting
<1>5. endId' = endId /\ saved' \in Nat \ {1}
    BY <1>1, <1>2 DEF SetMode, CutsInv
<1>6. Quiet
    BY <1>1, <1>2, SilentIsQuiet DEF Quiet, SetMode
<1> QED
    BY <1>2, <1>3, <1>4, <1>5, <1>6, HeardQuietly DEF NoStep

\* A loop is cut out behind the first user message.
LEMMA CutFacts ==
    ASSUME IInv, Options # {}, analysis # NoLoop, NEW h, PartOfLog(h), Len(h) >= 2
    PROVE  /\ PartOfLog(Cut(h)) /\ Len(Cut(h)) >= 2
           /\ \A i \in 1..Len(Cut(h)) : Cut(h)[i] = h[i] /\ i \in 1..Len(h)
           /\ CutEnd(h) \in Nat \ {1}
           /\ CutEnd(h) = 0 => Cut(h) = h /\ CutEnd(h) = endId
<1>1. analysis \in Nat \ {0, 1} /\ endId \in Nat \ {1}
    BY DEF IInv, CutsInv
<1>2. h \in Seq(Entries) /\ Len(h) \in Nat
    BY DEF PartOfLog
<1>3. CASE analysis >= Len(h)
    BY <1>1, <1>2, <1>3 DEF Cut, CutEnd
<1>4. CASE ~(analysis >= Len(h))
    <2>1. analysis \in 1..Len(h) /\ 1 \in 1..Len(h) /\ 1 < analysis
        BY <1>1, <1>2, <1>4
    <2>2. Cut(h) = SubSeq(h, 1, analysis) /\ CutEnd(h) = h[analysis].id
        BY <1>1, <1>4 DEF Cut, CutEnd
    <2>3. h[1].id < h[analysis].id
        BY <2>1 DEF PartOfLog
    <2>4. h[1].id = 1 /\ h[analysis].id \in Nat
        BY <1>2, <2>1, LogFacts DEF PartOfLog, Opening, IInv
    <2>5. /\ PartOfLog(SubSeq(h, 1, analysis)) /\ Len(SubSeq(h, 1, analysis)) = analysis
          /\ \A i \in 1..analysis : SubSeq(h, 1, analysis)[i] = h[i]
        BY <2>1, BeginningFacts
    <2>6. \A i \in 1..analysis : i \in 1..Len(h)
        BY <1>2, <2>1
    <2> QED
        BY <1>1, <2>2, <2>3, <2>4, <2>5, <2>6
<1> QED
    BY <1>3, <1>4

LEMMA CutKeeps ==
    ASSUME overtaken' = 0, IInv, analysis # NoLoop, NEW e, Hearing(e), e.kind = "recovery",
           history' = Cut(Longer(e)), endId' = CutEnd(Longer(e)),
           saved' \in {saved, CutEnd(Longer(e))}, UNCHANGED <<pipeline, cache, analysis>>,
           LogInv', Grows, pending' \in 0..Len(log'), open' \subseteq 1..Len(log')
    PROVE  IInv'
<1>1. LogInv /\ HistoryInv /\ CutsInv /\ WaitingInv /\ CacheInv /\ CurrentInv
    BY DEF IInv
<1>2. PICK h : h = Longer(e)
    OBVIOUS
<1>3. /\ heard \in Nat /\ heard >= 2 /\ heard + 1 \in 1..Len(log)
      /\ heard' = heard + 1 /\ skipped' = {} /\ Options # {}
    <2>1. e.kind \notin {"system", "message"}
        OBVIOUS
    <2> QED
        BY <1>1, <2>1, HearingFacts
<1>4. /\ PartOfLog(h) /\ Len(h) >= 2
      /\ \A i \in 1..Len(h) : h[i].id <= heard + 1
    BY <1>1, <1>2, <1>3, LongerFacts
<1>5. PICK g : g = Cut(h)
    OBVIOUS
<1>6. /\ PartOfLog(g) /\ Len(g) >= 2
      /\ \A i \in 1..Len(g) : g[i] = h[i] /\ i \in 1..Len(h)
      /\ CutEnd(h) \in Nat \ {1}
      /\ CutEnd(h) = 0 => g = h /\ CutEnd(h) = endId
    BY <1>3, <1>4, <1>5, CutFacts
<1>7. HistoryInv'
    <2>1. PartOfLog(g)'
        BY <1>1, <1>6, PartGrows
    <2>2. heard' \in 0..Len(log')
        BY <1>1, <1>3, LogFacts DEF Grows
    <2>3. \A i \in 1..Len(g) : g[i].id <= heard'
        BY <1>3, <1>4, <1>6
    <2>4. Len(g) >= 1
        BY <1>6 DEF PartOfLog
    <2> QED
        BY <1>2, <1>3, <1>5, <1>6, <2>1, <2>2, <2>3, <2>4 DEF HistoryInv
<1>8. CutsInv'
    BY <1>1, <1>2, <1>6, CutsKept DEF CutsInv
<1>9. CurrentInv'
    <2>1. CASE endId' = 0
        <3>1. endId' = endId /\ history' = Longer(e)
            BY <1>2, <1>5, <1>6, <2>1
        <3> QED
            BY <1>1, <3>1, HeardCurrent
    <2>2. CASE endId' # 0
        BY <2>2 DEF CurrentInv
    <2> QED
        BY <2>1, <2>2
<1>10. WaitingInv'
    BY <1>1 DEF WaitingInv
<1>11. CacheInv'
    BY <1>1, CacheKept
<1> QED
    BY <1>7, <1>8, <1>9, <1>10, <1>11 DEF IInv

LEMMA TwoEvents ==
    ASSUME NEW a \in Entries, NEW b \in Entries
    PROVE  <<a, b>> \in Seq(Entries) /\ Len(<<a, b>>) = 2
           /\ <<a, b>>[1] = a /\ <<a, b>>[2] = b
OBVIOUS

LEMMA RecoverByUserKeeps ==
    ASSUME overtaken' = 0, Keeps, Interactive, IInv, analysis # NoLoop, NEW e, Hearing(e),
           e.kind = "recovery", RecoverByUser(Longer(e)), NoStep, pipeline' = pipeline
    PROVE  IInv' /\ Quiet
<1>1. LogInv /\ HistoryInv /\ CutsInv /\ WaitingInv
    BY DEF IInv
<1>2. e.kind \notin {"system", "message"}
    OBVIOUS
<1>3. Len(log) >= 2
    BY <1>1, <1>2, HearingFacts, LogFacts
<1>4. PICK l \in Entries : l = Event(0, "loop", 0, "") /\ l.kind = "loop"
                           /\ Harmless(l, pipeline)
    BY Literals, LoggedEvent, Zenon
<1>5. Publish(<<l>>)
    BY <1>4 DEF RecoverByUser
<1>6. LogInv' /\ Grows
    BY <1>1, <1>3, <1>4, <1>5, PublishOne
<1>7. pending' \in 0..Len(log') /\ open' \subseteq 1..Len(log')
    BY <1>1, <1>6, StillWaiting DEF RecoverByUser
<1>8. /\ history' = Cut(Longer(e)) /\ endId' = CutEnd(Longer(e))
      /\ saved' \in {saved, CutEnd(Longer(e))}
    BY DEF RecoverByUser, SetMode
<1>9. Quiet
    <2>1. ~Decided
        BY <1>1, <1>3, <1>4, <1>5, PublishQuietly DEF DecidedKinds
    <2> QED
        BY <2>1 DEF Quiet, RecoverByUser, SetMode
<1> QED
    BY <1>6, <1>7, <1>8, <1>9, CutKeeps DEF NoStep

LEMMA RecoverByMessageKeeps ==
    ASSUME overtaken' = 0, Keeps, Interactive, IInv, analysis # NoLoop, NEW e, Hearing(e),
           e.kind = "recovery", RecoverByMessage(Longer(e)), NoStep, pipeline' = pipeline
    PROVE  IInv' /\ Quiet
<1>1. LogInv /\ HistoryInv /\ CutsInv /\ WaitingInv
    BY DEF IInv
<1>2. e.kind \notin {"system", "message"}
    OBVIOUS
<1>3. Len(log) >= 2 /\ Len(log) \in Nat
    BY <1>1, <1>2, HearingFacts, LogFacts
<1>4. PICK h : h = Longer(e)
    OBVIOUS
<1>5. PartOfLog(h) /\ Len(h) >= 2 /\ h \in Seq(Entries)
    <2>1. heard >= 1
        BY <1>1, <1>2, HearingFacts
    <2> QED
        BY <1>1, <1>4, <2>1, LongerFacts DEF PartOfLog
<1>6. h[LastUser(h)].what \in Contents
    <2>1. LastUser(h) \in 1..Len(h)
        BY <1>1, <1>5, GoodPart, LastUserFacts
    <2>2. h[LastUser(h)] \in Entries
        BY <1>5, <2>1
    <2> QED
        BY <2>2 DEF Entries
<1>7. PICK l \in Entries : l = Event(0, "loop", 0, "") /\ l.kind = "loop"
                           /\ Harmless(l, pipeline)
    BY Literals, LoggedEvent, Zenon
<1>8. PICK r \in Entries : r = Event(0, "recall", 0, h[LastUser(h)].what)
                           /\ r.kind = "recall" /\ Harmless(r, pipeline)
    BY <1>6, Literals, LoggedEvent, Zenon
<1>9. PICK es \in Seq(Entries) : es = <<l, r>>
    BY TwoEvents
<1>10. Len(es) = 2 /\ \A k \in 1..Len(es) : Harmless(es[k], pipeline)
    <2>1. Len(es) = 2 /\ es[1] = l /\ es[2] = r
        BY <1>9, TwoEvents
    <2>2. \A k \in 1..Len(es) : k = 1 \/ k = 2
        BY <2>1
    <2> QED
        BY <1>7, <1>8, <2>1, <2>2
<1>11. Publish(es)
    BY <1>4, <1>7, <1>8, <1>9, Zenon DEF RecoverByMessage
<1>12. /\ LogInv' /\ Grows /\ Len(log') = Len(log) + Len(es)
       /\ log'[Len(log')].kind = "recall"
    <2>1. es # <<>> /\ es[Len(es)] = r
        BY <1>9, <1>10
    <2> QED
        BY <1>1, <1>3, <1>8, <1>10, <1>11, <2>1, PublishFacts
<1>13. pending' \in 0..Len(log') /\ open' \subseteq 1..Len(log')
    <2>1. pending' = NextId + 1 /\ open' = open \cup {NextId + 1}
        BY DEF RecoverByMessage
    <2>2. NextId + 1 \in 1..Len(log') /\ NextId + 1 \in 0..Len(log')
        BY <1>3, <1>10, <1>12 DEF NextId
    <2>3. open \subseteq 1..Len(log')
        BY <1>1, <1>12, StillWaiting
    <2> QED
        BY <2>1, <2>2, <2>3
<1>14. /\ history' = Cut(Longer(e)) /\ endId' = CutEnd(Longer(e))
       /\ saved' \in {saved, CutEnd(Longer(e))}
    BY DEF RecoverByMessage, SetMode
<1>15. Quiet
    BY <1>12 DEF Quiet, Decided, RecoverByMessage, SetMode
<1> QED
    BY <1>12, <1>13, <1>14, <1>15, CutKeeps DEF NoStep

LEMMA DropsFacts ==
    ASSUME LogInv, WaitingInv, Len(log) >= 2, NEW h, Drops(h), pipeline' = pipeline
    PROVE  LogInv' /\ Grows /\ ~Decided
<1>1. \/ Publish(<<>>)
      \/ Publish(<<Event(0, "error", pending, "stopped")>>)
    BY Zenon DEF Drops
<1>2. CASE Publish(<<>>)
    <2>0. <<>> \in Seq(Entries)
        OBVIOUS
    <2>1. PICK es \in Seq(Entries) : es = <<>>
        BY <2>0, Zenon
    <2>2. \A k \in 1..Len(es) : Harmless(es[k], pipeline)
        BY <2>1
    <2>3. Publish(es)
        BY <1>2, <2>1
    <2>4. LogInv' /\ Grows /\ Len(log') = Len(log) + Len(es)
        BY <2>2, <2>3, PublishFacts
    <2>5. Len(log') = Len(log) /\ Len(log) \in Nat
        BY <2>1, <2>4, LogFacts
    <2> QED
        BY <2>4, <2>5 DEF Decided
<1>3. CASE Publish(<<Event(0, "error", pending, "stopped")>>)
    <2>1. pending \in Nat
        BY LogFacts DEF WaitingInv
    <2>2. PICK e \in Entries : e = Event(0, "error", pending, "stopped")
                               /\ e.kind = "error" /\ Harmless(e, pipeline)
        BY <2>1, Literals, LoggedEvent, Zenon
    <2>3. Publish(<<e>>)
        BY <1>3, <2>2
    <2> QED
        BY <2>2, <2>3, PublishOne, PublishQuietly DEF DecidedKinds
<1> QED
    BY <1>1, <1>2, <1>3

LEMMA HearRecoveryKeeps ==
    ASSUME overtaken' = 0, Keeps, Interactive, IInv, HearRecovery
    PROVE  IInv' /\ Quiet
<1>1. LogInv /\ HistoryInv /\ CutsInv /\ WaitingInv
    BY DEF IInv
<1>2. PICK e : /\ Hearing(e) /\ e.kind = "recovery" /\ NoStep /\ pipeline' = pipeline
               /\ \/ /\ history' = Longer(e) /\ SetMode("stopped", endId)
                     /\ Drops(Longer(e)) /\ UNCHANGED open
                  \/ analysis # NoLoop /\ RecoverByMessage(Longer(e))
                  \/ analysis # NoLoop /\ RecoverByUser(Longer(e))
                  \/ /\ history' = Longer(e)
                     /\ UNCHANGED <<log, endId, saved, mode, pending, open>>
    BY DEF HearRecovery
<1>3. Len(log) >= 2
    BY <1>1, <1>2, HearingFacts, LogFacts
<1>4. CASE /\ history' = Longer(e) /\ SetMode("stopped", endId)
           /\ Drops(Longer(e)) /\ UNCHANGED open
    <2>1. LogInv' /\ Grows /\ Quiet
        BY <1>1, <1>2, <1>3, <1>4, DropsFacts DEF Quiet, SetMode
    <2>2. endId' = endId /\ saved' \in Nat \ {1}
        BY <1>1, <1>4 DEF SetMode, CutsInv
    <2>3. pending' \in 0..Len(log') /\ open' \subseteq 1..Len(log')
        BY <1>1, <1>4, <2>1, StillWaiting DEF Drops
    <2> QED
        BY <1>2, <1>4, <2>1, <2>2, <2>3, HeardQuietly DEF NoStep
<1>5. CASE analysis # NoLoop /\ RecoverByMessage(Longer(e))
    BY <1>2, <1>5, RecoverByMessageKeeps
<1>6. CASE analysis # NoLoop /\ RecoverByUser(Longer(e))
    BY <1>2, <1>6, RecoverByUserKeeps
<1>7. CASE /\ history' = Longer(e)
           /\ UNCHANGED <<log, endId, saved, mode, pending, open>>
    <2>1. LogInv' /\ Grows /\ Quiet
        BY <1>1, <1>2, <1>7, SameLog, SilentIsQuiet DEF Quiet
    <2>2. pending' \in 0..Len(log') /\ open' \subseteq 1..Len(log')
        BY <1>1, <1>7, <2>1, StillWaiting
    <2>3. endId' = endId /\ saved' \in Nat \ {1}
        BY <1>1, <1>7 DEF CutsInv
    <2> QED
        BY <1>2, <1>7, <2>1, <2>2, <2>3, HeardQuietly DEF NoStep
<1> QED
    BY <1>2, <1>4, <1>5, <1>6, <1>7

\* What a restart loads is a part of the log, with the first two events.
LEMMA StoredFacts ==
    ASSUME LogInv, NEW n \in Nat \ {1}
    PROVE  /\ PartOfLog(Stored(n)) /\ Len(Stored(n)) >= 1
           /\ Len(log) >= 2 => Len(Stored(n)) >= 2
<1> DEFINE P == {i \in DOMAIN log : Included(log[i]) /\ (n = 0 \/ log[i].id <= n)}
<1>1. /\ log \in Seq(Entries) /\ Len(log) \in Nat /\ Len(log) >= 1
      /\ DOMAIN log = 1..Len(log) /\ \A i \in 1..Len(log) : log[i].id = i
    BY LogFacts
<1>2. PICK t : t = Stored(n)
    OBVIOUS
<1>3. t = Picked(log, P)
    BY <1>2 DEF Stored
<1>4. 1 \in P
    <2>1. Included(log[1])
        BY DEF LogInv, Included
    <2> QED
        BY <1>1, <2>1
<1>5. Len(log) >= 2 => 2 \in P
    <2> SUFFICES ASSUME Len(log) >= 2 PROVE 2 \in P
        OBVIOUS
    <2>1. Included(log[2])
        BY DEF LogInv, Included
    <2> QED
        BY <1>1, <2>1
<1> HIDE DEF P
<1>6. t \in Seq(Entries) /\ Len(t) \in Nat
    BY <1>1, <1>3, PickedFacts
<1>7. PICK at : Selects(t, at, log, P, Len(log))
    BY <1>1, <1>3, PickedFacts
<1>8. \A i \in 1..Len(t) : at[i] \in 1..Len(log) /\ t[i] = log[at[i]] /\ t[i].id = at[i]
    BY <1>1, <1>7 DEF Selects
<1>9. \A i, j \in 1..Len(t) : i < j => t[i].id < t[j].id
    BY <1>7, <1>8 DEF Selects
<1>10. PICK a \in 1..Len(t) : t[a].id = 1
    <2>1. 1 \in (1..Len(log)) \cap P
        BY <1>1, <1>4
    <2> QED
        BY <1>7, <1>8, <2>1 DEF Selects
<1>11. a = 1
    <2>1. SUFFICES ASSUME 1 < a PROVE FALSE
        BY <1>6
    <2>2. 1 \in 1..Len(t)
        BY <1>6, <2>1
    <2>3. t[1].id < t[a].id /\ t[1].id \in 1..Len(log)
        BY <1>8, <1>9, <2>1, <2>2
    <2> QED
        BY <1>10, <2>3
<1>12. ASSUME Len(log) >= 2 PROVE Len(t) >= 2 /\ t[2].id = 2
    <2>1. PICK b \in 1..Len(t) : t[b].id = 2
        <3>1. 2 \in (1..Len(log)) \cap P
            BY <1>1, <1>5, <1>12
        <3> QED
            BY <1>7, <1>8, <3>1 DEF Selects
    <2>2. b >= 2
        BY <1>6, <1>10, <1>11, <2>1
    <2>3. 2 \in 1..Len(t) /\ 1 \in 1..Len(t)
        BY <1>6, <2>2
    <2>4. ASSUME 2 < b PROVE FALSE
        <3>1. t[1].id < t[2].id /\ t[2].id < t[b].id
            BY <1>9, <2>3, <2>4
        <3>2. t[2].id \in Nat
            BY <1>1, <1>8, <2>3
        <3> QED
            BY <1>10, <1>11, <2>1, <3>1, <3>2
    <2>5. b = 2
        BY <1>6, <2>2, <2>4
    <2> QED
        BY <1>6, <2>1, <2>5
<1>13. Len(t) >= 2 => Len(log) >= 2
    <2> SUFFICES ASSUME Len(t) >= 2 PROVE Len(log) >= 2
        OBVIOUS
    <2>1. 1 \in 1..Len(t) /\ 2 \in 1..Len(t)
        BY <1>6
    <2>2. t[1].id < t[2].id /\ t[1].id \in 1..Len(log) /\ t[2].id \in 1..Len(log)
        BY <1>8, <1>9, <2>1
    <2> QED
        BY <1>1, <2>2
<1>14. Opening(t)
    BY <1>10, <1>11, <1>12, <1>13 DEF Opening
<1>15. PartOfLog(t)
    BY <1>6, <1>8, <1>9, <1>14 DEF PartOfLog
<1> QED
    BY <1>2, <1>6, <1>10, <1>11, <1>12, <1>15

LEMMA CrashKeeps ==
    ASSUME IInv, Crash
    PROVE  IInv' /\ Quiet
<1>1. LogInv /\ HistoryInv /\ CutsInv /\ WaitingInv
    BY DEF IInv
<1>2. /\ history' = Stored(saved) /\ endId' = saved /\ heard' = Len(log)
      /\ skipped' = {} /\ overtaken' = overtaken
      /\ cache' = NoCache /\ pending' = 0 /\ open' = {} /\ analysis' = NoLoop
      /\ mode' = "awaiting" /\ UNCHANGED <<log, saved, pipeline>>
    BY DEF Crash
<1>3. LogInv' /\ Grows
    BY <1>1, <1>2, SameLog
<1>4. PICK h : h = Stored(saved)
    OBVIOUS
<1>5. /\ PartOfLog(h) /\ Len(h) >= 1 /\ (Len(log) >= 2 => Len(h) >= 2)
    BY <1>1, <1>4, StoredFacts DEF CutsInv
<1>6. HistoryInv'
    <2>1. PartOfLog(h)'
        BY <1>1, <1>3, <1>5, PartGrows
    <2>2. heard' \in 0..Len(log') /\ log' = log /\ overtaken' = 0 /\ skipped' = {}
        BY <1>1, <1>2, LogFacts DEF HistoryInv
    <2>3. \A i \in 1..Len(h) : h[i].id <= heard'
        BY <1>2, <1>5, LogFacts, <1>1 DEF PartOfLog
    <2> QED
        BY <1>2, <1>4, <1>5, <2>1, <2>2, <2>3 DEF HistoryInv
<1>7. CutsInv'
    BY <1>1, <1>2 DEF CutsInv
<1>8. WaitingInv'
    BY <1>1, <1>2, LogFacts DEF WaitingInv
<1>9. CacheInv'
    BY <1>2 DEF CacheInv, NoCache
<1>10. CurrentInv'
    <2>1. cache'.checksum = -1
        BY <1>2 DEF NoCache
    <2>2. Len(h) \in Nat
        BY <1>5 DEF PartOfLog
    <2> QED
        BY <1>2, <1>4, <2>1, <2>2 DEF CurrentInv
<1>11. Quiet
    BY <1>1, <1>2, SilentIsQuiet DEF Quiet
<1> QED
    BY <1>3, <1>6, <1>7, <1>8, <1>9, <1>10, <1>11 DEF IInv

LEMMA InitHolds ==
    ASSUME Init
    PROVE  IInv
<1>1. PICK e \in Entries : e = Event(1, "system", 0, "") /\ e.kind = "system"
                           /\ e.id = 1 /\ Harmless(e, pipeline)
    <2>1. PICK e : e = Entry(1, "system", 0, "", {}, NoSummary)
        OBVIOUS
    <2>2. 1 \in Nat /\ 0 \in Nat /\ "system" \in LoggedKinds \cup {"summary"}
          /\ {} \in SUBSET Nat /\ "system" \in LoggedKinds
        BY DEF LoggedKinds
    <2>3. e \in Entries
        BY <2>1, <2>2, Literals, NoSummaryType, EntryIsTyped, Zenon
    <2>4. e.kind = "system" /\ e.id = 1 /\ e.forget = {} /\ e.summary = NoSummary
        BY <2>1 DEF Entry
    <2>5. NoSummary.offset = -1
        BY DEF NoSummary
    <2>6. Harmless(e, pipeline)
        BY <2>2, <2>4, <2>5 DEF Harmless
    <2> QED
        BY <2>1, <2>3, <2>4, <2>6 DEF Event
<1>2. log = <<e>>
    BY <1>1 DEF Init
<1>3. LogInv
    <2>1. log \in Seq(Entries) /\ Len(log) = 1 /\ log[1] = e
        BY <1>2
    <2>2. \A i \in 1..Len(log) : i = 1
        BY <2>1
    <2>3. log # <<>> /\ ~(Len(log) >= 2)
        BY <2>1
    <2> QED
        BY <1>1, <2>1, <2>2, <2>3, Zenon DEF LogInv
<1>4. Len(log) = 1
    BY <1>2
<1>5. HistoryInv
    <2>1. history = <<>> /\ heard = 0 /\ skipped = {} /\ overtaken = 0
        BY DEF Init
    <2>2. PartOfLog(history)
        BY <2>1 DEF PartOfLog, Opening
    <2> QED
        BY <1>4, <2>1, <2>2 DEF HistoryInv
<1>6. CutsInv
    <2>1. endId = 0 /\ saved = 0 /\ analysis = NoLoop
        BY DEF Init
    <2> QED
        BY <2>1 DEF CutsInv
<1>7. WaitingInv
    <2>1. pending = 0 /\ open = {} /\ pipeline \in Pipelines
        BY DEF Init
    <2> QED
        BY <1>4, <2>1 DEF WaitingInv
<1>8. CacheInv /\ CurrentInv
    <2>1. cache = NoCache /\ history = <<>>
        BY DEF Init
    <2>2. NoCache.checksum = -1 /\ Len(history) = 0
        BY <2>1 DEF NoCache
    <2> QED
        BY <2>1, <2>2 DEF CacheInv, CurrentInv
<1> QED
    BY <1>3, <1>5, <1>6, <1>7, <1>8 DEF IInv

LEMMA NextKeeps ==
    ASSUME overtaken' = 0, Keeps, Interactive, IInv, Next
    PROVE  IInv' /\ (Quiet \/ \E e : AgentSteps(e))
BY UserWritesKeeps, MemoryAnswersKeeps, ToolEndsKeeps, UserRecoversKeeps,
   HearMessageKeeps, HearAnswerKeeps, HearOwnKeeps, HearRestKeeps,
   HearRecoveryKeeps, CrashKeeps DEF Next

LEMMA StutterKeeps ==
    ASSUME IInv, UNCHANGED vars
    PROVE  IInv'
<1>1. LogInv' /\ Grows
    BY SameLog DEF IInv, vars
<1>2. HistoryInv' /\ CutsInv' /\ WaitingInv' /\ CacheInv' /\ CurrentInv'
    BY <1>1, SameHistory, CutsKept, WaitingKept, CacheKept, CurrentKept
       DEF IInv, vars, CutsInv
<1> QED
    BY <1>1, <1>2 DEF IInv

\* Overtakings are counted, and never forgotten.
LEMMA OvertakenGrows ==
    ASSUME overtaken \in Nat, [Next]_vars
    PROVE  overtaken' \in Nat /\ (overtaken' = 0 => overtaken = 0)
<1>1. overtaken' \in {overtaken, overtaken + 1}
    <2>1. ASSUME NEW e, Hearing(e) PROVE overtaken' \in {overtaken, overtaken + 1}
        BY <2>1 DEF Hearing
    <2>2. CASE HearMessage \/ HearAnswer \/ HearOwn \/ HearRest \/ HearRecovery
        BY <2>1, <2>2, Zenon DEF HearMessage, HearAnswer, HearOwn, HearRest, HearRecovery
    <2>3. CASE UserWrites \/ MemoryAnswers \/ ToolEnds \/ UserRecovers \/ Crash
        BY <2>3 DEF UserWrites, MemoryAnswers, ToolEnds, UserRecovers, Crash
    <2>4. CASE UNCHANGED vars
        BY <2>4 DEF vars
    <2> QED
        BY <2>2, <2>3, <2>4 DEF Next
<1> QED
    BY <1>1

\* Every state that is reached with the events heard in their order has the
\* inductive invariant: what the agent, the condensers, a recovery or a restart
\* writes never touches the system message and the user's first message, and the
\* cached view is a view of the history's beginning until a loop is cut out
\* (state.py:298-311).
InTurn == overtaken = 0
Sound == overtaken \in Nat /\ (InTurn => IInv)

THEOREM Inductive ==
    ASSUME Keeps, Interactive
    PROVE  Spec => []Sound
<1>1. Init => Sound
    BY InitHolds DEF Sound, IInv, HistoryInv, InTurn
<1>2. ASSUME Sound, [Next]_vars PROVE Sound'
    <2>1. overtaken' \in Nat /\ (InTurn' => InTurn)
        BY <1>2, OvertakenGrows DEF Sound, InTurn
    <2>2. ASSUME InTurn' PROVE IInv'
        <3>1. IInv /\ overtaken' = 0
            BY <1>2, <2>1, <2>2 DEF Sound, InTurn
        <3>2. CASE Next
            BY <3>1, <3>2, NextKeeps
        <3>3. CASE UNCHANGED vars
            BY <3>1, <3>3, StutterKeeps
        <3> QED
            BY <1>2, <3>2, <3>3
    <2> QED
        BY <2>1, <2>2 DEF Sound
<1> QED
    BY <1>1, <1>2, PTL DEF Spec

LEMMA StepsInTurn ==
    ASSUME Sound, InTurn', [Next]_vars
    PROVE  IInv /\ overtaken' = 0
BY OvertakenGrows DEF Sound, InTurn

-----------------------------------------------------------------------------
(* The task stays in view.                                                 *)

LEMMA KeptInView ==
    ASSUME Keeps, NEW p, NEW h, GoodHistory(h, p), NEW n \in 1..Len(h),
           h[n].id \notin Forgotten(h)
    PROVE  h[n] \in Range(ViewOf(h))
<1>1. h \in Seq(Entries)
    BY DEF GoodHistory
<1>2. PICK k \in Seq(Entries) : k = Kept(h)
    BY <1>1, KeptOrigins
<1>3. PICK i \in 1..Len(k) : k[i] = h[n]
    BY <1>1, <1>2, KeptOrigins DEF Origins
<1>4. PICK v : v = ViewOf(h)
    OBVIOUS
<1>5. CASE v = k
    BY <1>3, <1>4, <1>5 DEF Range
<1>6. CASE v # k
    <2>1. PICK m \in Summaries(h) :
            v = InsertAt(k, MinOf({KeepFirst, Len(k)}) + 1,
                         SummaryEvent(h[m].summary.covers))
        BY <1>2, <1>4, <1>6, ViewShape
    <2>2. m \in 1..Len(h)
        BY <1>1 DEF Summaries, Condensations
    <2>3. PICK e \in Entries : e = SummaryEvent(h[m].summary.covers)
        BY <1>1, <2>2, EntryType, SummaryEventType
    <2>4. PICK a : a = MinOf({KeepFirst, Len(k)}) + 1
        OBVIOUS
    <2>5. a \in 1..Len(k) + 1 /\ Len(k) \in Nat
        BY <2>4, MinOfPair, SizesAssumption DEF SizesAssumption
    <2>6. v = InsertAt(k, a, e)
        BY <2>1, <2>3, <2>4
    <2>7. /\ v \in Seq(Entries) /\ Len(v) = Len(k) + 1
          /\ \A j \in 1..Len(k) + 1 : v[j] = IF j < a THEN k[j]
                                             ELSE IF j = a THEN e ELSE k[j - 1]
        <3>1. Inserted(v, k, a, e)
            BY <2>5, <2>6, InsertFacts, Zenon
        <3> QED
            BY <3>1 DEF Inserted
    <2>8. \E j \in 1..Len(v) : v[j] = k[i]
        <3>1. CASE i < a
            <4>1. i \in 1..Len(k) + 1 /\ i \in 1..Len(v)
                BY <2>5, <2>7
            <4> QED
                BY <3>1, <4>1, <2>7
        <3>2. CASE ~(i < a)
            <4>1. i + 1 \in 1..Len(k) + 1 /\ i + 1 \in 1..Len(v)
                BY <2>5, <2>7
            <4>2. ~(i + 1 < a) /\ i + 1 # a /\ (i + 1) - 1 = i
                BY <2>5, <3>2
            <4>3. v[i + 1] = k[i]
                BY <4>1, <4>2, <2>7
            <4> QED
                BY <4>1, <4>3
        <3> QED
            BY <3>1, <3>2
    <2>9. DOMAIN v = 1..Len(v)
        BY <2>7
    <2> QED
        BY <1>3, <1>4, <2>8, <2>9 DEF Range
<1> QED
    BY <1>5, <1>6

LEMMA FirstIsEarly ==
    ASSUME NEW p, NEW h, GoodHistory(h, p), NEW kind \in {"system", "message"},
           NEW first, first = SelectInSeq(h, LAMBDA e : e.kind = kind), first # 0
    PROVE  first \in 1..Len(h) /\ first <= 2
<1> DEFINE I == {i \in 1..Len(h) : h[i].kind = kind}
<1>1. Len(h) \in Nat
    BY DEF GoodHistory
<1>2. first = IF I # {} THEN CHOOSE x \in I : \A y \in I : x <= y ELSE 0
    BY DEF SelectInSeq, Min
<1>3. I \in SUBSET Nat /\ I \in SUBSET (1..Len(h)) /\ I # {}
    <2>1. I # {}
        BY <1>2, Zenon
    <2> QED
        BY <2>1
<1>4. first \in I /\ \A y \in I : first <= y
    <2> HIDE DEF I
    <2> QED
        BY <1>2, <1>3, LeastNumber
<1>5. first <= 2
    <2> SUFFICES ASSUME first > 2 PROVE FALSE
        BY <1>3, <1>4
    <2>1. Len(h) >= 2 /\ 1 \in 1..Len(h) /\ 2 \in 1..Len(h)
        BY <1>1, <1>3, <1>4
    <2>2. h[1].kind = "system" /\ h[2].kind = "message"
        BY <1>1, <2>1 DEF GoodHistory
    <2>3. 1 \in I \/ 2 \in I
        BY <2>1, <2>2
    <2>4. first <= 1 \/ first <= 2
        BY <1>4, <2>3, Zenon
    <2>5. first \in Nat
        BY <1>3, <1>4
    <2> QED
        BY <2>4, <2>5
<1> QED
    BY <1>3, <1>4, <1>5

\* The system message and the user's first message stay in the agent's view,
\* whatever the condensers decide and loops cut out (view.py:22-103), as long as the
\* events are heard in their order.
THEOREM TheTaskIsKept ==
    ASSUME Keeps, Interactive
    PROVE  Spec => []TaskIsKept
<1>1. ASSUME Sound PROVE TaskIsKept
    <2> SUFFICES ASSUME InTurn PROVE TaskIsKept
        BY DEF TaskIsKept, InTurn
    <2>1. GoodHistory(history, pipeline)
        BY <1>1, GoodPart DEF Sound, IInv, HistoryInv
    <2>2. ASSUME NEW kind \in {"system", "message"},
                 NEW first, first = SelectInSeq(history, LAMBDA e : e.kind = kind),
                 first # 0
          PROVE  history[first] \in Range(ViewOf(history))
        <3>1. first \in 1..Len(history) /\ first <= 2
            BY <2>1, <2>2, FirstIsEarly
        <3> QED
            BY <2>1, <3>1, OpeningStays, KeptInView
    <2> QED
        BY <2>2 DEF TaskIsKept
<1> QED
    BY <1>1, Inductive, PTL

-----------------------------------------------------------------------------
(* What the agent decides, and on which view.                              *)

LEMMA StepFails ==
    ASSUME Keeps, IInv, NEW h, PartOfLog(h), Len(h) >= 2, Len(log) >= 2,
           pipeline' = pipeline, mode # "failed", Step(h, mode), mode' = "failed"
    PROVE  MayFail(pipeline, cache'.view, cache'.unhandled)
<1>1. LogInv /\ HistoryInv /\ CutsInv /\ WaitingInv /\ CacheInv
    BY DEF IInv
<1>2. PICK c : c = Condensed(pipeline, CacheFor(h).view, CacheFor(h).unhandled)
    OBVIOUS
<1>3. \/ SetMode("error", endId)
      \/ c # <<>> /\ c[1] = Raised /\ cache' = CacheFor(h)
      \/ \E e \in Entries : Acts(e, mode) /\ Harmless(e, pipeline)
    BY <1>1, <1>2, StepShape, Zenon
<1>4. ~SetMode("error", endId)
    BY DEF SetMode
<1>5. ~(\E e \in Entries : Acts(e, mode) /\ Harmless(e, pipeline))
    BY <1>1, ActsFacts
<1>6. c # <<>> /\ c[1] = Raised /\ cache' = CacheFor(h)
    BY <1>3, <1>4, <1>5
<1>7. pipeline \in Pipelines /\ CacheFor(h).unhandled \in BOOLEAN
      /\ GoodView(CacheFor(h).view, pipeline)
    BY <1>1, CacheForFacts DEF WaitingInv
<1>8. MayFail(pipeline, CacheFor(h).view, CacheFor(h).unhandled)
    BY <1>2, <1>6, <1>7, CondensedFacts
<1> QED
    BY <1>6, <1>8

LEMMA AgentStepsFacts ==
    ASSUME overtaken' = 0, IInv, NEW e, AgentSteps(e)
    PROVE  PartOfLog(Longer(e)) /\ Len(Longer(e)) >= 2 /\ Len(log) >= 2
<1>1. LogInv /\ HistoryInv
    BY DEF IInv
<1>2. Hearing(e) /\ e.kind \notin {"system", "message"}
    BY DEF AgentSteps
<1>3. heard >= 2 /\ heard >= 1 /\ Len(log) >= 2
    BY <1>1, <1>2, HearingFacts, LogFacts
<1> QED
    BY <1>1, <1>2, <1>3, LongerFacts

\* A condenser of any pipeline fails only when its constants leave it nothing of the
\* tail, or when a request for a condensation meets a view that is short already
\* and no window condenser (llm_summarizing_condenser.py:52-161,
\* amortized_forgetting_condenser.py:40-58, pipeline.py:34-40).
THEOREM CondensersFailShort ==
    ASSUME Keeps, Interactive
    PROVE  Spec /\ []InTurn => OnlyShortViewsFail
<1>1. ASSUME Sound, InTurn', [Next]_vars, mode' = "failed", mode # "failed"
      PROVE  MayFail(pipeline, cache'.view, cache'.unhandled)
    <2>1. IInv /\ overtaken' = 0
        BY <1>1, StepsInTurn
    <2>2. Next
        BY <1>1 DEF vars
    <2>3. ~Quiet
        BY <1>1 DEF Quiet
    <2>4. PICK e : AgentSteps(e)
        BY <2>1, <2>2, <2>3, NextKeeps
    <2>5. PICK h : h = Longer(e)
        OBVIOUS
    <2>6. Step(h, mode) /\ pipeline' = pipeline
        BY <2>4, <2>5 DEF AgentSteps
    <2>7. PartOfLog(h) /\ Len(h) >= 2 /\ Len(log) >= 2
        BY <2>1, <2>4, <2>5, AgentStepsFacts
    <2> QED
        BY <1>1, <2>1, <2>6, <2>7, StepFails
<1>2. ASSUME Sound, InTurn', [Next]_vars
      PROVE  [mode' = "failed" /\ mode # "failed" =>
                \/ "summarizing" \in Range(pipeline) /\ FromTail(KeepFirst) = 0
                \/ /\ cache'.unhandled /\ pipeline[1] # "window"
                   /\ Len(cache'.view) <= MaxSize \div 2]_vars
    BY <1>1, <1>2 DEF MayFail
<1> QED
    BY <1>2, Inductive, PTL DEF Spec, OnlyShortViewsFail

\* A decision of the agent is one event, published by the step, and the view that
\* it was decided on is the one in the cache.
LEMMA DecisionFacts ==
    ASSUME overtaken' = 0, Keeps, Interactive, IInv, Next, Decided
    PROVE  \E e :
             /\ AgentSteps(e) /\ cache' = CacheFor(Longer(e))
             /\ log'[Len(log')].kind = "condensation" =>
                  LET c == Condensed(pipeline, CacheFor(Longer(e)).view,
                                     CacheFor(Longer(e)).unhandled)
                  IN  /\ c # <<>> /\ c[1] # Raised
                      /\ log'[Len(log')].forget = c[1].forget
                      /\ log'[Len(log')].summary = c[1].summary
<1>1. LogInv /\ HistoryInv /\ CutsInv /\ WaitingInv /\ CacheInv
    BY DEF IInv
<1>2. PICK e : AgentSteps(e)
    BY NextKeeps DEF Quiet
<1>3. PICK h : h = Longer(e)
    OBVIOUS
<1>4. PartOfLog(h) /\ Len(h) >= 2 /\ Len(log) >= 2
    BY <1>2, <1>3, AgentStepsFacts
<1>5. Step(h, mode) /\ pipeline' = pipeline
    BY <1>2, <1>3 DEF AgentSteps
<1>6. PICK c : c = Condensed(pipeline, CacheFor(h).view, CacheFor(h).unhandled)
    OBVIOUS
<1>7. \/ log' = log
      \/ /\ cache' = CacheFor(h)
         /\ \E a \in Entries :
              /\ Acts(a, mode) /\ Harmless(a, pipeline)
              /\ \/ a.kind \in {"call", "say", "ask", "request"}
                 \/ a.kind = "condensation" /\ c # <<>> /\ a = c[1] /\ a # Raised
    BY <1>1, <1>4, <1>5, <1>6, StepShape, Zenon
<1>8. log' # log
    BY <1>1, SilentIsQuiet
<1>9. PICK a \in Entries :
        /\ Acts(a, mode) /\ Harmless(a, pipeline)
        /\ \/ a.kind \in {"call", "say", "ask", "request"}
           \/ a.kind = "condensation" /\ c # <<>> /\ a = c[1] /\ a # Raised
    BY <1>7, <1>8
<1>10. /\ log'[Len(log')].kind = a.kind /\ log'[Len(log')].forget = a.forget
       /\ log'[Len(log')].summary = a.summary
    BY <1>1, <1>4, <1>5, <1>9, ActsFacts
<1>11. log'[Len(log')].kind = "condensation" =>
         /\ c # <<>> /\ c[1] # Raised
         /\ log'[Len(log')].forget = c[1].forget
         /\ log'[Len(log')].summary = c[1].summary
    BY <1>9, <1>10
<1> QED
    BY <1>2, <1>3, <1>6, <1>7, <1>8, <1>11, Zenon

\* Until a loop is cut out, the agent decides on a view of the history as it is
\* (state.py:298-311).
THEOREM DecidesOnTheCurrentView ==
    ASSUME Keeps, Interactive
    PROVE  Spec /\ []InTurn => ViewIsCurrentUnlessCut
<1>1. ASSUME Sound, InTurn', [Next]_vars
      PROVE  [Decided /\ endId = 0 => cache'.view = ViewOf(history')]_vars
    <2> SUFFICES ASSUME Next, Decided, endId = 0 PROVE cache'.view = ViewOf(history')
        BY <1>1
    <2>0. IInv /\ overtaken' = 0
        BY <1>1, StepsInTurn
    <2>1. PICK e : AgentSteps(e) /\ cache' = CacheFor(Longer(e))
        BY <2>0, DecisionFacts
    <2>2. Hearing(e) /\ history' = Longer(e)
        BY <2>1 DEF AgentSteps
    <2>3. CacheFor(Longer(e)).view = ViewOf(Longer(e))
        BY <2>0, <2>2, CurrentView DEF IInv
    <2> QED
        BY <2>1, <2>2, <2>3
<1> QED
    BY <1>1, Inductive, PTL DEF Spec, ViewIsCurrentUnlessCut

-----------------------------------------------------------------------------
(* A condensation by size halves the view.                                 *)

LEMMA FitsInto ==
    ASSUME NEW n \in Nat, NEW m \in Nat, NEW f \in [1..n -> 1..m],
           \A i, j \in 1..n : f[i] = f[j] => i = j
    PROVE  n <= m
<1> SUFFICES ASSUME m < n PROVE FALSE
    OBVIOUS
<1>1. IsFiniteSet(1..n) /\ Cardinality(1..n) = n
    BY FS_Interval
<1>2. IsFiniteSet(1..m) /\ Cardinality(1..m) = m
    BY FS_Interval
<1>3. \E i, j \in 1..n : i # j /\ f[i] = f[j]
    <2>1. Cardinality(1..m) < Cardinality(1..n)
        BY <1>1, <1>2
    <2> QED
        BY <1>1, <1>2, <2>1, FS_PigeonHole, Zenon
<1> QED
    BY <1>3

\* What a new condensation forgets is forgotten in the longer history.
LEMMA MoreForgotten ==
    ASSUME NEW h \in Seq(Entries), NEW new \in Entries, new.kind = "condensation",
           NEW g, g = Append(h, new)
    PROVE  /\ g \in Seq(Entries) /\ Len(g) = Len(h) + 1
           /\ \A i \in 1..Len(h) : g[i] = h[i]
           /\ g[Len(h) + 1] = new
           /\ Forgotten(h) \subseteq Forgotten(g)
           /\ new.forget \subseteq Forgotten(g) /\ new.id \in Forgotten(g)
<1>1. /\ g \in Seq(Entries) /\ Len(g) = Len(h) + 1 /\ Len(h) \in Nat
      /\ DOMAIN g = 1..Len(g) /\ DOMAIN h = 1..Len(h)
      /\ \A i \in 1..Len(h) : g[i] = h[i]
      /\ g[Len(h) + 1] = new
    OBVIOUS
<1>2. Len(h) + 1 \in Condensations(g)
    BY <1>1 DEF Condensations
<1>3. \A i \in Condensations(h) : i \in Condensations(g) /\ g[i] = h[i]
    BY <1>1 DEF Condensations
<1>4. \A i \in Condensations(g) : g[i].forget \subseteq Forgotten(g) /\ g[i].id \in Forgotten(g)
    <2>1. ASSUME NEW i \in Condensations(g), NEW n \in g[i].forget \cup {g[i].id}
          PROVE  n \in Forgotten(g)
        <3>1. n \in UNION {g[j].forget \cup {g[j].id} : j \in Condensations(g)}
            BY <2>1, Zenon
        <3> QED
            BY <3>1, Zenon DEF Forgotten
    <2> QED
        BY <2>1
<1>5. ASSUME NEW n \in Forgotten(h) PROVE n \in Forgotten(g)
    <2>1. CASE n \in UNION {h[i].forget \cup {h[i].id} : i \in Condensations(h)}
        <3>1. PICK i \in Condensations(h) : n \in h[i].forget \cup {h[i].id}
            BY <2>1, Zenon
        <3> QED
            BY <1>3, <1>4, <3>1
    <2>2. CASE n \in {h[i].id : i \in {j \in DOMAIN h : h[j].kind = "request"}}
        <3>1. PICK i \in 1..Len(h) : h[i].kind = "request" /\ n = h[i].id
            BY <1>1, <2>2
        <3>2. i \in DOMAIN g /\ g[i].kind = "request" /\ n = g[i].id
            BY <1>1, <3>1
        <3> QED
            BY <3>2, Zenon DEF Forgotten
    <2> QED
        BY <1>5, <2>1, <2>2, Zenon DEF Forgotten
<1> QED
    BY <1>1, <1>2, <1>4, <1>5

\* The entries of k are in the view v, outside of the positions that the
\* summarizing condenser takes.
Outside(v, k) ==
    \A i \in 1..Len(k) : \E j \in 1..Len(v) :
        v[j] = k[i] /\ (j <= KeepFirst \/ j > Len(v) - FromTail(KeepFirst))

\* What is left of a view after the summarizing condenser's condensation: an entry
\* that stays was outside of the positions that the condenser took.
LEMMA StaysOutside ==
    ASSUME Keeps, NEW p, NEW h, GoodHistory(h, p), Len(h) >= 2, NEW v, v = ViewOf(h),
           NEW new \in Entries, new.kind = "condensation", Taken(v) \subseteq new.forget,
           NEW g, g = Append(h, new)
    PROVE  Outside(v, Kept(g))
<1> SUFFICES ASSUME NEW i \in 1..Len(Kept(g))
             PROVE  \E j \in 1..Len(v) : v[j] = Kept(g)[i]
                        /\ (j <= KeepFirst \/ j > Len(v) - FromTail(KeepFirst))
    BY DEF Outside
<1>1. h \in Seq(Entries) /\ Len(h) \in Nat
    BY DEF GoodHistory
<1>2. /\ g \in Seq(Entries) /\ Len(g) = Len(h) + 1
      /\ \A k \in 1..Len(h) : g[k] = h[k]
      /\ g[Len(h) + 1] = new
      /\ Forgotten(h) \subseteq Forgotten(g)
      /\ new.forget \subseteq Forgotten(g) /\ new.id \in Forgotten(g)
    <2>1. /\ g \in Seq(Entries) /\ Len(g) = Len(h) + 1
          /\ g[Len(h) + 1] = new
          /\ Forgotten(h) \subseteq Forgotten(g)
          /\ new.forget \subseteq Forgotten(g) /\ new.id \in Forgotten(g)
        BY <1>1, MoreForgotten, Zenon
    <2>2. \A k \in 1..Len(h) : g[k] = h[k]
        BY <1>1, MoreForgotten
    <2> QED
        BY <2>1, <2>2
<1>3. PICK n \in 1..Len(g) : Kept(g)[i] = g[n] /\ g[n].id \notin Forgotten(g)
    <2>1. PICK at : Origins(g, at)
        BY <1>2, KeptOrigins
    <2>2. at[i] \in 1..Len(g)
        BY <2>1 DEF Origins
    <2> QED
        BY <2>1, <2>2 DEF Origins
<1>4. n \in 1..Len(h)
    <2>1. n # Len(h) + 1
        BY <1>2, <1>3
    <2> QED
        BY <1>1, <1>2, <2>1
<1>5. h[n] = Kept(g)[i] /\ h[n].id \notin Forgotten(g) /\ h[n].id \notin Forgotten(h)
    BY <1>2, <1>3, <1>4
<1>6. GoodView(v, p)
    BY ViewFacts
<1>7. v \in Seq(Entries) /\ Len(v) \in Nat /\ DOMAIN v = 1..Len(v)
    BY <1>6, FirstOfGoodView
<1>8. h[n] \in Range(v)
    BY <1>4, <1>5, KeptInView
<1>9. PICK j \in 1..Len(v) : v[j] = h[n]
    BY <1>7, <1>8 DEF Range
<1>10. v[j].kind # "summary"
    <2>1. h[n].kind \in LoggedKinds
        BY <1>4 DEF GoodHistory, Harmless
    <2> QED
        BY <1>9, <2>1 DEF LoggedKinds
<1>11. ASSUME j \in KeepFirst + 1..Len(v) - FromTail(KeepFirst) PROVE FALSE
    <2>1. v[j].id \in Taken(v)
        BY <1>10, <1>11 DEF Taken
    <2> QED
        BY <1>2, <1>5, <1>9, <2>1
<1>12. j <= KeepFirst \/ j > Len(v) - FromTail(KeepFirst)
    <2>1. KeepFirst \in Nat /\ FromTail(KeepFirst) \in Nat
        BY FromTailFacts, SizesAssumption DEF SizesAssumption
    <2> QED
        BY <1>7, <1>11, <2>1
<1> QED
    BY <1>5, <1>9, <1>12

LEMMA ShrinkFacts ==
    ASSUME Keeps, NEW p, NEW h, GoodHistory(h, p), Len(h) >= 2, NEW v, v = ViewOf(h),
           Len(v) > KeepFirst, Taken(v) # {},
           NEW new \in Entries, new.kind = "condensation", Taken(v) \subseteq new.forget,
           new.summary.offset >= 0,
           NEW g, g = Append(h, new), GoodHistory(g, p)
    PROVE  Len(ViewOf(g)) <= MaxSize \div 2
<1>1. /\ KeepFirst \in Nat /\ FromTail(KeepFirst) \in Nat /\ MaxSize \div 2 \in Nat
      /\ KeepFirst + FromTail(KeepFirst) + 1 = MaxSize \div 2
    BY FromTailFacts, SizesAssumption DEF SizesAssumption
<1>2. KeepFirst \in Nat /\ FromTail(KeepFirst) \in Nat
    BY <1>1
<1>3. h \in Seq(Entries) /\ Len(h) \in Nat
    BY DEF GoodHistory
<1>4. g \in Seq(Entries) /\ Len(g) = Len(h) + 1 /\ g[Len(h) + 1] = new
    BY <1>3, MoreForgotten, Zenon
<1>5. Len(v) \in Nat
    BY ViewFacts, FirstOfGoodView
<1>6. PICK k : k = Kept(g)
    OBVIOUS
<1>7. /\ k \in Seq(Entries) /\ Len(k) \in Nat
      /\ \A i, j \in 1..Len(k) : i < j => k[i].id < k[j].id
    <2>1. Len(g) >= 2
        BY <1>3, <1>4
    <2>2. /\ Kept(g) \in Seq(Entries)
          /\ \A i, j \in 1..Len(Kept(g)) : i < j => Kept(g)[i].id < Kept(g)[j].id
        BY <2>1, KeptFacts
    <2> QED
        BY <1>6, <2>2
<1>8. \A i \in 1..Len(k) : k[i].id \in Nat
    <2>1. Len(g) >= 2
        BY <1>3, <1>4
    <2>2. \A i \in 1..Len(Kept(g)) : Kept(g)[i].id \in Nat \ {0}
        BY <2>1, KeptFacts
    <2> QED
        BY <1>6, <2>2
<1>9. PICK l : l = Len(v) - FromTail(KeepFirst)
    OBVIOUS
<1>10. l \in Nat /\ l > KeepFirst /\ Len(v) - l = FromTail(KeepFirst)
    <2>1. PICK i \in KeepFirst + 1..l : TRUE
        BY <1>9 DEF Taken
    <2> QED
        BY <1>1, <1>5, <1>9, <2>1
<1>11. \A i \in 1..Len(k) : \E j \in 1..Len(v) :
         v[j] = k[i] /\ (j <= KeepFirst \/ j > l)
    <2>1. Outside(v, k)
        BY <1>6, StaysOutside
    <2> QED
        BY <1>9, <2>1, Zenon DEF Outside
<1> DEFINE at == [i \in 1..Len(k) |-> CHOOSE j \in 1..Len(v) :
                                         v[j] = k[i] /\ (j <= KeepFirst \/ j > l)]
<1>12. \A i \in 1..Len(k) : /\ at[i] \in 1..Len(v) /\ v[at[i]] = k[i]
                            /\ at[i] <= KeepFirst \/ at[i] > l
    BY <1>11
<1> HIDE DEF at
<1> DEFINE f == [i \in 1..Len(k) |-> IF at[i] <= KeepFirst THEN at[i]
                                     ELSE at[i] - l + KeepFirst]
<1>13. f \in [1..Len(k) -> 1..KeepFirst + FromTail(KeepFirst)]
    <2>1. ASSUME NEW i \in 1..Len(k)
          PROVE  (IF at[i] <= KeepFirst THEN at[i] ELSE at[i] - l + KeepFirst)
                    \in 1..KeepFirst + FromTail(KeepFirst)
        <3>1. PICK x \in 1..Len(v) : x = at[i] /\ (x <= KeepFirst \/ x > l)
            BY <1>12
        <3>2. CASE x <= KeepFirst
            BY <1>1, <1>5, <3>1, <3>2
        <3>3. CASE ~(x <= KeepFirst)
            <4>1. x - l + KeepFirst \in 1..KeepFirst + FromTail(KeepFirst)
                <5>1. x > l /\ x <= Len(v) /\ x \in Nat
                    BY <1>5, <3>1, <3>3
                <5>2. x - l >= 1 /\ x - l <= FromTail(KeepFirst)
                    BY <1>2, <1>5, <1>10, <5>1
                <5> QED
                    BY <1>2, <1>5, <1>10, <5>1, <5>2
            <4> QED
                BY <3>1, <3>3, <4>1
        <3> QED
            BY <3>2, <3>3
    <2> QED
        BY <2>1
<1>14. \A i \in 1..Len(k) :
         f[i] = IF at[i] <= KeepFirst THEN at[i] ELSE at[i] - l + KeepFirst
    OBVIOUS
<1> HIDE DEF f
<1>15. ASSUME NEW i \in 1..Len(k), NEW j \in 1..Len(k), f[i] = f[j] PROVE i = j
    <2>1. at[i] = at[j]
        <3>1. f[i] = (IF at[i] <= KeepFirst THEN at[i] ELSE at[i] - l + KeepFirst)
              /\ f[j] = (IF at[j] <= KeepFirst THEN at[j] ELSE at[j] - l + KeepFirst)
            BY <1>14
        <3>2. at[i] \in Nat /\ at[j] \in Nat
              /\ (at[i] <= KeepFirst \/ at[i] > l) /\ (at[j] <= KeepFirst \/ at[j] > l)
            BY <1>12
        <3>3. PICK x \in Nat : x = at[i] /\ (x <= KeepFirst \/ x > l)
            BY <3>2
        <3>4. PICK y \in Nat : y = at[j] /\ (y <= KeepFirst \/ y > l)
            BY <3>2
        <3>5. (IF x <= KeepFirst THEN x ELSE x - l + KeepFirst)
                = IF y <= KeepFirst THEN y ELSE y - l + KeepFirst
            BY <1>15, <3>1, <3>3, <3>4, Zenon
        <3>6. x = y
            <4>1. CASE x <= KeepFirst /\ y <= KeepFirst
                BY <3>5, <4>1
            <4>2. CASE x <= KeepFirst /\ ~(y <= KeepFirst)
                <5>1. x = y - l + KeepFirst /\ y > l
                    BY <3>4, <3>5, <4>2
                <5> QED
                    BY <1>2, <1>10, <4>2, <5>1
            <4>3. CASE ~(x <= KeepFirst) /\ y <= KeepFirst
                <5>1. y = x - l + KeepFirst /\ x > l
                    BY <3>3, <3>5, <4>3
                <5> QED
                    BY <1>2, <1>10, <4>3, <5>1
            <4>4. CASE ~(x <= KeepFirst) /\ ~(y <= KeepFirst)
                <5>1. x - l + KeepFirst = y - l + KeepFirst
                    BY <3>5, <4>4
                <5> QED
                    BY <1>2, <1>10, <5>1
            <4> QED
                BY <4>1, <4>2, <4>3, <4>4
        <3> QED
            BY <3>3, <3>4, <3>6
    <2>2. k[i] = k[j]
        BY <1>12, <2>1
    <2>3. PICK n \in Nat : n = k[i].id /\ n = k[j].id
        <3>1. k[i].id \in Nat
            BY <1>8, <1>15
        <3> QED
            BY <2>2, <3>1, Zenon
    <2>4. ~(i < j) /\ ~(j < i)
        <3>1. ~(n < n)
            OBVIOUS
        <3> QED
            BY <1>7, <2>3, <3>1, Zenon
    <2> QED
        BY <2>4
<1>16. Len(k) <= KeepFirst + FromTail(KeepFirst)
    <2>1. KeepFirst + FromTail(KeepFirst) \in Nat
        BY <1>1
    <2> QED
        BY <1>7, <1>13, <1>15, <2>1, FitsInto, Zenon
<1>17. Len(ViewOf(g)) = Len(k) + 1
    <2>1. Len(h) + 1 \in Summaries(g)
        BY <1>3, <1>4 DEF Summaries, Condensations
    <2>2. PICK m \in Summaries(g) :
            ViewOf(g) = InsertAt(k, MinOf({KeepFirst, Len(k)}) + 1,
                                 SummaryEvent(g[m].summary.covers))
        BY <1>6, <2>1, ViewShape
    <2>3. m \in 1..Len(g)
        BY <1>4 DEF Summaries, Condensations
    <2>4. PICK e \in Entries : e = SummaryEvent(g[m].summary.covers)
        BY <1>4, <2>3, EntryType, SummaryEventType
    <2>5. PICK a : a = MinOf({KeepFirst, Len(k)}) + 1
        OBVIOUS
    <2>6. a \in 1..Len(k) + 1
        BY <1>7, <2>5, MinOfPair, SizesAssumption DEF SizesAssumption
    <2>7. PICK w : w = ViewOf(g)
        OBVIOUS
    <2>8. w = InsertAt(k, a, e) /\ k \in Seq(Entries)
        BY <1>7, <2>2, <2>4, <2>5, <2>7
    <2>9. Len(w) = Len(k) + 1
        <3>1. Inserted(w, k, a, e)
            BY <2>6, <2>8, InsertFacts, Zenon
        <3> QED
            BY <3>1 DEF Inserted
    <2> QED
        BY <2>7, <2>9
<1> QED
    BY <1>1, <1>7, <1>16, <1>17

\* A condensation by size leaves half of the maximum: the next one is not due at
\* once (llm_summarizing_condenser.py:52-84).
THEOREM SizeCondensationsShrink ==
    ASSUME Keeps, Interactive
    PROVE  Spec /\ []InTurn => CondensationShrinks
<1>1. ASSUME IInv, overtaken' = 0, Next, NEW new, new = log'[Len(log')], Decided,
             new.kind = "condensation", new.summary.offset >= 0, endId = 0
      PROVE  Len(ViewOf(Append(history', new))) <= MaxSize \div 2
    <2>0. LogInv /\ HistoryInv /\ CutsInv /\ WaitingInv /\ CacheInv /\ CurrentInv /\ IInv'
        BY <1>1, NextKeeps DEF IInv
    <2>1. PICK e : /\ AgentSteps(e) /\ cache' = CacheFor(Longer(e))
                   /\ LET c == Condensed(pipeline, CacheFor(Longer(e)).view,
                                         CacheFor(Longer(e)).unhandled)
                      IN  /\ c # <<>> /\ c[1] # Raised
                          /\ new.forget = c[1].forget /\ new.summary = c[1].summary
        BY <1>1, DecisionFacts
    <2>2. PICK h : h = Longer(e)
        OBVIOUS
    <2>3. PICK v : v = CacheFor(h).view
        OBVIOUS
    <2>4. PICK c : c = Condensed(pipeline, v, CacheFor(h).unhandled)
        OBVIOUS
    <2>5. /\ c # <<>> /\ c[1] # Raised
          /\ new.forget = c[1].forget /\ new.summary = c[1].summary
        BY <2>1, <2>2, <2>3, <2>4
    <2>6. PartOfLog(h) /\ Len(h) >= 2 /\ Len(log) >= 2
        BY <1>1, <2>1, <2>2, AgentStepsFacts
    <2>7. v = ViewOf(h) /\ history' = h
        BY <1>1, <2>0, <2>1, <2>2, <2>3, CurrentView DEF AgentSteps
    <2>8. CacheFor(h).unhandled \in BOOLEAN /\ GoodView(v, pipeline) /\ pipeline \in Pipelines
        BY <2>0, <2>3, <2>6, CacheForFacts DEF WaitingInv
    <2>9. c[1] = Summarize(v)
        BY <1>1, <2>4, <2>5, <2>8, CondensedFacts
    <2>10. v \in Seq(Entries) /\ Len(v) \in Nat
        BY <2>8, FirstOfGoodView
    <2>11. ~(FromTail(KeepFirst) = 0 \/ Len(v) <= KeepFirst \/ Taken(v) = {})
        BY <2>5, <2>9, <2>10, SummarizeShape, Zenon
    <2>12. PICK s : c[1] = Condensation(MinOf(Taken(v))..MaxOf(Taken(v)), s)
        BY <2>9, <2>10, <2>11, SummarizeShape, Zenon
    <2>13. PICK F : F = MinOf(Taken(v))..MaxOf(Taken(v))
        OBVIOUS
    <2>14. Taken(v) \subseteq F
        BY <2>8, <2>10, <2>11, <2>13, TakenFacts, RangeFacts
    <2>15. new.forget = F
        <3>1. Condensation(F, s).forget = F
            <4>1. PICK w : w = Entry(0, "condensation", 0, "", F, s)
                OBVIOUS
            <4>2. w.forget = F
                BY <4>1 DEF Entry
            <4> QED
                BY <4>1, <4>2 DEF Condensation
        <3> QED
            BY <2>5, <2>12, <2>13, <3>1
    <2>16. LogInv' /\ PartOfLog(h)' /\ pipeline' = pipeline
        BY <2>0, <2>1, <2>7 DEF IInv, HistoryInv, AgentSteps
    <2>17. GoodHistory(h, pipeline)
        BY <2>0, <2>6, GoodPart
    <2>18. PICK g : g = Append(h, new)
        OBVIOUS
    <2>19. new \in Entries /\ new.id = Len(log') /\ Harmless(new, pipeline)
        <3>1. Len(log') \in 1..Len(log') /\ log' \in Seq(Entries)
            BY <2>16 DEF LogInv
        <3> QED
            BY <1>1, <2>16, <3>1 DEF LogInv
    <2>20. GoodHistory(g, pipeline)
        <3>1. h \in Seq(Entries) /\ Len(h) \in Nat
            BY <2>6 DEF PartOfLog
        <3>2. /\ g \in Seq(Entries) /\ Len(g) = Len(h) + 1
              /\ \A i \in 1..Len(h) : g[i] = h[i]
              /\ g[Len(h) + 1] = new
            BY <2>18, <2>19, <3>1
        <3>3. \A i \in 1..Len(h) : h[i].id \in 1..Len(log)
            BY <2>6 DEF PartOfLog
        <3>4. Len(log') \in Nat /\ Len(log) \in Nat /\ Len(log') > Len(log)
            BY <1>1, <2>0, <2>16, LogFacts DEF Decided, LogInv
        <3>5. ASSUME NEW i \in 1..Len(g)
              PROVE  g[i].id \in Nat \ {0} /\ Harmless(g[i], pipeline)
            <4>1. CASE i \in 1..Len(h)
                BY <2>17, <3>2, <4>1 DEF GoodHistory
            <4>2. CASE i = Len(h) + 1
                BY <2>19, <3>2, <3>4, <4>2
            <4> QED
                BY <3>1, <3>2, <4>1, <4>2
        <3>6. ASSUME NEW i \in 1..Len(g), NEW j \in 1..Len(g), i < j
              PROVE  g[i].id < g[j].id
            <4>1. i \in 1..Len(h)
                BY <3>1, <3>2, <3>6
            <4>2. CASE j \in 1..Len(h)
                BY <2>17, <3>2, <3>6, <4>1, <4>2 DEF GoodHistory
            <4>3. CASE j = Len(h) + 1
                <5>1. g[i].id \in 1..Len(log) /\ g[j].id = Len(log')
                    BY <2>19, <3>2, <3>3, <4>1, <4>3
                <5> QED
                    BY <3>4, <5>1
            <4> QED
                BY <3>1, <3>2, <4>2, <4>3
        <3>7. /\ g[1].id = 1 /\ g[1].kind = "system"
              /\ g[2].id = 2 /\ g[2].kind = "message"
            <4>1. 1 \in 1..Len(h) /\ 2 \in 1..Len(h)
                BY <2>6, <3>1
            <4> QED
                BY <2>6, <2>17, <3>1, <3>2, <4>1 DEF GoodHistory
        <3> QED
            BY <3>2, <3>5, <3>6, <3>7 DEF GoodHistory
    <2>21. Len(v) > KeepFirst /\ Taken(v) # {}
        BY <2>10, <2>11, SizesAssumption DEF SizesAssumption
    <2>22. Taken(v) \subseteq new.forget
        BY <2>14, <2>15
    <2>23. Len(ViewOf(g)) <= MaxSize \div 2
        BY <1>1, <2>6, <2>7, <2>17, <2>18, <2>19, <2>20, <2>21, <2>22, ShrinkFacts, Zenon
    <2> QED
        BY <2>7, <2>18, <2>23
<1>2. ASSUME Sound, InTurn', [Next]_vars
      PROVE  [LET new == log'[Len(log')]
              IN  Decided /\ new.kind = "condensation" /\ new.summary.offset >= 0 /\ endId = 0
                  => Len(ViewOf(Append(history', new))) <= MaxSize \div 2]_vars
    BY <1>1, <1>2, StepsInTurn
<1> QED
    BY <1>2, Inductive, PTL DEF Spec, CondensationShrinks

-----------------------------------------------------------------------------
(* One summary covers all: the argument on ids.                            *)
(* T are the ids of what can be told, S those of the condensations with a  *)
(* summary and W of those without one; F[i] is what the condensation i has *)
(* forgotten, and at[i] the end of the history that it was made of.        *)

Left(T, C, F, q) == {x \in T : x <= q /\ \A i \in C : i <= q => x \notin F[i]}
Below(K, x) == {y \in K : y < x}
Above(K, x) == {y \in K : y > x}

\* Neither in the head nor in the tail that a summary leaves alone.
Middle(K) == {x \in K : /\ Cardinality(Below(K, x)) >= KeepFirst
                        /\ Cardinality(Above(K, x)) >= FromTail(KeepFirst)}

\* A summary forgets the middle of what was left, covers it and what the last
\* summary before it covers, and follows a window condenser only by size.
Summarized(T, S, W, F, covers, at, i) ==
    LET K == Left(T, S \cup W, F, at[i])
    IN  /\ \E a, b \in Middle(K) :
              F[i] = a..b /\ \A x \in Middle(K) : a <= x /\ x <= b
        /\ Middle(K) \subseteq covers[i]
        /\ W # {} => Cardinality(K) >= MaxSize
        /\ \A j \in S : j <= at[i] /\ (\A k \in S : k <= at[i] => k <= j)
                           => covers[j] \subseteq covers[i]

\* A window condensation leaves its suffix, from f on, and the essential ones E.
Windowed(T, S, W, F, at, i) ==
    LET K == Left(T, S \cup W, F, at[i])
    IN  \E E \in SUBSET Nat, f \in Nat :
          /\ IsFiniteSet(E) /\ Cardinality(E) <= 4
          /\ \A x \in F[i] \cap T : x \in K /\ x < f
          /\ \A x \in K : x < f => x \in E \/ x \in F[i]

\* The first KeepFirst of T, H, are in no window condensation.
Foremost(T, W, F, H) ==
    /\ H \subseteq T
    /\ \A x \in H : Cardinality(Below(T, x)) < KeepFirst /\ \A i \in W : x \notin F[i]
    /\ T \ H # {} => Cardinality(H) >= KeepFirst
    /\ \A x \in T \ H, y \in H : y < x

Story(T, S, W, F, covers, at, H) ==
    /\ T \in SUBSET Nat /\ IsFiniteSet(T) /\ S \in SUBSET Nat /\ W \in SUBSET Nat
    /\ \A i \in S \cup W :
          at[i] \in Nat /\ at[i] < i /\ \A j \in S \cup W : i < j => at[i] <= at[j]
    /\ \A i \in S : Summarized(T, S, W, F, covers, at, i)
    /\ \A i \in W : Windowed(T, S, W, F, at, i)
    /\ Foremost(T, W, F, H)

LEMMA PartCounts ==
    ASSUME NEW A, IsFiniteSet(A), NEW B, B \subseteq A
    PROVE  /\ IsFiniteSet(B) /\ Cardinality(B) \in Nat /\ Cardinality(A) \in Nat
           /\ Cardinality(B) <= Cardinality(A)
BY FS_Subset, FS_CardinalityType

\* A summary leaves the head alone.
LEMMA HeadStays ==
    ASSUME NEW T, NEW S, NEW W, NEW F, NEW covers, NEW at, NEW H,
           Story(T, S, W, F, covers, at, H), NEW x \in H, NEW i \in S \cup W
    PROVE  x \notin F[i]
<1>0. Foremost(T, W, F, H) /\ T \in SUBSET Nat /\ IsFiniteSet(T)
    BY DEF Story
<1>1. CASE i \in W
    BY <1>0, <1>1 DEF Foremost
<1>2. CASE i \in S
    <2>1. PICK K : K = Left(T, S \cup W, F, at[i])
        OBVIOUS
    <2>2. Summarized(T, S, W, F, covers, at, i)
        BY <1>2 DEF Story
    <2>3. PICK a, b \in Middle(K) : F[i] = a..b
        BY <2>1, <2>2 DEF Summarized
    <2>4. a \in T /\ Cardinality(Below(K, a)) >= KeepFirst
        BY <2>1 DEF Middle, Left
    <2>5. Below(K, a) \subseteq Below(T, a) /\ Below(T, a) \subseteq T
        BY <2>1 DEF Below, Left
    <2>6. /\ IsFiniteSet(Below(T, a)) /\ Cardinality(Below(T, a)) \in Nat
          /\ Cardinality(Below(K, a)) \in Nat
          /\ Cardinality(Below(K, a)) <= Cardinality(Below(T, a))
        <3>1. IsFiniteSet(Below(T, a))
            BY <1>0, <2>5, PartCounts
        <3> QED
            BY <2>5, <3>1, PartCounts
    <2>7. a \notin H
        <3>1. KeepFirst \in Nat
            BY SizesAssumption DEF SizesAssumption
        <3>2. ~(Cardinality(Below(T, a)) < KeepFirst)
            BY <2>4, <2>6, <3>1
        <3> QED
            BY <1>0, <3>2 DEF Foremost
    <2>8. x < a /\ x \in Nat /\ a \in Nat
        BY <1>0, <2>4, <2>7 DEF Foremost
    <2> QED
        BY <2>3, <2>8
<1> QED
    BY <1>1, <1>2

\* Whatever is left and not of the head has the head before it.
LEMMA HeadIsBefore ==
    ASSUME NEW T, NEW S, NEW W, NEW F, NEW covers, NEW at, NEW H,
           Story(T, S, W, F, covers, at, H), NEW q \in Nat,
           NEW x \in Left(T, S \cup W, F, q), x \notin H
    PROVE  Cardinality(Below(Left(T, S \cup W, F, q), x)) >= KeepFirst
<1>0. Foremost(T, W, F, H) /\ T \in SUBSET Nat /\ IsFiniteSet(T)
    BY DEF Story
<1>1. PICK K : K = Left(T, S \cup W, F, q)
    OBVIOUS
<1>2. x \in T /\ x <= q /\ x \in Nat
    BY <1>0 DEF Left
<1>3. ASSUME NEW y \in H PROVE y \in Below(K, x)
    <2>1. y \in T /\ y \in Nat /\ y < x
        BY <1>0, <1>2 DEF Foremost
    <2>2. y <= q
        BY <1>2, <2>1
    <2>3. \A i \in S \cup W : y \notin F[i]
        BY HeadStays
    <2> QED
        BY <1>1, <2>1, <2>2, <2>3 DEF Below, Left
<1>4. IsFiniteSet(Below(K, x))
    <2>1. Below(K, x) \subseteq T
        BY <1>1 DEF Below, Left
    <2> QED
        BY <1>0, <2>1, PartCounts
<1>5. /\ Cardinality(H) \in Nat /\ Cardinality(Below(K, x)) \in Nat
      /\ Cardinality(H) <= Cardinality(Below(K, x))
    <2>1. H \subseteq Below(K, x)
        BY <1>3
    <2> QED
        BY <1>4, <2>1, PartCounts
<1>6. Cardinality(H) >= KeepFirst
    BY <1>0, <1>2 DEF Foremost
<1> QED
    BY <1>1, <1>5, <1>6, SizesAssumption DEF SizesAssumption

\* What was left for a summary and not of the head is in its middle, or behind
\* all that it forgets.
LEMMA MiddleOrBehind ==
    ASSUME NEW T, NEW S, NEW W, NEW F, NEW covers, NEW at, NEW H,
           Story(T, S, W, F, covers, at, H), NEW i \in S,
           NEW x \in Left(T, S \cup W, F, at[i]), x \notin H
    PROVE  /\ x \in F[i] => /\ x \in covers[i]
                            /\ x \in Middle(Left(T, S \cup W, F, at[i]))
           /\ x \notin F[i] => \A z \in F[i] : z < x
<1>0. T \in SUBSET Nat /\ IsFiniteSet(T) /\ at[i] \in Nat
    BY DEF Story
<1>1. PICK K : K = Left(T, S \cup W, F, at[i])
    OBVIOUS
<1>2. K \in SUBSET Nat /\ IsFiniteSet(K) /\ x \in K
    <2>1. K \subseteq T
        BY <1>1 DEF Left
    <2> QED
        BY <1>0, <1>1, <2>1, PartCounts
<1>3. Summarized(T, S, W, F, covers, at, i)
    BY DEF Story
<1>4. PICK a, b \in Middle(K) :
        F[i] = a..b /\ \A y \in Middle(K) : a <= y /\ y <= b
    BY <1>1, <1>3 DEF Summarized
<1>5. a \in K /\ b \in K /\ a \in Nat /\ b \in Nat /\ x \in Nat
      /\ Cardinality(Above(K, b)) >= FromTail(KeepFirst)
    BY <1>2 DEF Middle
<1>6. ASSUME x <= b PROVE x \in Middle(K)
    <2>1. Cardinality(Below(K, x)) >= KeepFirst
        BY <1>0, <1>1, HeadIsBefore
    <2>2. Above(K, b) \subseteq Above(K, x) /\ Above(K, x) \subseteq K
        <3>1. ASSUME NEW y \in K, y > b PROVE y > x
            <4>1. y \in Nat
                BY <1>2
            <4> QED
                BY <1>5, <1>6, <3>1, <4>1
        <3> QED
            BY <3>1 DEF Above
    <2>3. /\ Cardinality(Above(K, b)) \in Nat /\ Cardinality(Above(K, x)) \in Nat
          /\ Cardinality(Above(K, b)) <= Cardinality(Above(K, x))
        <3>1. IsFiniteSet(Above(K, x))
            BY <1>2, <2>2, PartCounts
        <3> QED
            BY <2>2, <3>1, PartCounts
    <2>4. Cardinality(Above(K, x)) >= FromTail(KeepFirst)
        BY <1>5, <2>3, FromTailFacts
    <2> QED
        BY <1>2, <2>1, <2>4 DEF Middle
<1>7. ASSUME x \in F[i] PROVE x \in covers[i] /\ x \in Middle(K)
    <2>1. x \in Middle(K)
        BY <1>4, <1>5, <1>6, <1>7
    <2>2. Middle(K) \subseteq covers[i]
        BY <1>1, <1>3 DEF Summarized
    <2> QED
        BY <2>1, <2>2
<1>8. ASSUME x \notin F[i], NEW z \in F[i] PROVE z < x
    <2>1. ~(x <= b)
        <3> SUFFICES ASSUME x <= b PROVE FALSE
            OBVIOUS
        <3>1. a <= x
            BY <1>4, <1>6
        <3> QED
            BY <1>4, <1>5, <1>8, <3>1
    <2> QED
        BY <1>4, <1>5, <1>8, <2>1
<1> QED
    BY <1>1, <1>7, <1>8

\* Behind what a window condensation took nothing else than the essential events
\* is left before it, and a summary by size leaves more than those.
LEMMA FewAreBefore ==
    ASSUME Keeps, NEW T, NEW S, NEW W, NEW F, NEW covers, NEW at, NEW H,
           Story(T, S, W, F, covers, at, H), NEW i \in S, NEW k \in W,
           at[k] <= at[i], k <= at[i], NEW x \in Left(T, S \cup W, F, at[i]),
           NEW z \in F[k], z \in T, x < z
    PROVE  Cardinality(Above(Left(T, S \cup W, F, at[i]), x)) >= FromTail(KeepFirst)
<1>0. /\ T \in SUBSET Nat /\ IsFiniteSet(T) /\ at[i] \in Nat /\ at[k] \in Nat
      /\ k \in Nat /\ S \in SUBSET Nat /\ W \in SUBSET Nat
    BY DEF Story
<1>1. PICK K : K = Left(T, S \cup W, F, at[i])
    OBVIOUS
<1>2. PICK L : L = Left(T, S \cup W, F, at[k])
    OBVIOUS
<1>3. /\ K \in SUBSET Nat /\ IsFiniteSet(K) /\ Cardinality(K) \in Nat /\ x \in K
      /\ x \in Nat /\ z \in Nat
    <2>1. K \subseteq T
        BY <1>1 DEF Left
    <2> QED
        BY <1>0, <1>1, <2>1, PartCounts
<1>4. PICK E \in SUBSET Nat, f \in Nat :
        /\ IsFiniteSet(E) /\ Cardinality(E) <= 4
        /\ \A y \in F[k] \cap T : y \in L /\ y < f
        /\ \A y \in L : y < f => y \in E \/ y \in F[k]
    <2>1. Windowed(T, S, W, F, at, k)
        BY DEF Story
    <2> QED
        BY <1>2, <2>1 DEF Windowed
<1>5. z \in L /\ z < f /\ z <= at[k]
    BY <1>2, <1>4 DEF Left
<1>6. ASSUME NEW y \in K, y <= x PROVE y \in E
    <2>1. y \in T /\ y \in Nat /\ y <= at[k] /\ y < f
        BY <1>0, <1>1, <1>3, <1>5, <1>6 DEF Left
    <2>2. \A j \in S \cup W : j <= at[i] => y \notin F[j]
        BY <1>1 DEF Left
    <2>3. \A j \in S \cup W : j <= at[k] => j <= at[i]
        BY <1>0
    <2>4. y \in L
        BY <1>2, <2>1, <2>2, <2>3 DEF Left
    <2>5. y \notin F[k]
        BY <2>2
    <2> QED
        BY <1>4, <2>1, <2>4, <2>5
<1>7. PICK B : B = {y \in K : y <= x}
    OBVIOUS
<1>8. PICK A : A = Above(K, x)
    OBVIOUS
<1>9. /\ IsFiniteSet(B) /\ Cardinality(B) \in Nat /\ Cardinality(B) <= 4
      /\ IsFiniteSet(A) /\ Cardinality(A) \in Nat
    <2>1. B \subseteq E /\ Cardinality(E) \in Nat
        BY <1>4, <1>6, <1>7, FS_CardinalityType
    <2>2. A \subseteq K
        BY <1>8 DEF Above
    <2>3. IsFiniteSet(A) /\ Cardinality(A) \in Nat
        BY <1>3, <2>2, PartCounts
    <2>4. /\ IsFiniteSet(B) /\ Cardinality(B) \in Nat
          /\ Cardinality(B) <= Cardinality(E)
        BY <1>4, <2>1, PartCounts
    <2> QED
        BY <1>4, <2>1, <2>3, <2>4
<1>10. Cardinality(K) <= Cardinality(B) + Cardinality(A)
    <2>1. K = B \cup A
        <3>1. ASSUME NEW y \in K PROVE y <= x \/ y > x
            <4>1. y \in Nat /\ x \in Nat
                BY <1>3
            <4> QED
                BY <4>1
        <3> QED
            BY <1>7, <1>8, <3>1 DEF Above
    <2>2. /\ IsFiniteSet(B \cup A) /\ IsFiniteSet(B \cap A)
          /\ Cardinality(B \cup A) = Cardinality(B) + Cardinality(A) - Cardinality(B \cap A)
        BY <1>9, FS_Union, FS_Intersection
    <2>3. Cardinality(B \cap A) \in Nat
        BY <2>2, FS_CardinalityType
    <2> QED
        BY <1>3, <1>9, <2>1, <2>2, <2>3
<1>11. Cardinality(K) >= MaxSize
    <2>1. Summarized(T, S, W, F, covers, at, i)
        BY DEF Story
    <2> QED
        BY <1>1, <2>1 DEF Summarized
<1>12. MaxSize - 4 >= FromTail(KeepFirst) /\ MaxSize \in Nat /\ FromTail(KeepFirst) \in Nat
    <2>1. KeepFirst \in Nat /\ MaxSize \in Nat /\ KeepFirst >= 2
          /\ KeepFirst < MaxSize \div 2
        BY SizesAssumption DEF SizesAssumption, Keeps
    <2>2. MaxSize \div 2 \in Nat /\ 2 * (MaxSize \div 2) <= MaxSize
        BY <2>1
    <2> QED
        BY <2>1, <2>2, FromTailFacts DEF FromTail
<1> QED
    BY <1>1, <1>3, <1>8, <1>9, <1>10, <1>11, <1>12

\* What one summary takes, a later one that was made without it covers, too.
LEMMA TakenAgain ==
    ASSUME Keeps, NEW T, NEW S, NEW W, NEW F, NEW covers, NEW at, NEW H,
           Story(T, S, W, F, covers, at, H), NEW i \in S, NEW j \in S,
           at[i] < j, j < i, NEW x \in T, x \in F[j],
           x \in Left(T, S \cup W, F, at[i])
    PROVE  x \in covers[i]
<1>0. /\ T \in SUBSET Nat /\ IsFiniteSet(T) /\ S \in SUBSET Nat /\ W \in SUBSET Nat
      /\ at[i] \in Nat /\ at[j] \in Nat /\ at[j] <= at[i] /\ i \in Nat /\ j \in Nat
      /\ x \in Nat
    BY DEF Story
<1>1. PICK K : K = Left(T, S \cup W, F, at[i])
    OBVIOUS
<1>2. PICK L : L = Left(T, S \cup W, F, at[j])
    OBVIOUS
<1>3. x \notin H
    BY HeadStays
<1>4. x \in L
    <2>1. Summarized(T, S, W, F, covers, at, j)
        BY DEF Story
    <2>2. PICK a, b \in Middle(L) : F[j] = a..b
        BY <1>2, <2>1 DEF Summarized
    <2>3. a \in Nat /\ b \in Nat /\ b <= at[j]
        BY <1>0, <1>2 DEF Middle, Left
    <2>4. x <= at[j]
        BY <1>0, <2>2, <2>3
    <2>5. \A k \in S \cup W : k <= at[j] => x \notin F[k]
        <3>1. \A k \in S \cup W : k <= at[j] => k <= at[i]
            BY <1>0
        <3> QED
            BY <3>1 DEF Left
    <2> QED
        BY <1>2, <2>4, <2>5 DEF Left
<1>5. Cardinality(Above(L, x)) >= FromTail(KeepFirst)
    BY <1>2, <1>3, <1>4, MiddleOrBehind DEF Middle
<1>6. Cardinality(Below(K, x)) >= KeepFirst
    BY <1>0, <1>1, <1>3, HeadIsBefore
<1>7. Cardinality(Above(K, x)) >= FromTail(KeepFirst)
    <2>1. CASE Above(L, x) \subseteq K
        <3>1. Above(L, x) \subseteq Above(K, x) /\ Above(K, x) \subseteq T
            BY <1>1, <2>1 DEF Above, Left
        <3>2. IsFiniteSet(Above(K, x))
            BY <1>0, <3>1, PartCounts
        <3>3. /\ Cardinality(Above(L, x)) \in Nat /\ Cardinality(Above(K, x)) \in Nat
              /\ Cardinality(Above(L, x)) <= Cardinality(Above(K, x))
            BY <3>1, <3>2, PartCounts
        <3> QED
            BY <1>5, <3>3, FromTailFacts
    <2>2. CASE ~(Above(L, x) \subseteq K)
        <3>1. PICK z \in Above(L, x) : z \notin K
            BY <2>2
        <3>2. z \in T /\ z \in Nat /\ z <= at[j] /\ x < z
            BY <1>0, <1>2 DEF Above, Left
        <3>3. z <= at[i]
            BY <1>0, <3>2
        <3>4. PICK k \in S \cup W : k <= at[i] /\ z \in F[k]
            BY <1>1, <3>1, <3>2, <3>3 DEF Left
        <3>5. k \in Nat /\ at[k] \in Nat /\ at[k] <= at[j] /\ at[k] <= at[i]
            <4>0. k \in Nat
                BY <1>0, <3>4
            <4>1. k \in Nat /\ k < j
                BY <1>0, <3>4, <4>0
            <4>2. at[k] \in Nat /\ at[k] <= at[j]
                BY <4>1 DEF Story
            <4> QED
                BY <1>0, <4>1, <4>2
        <3>6. CASE k \in W
            BY <1>1, <3>2, <3>4, <3>5, <3>6, FewAreBefore
        <3>7. CASE k \in S
            <4>1. PICK M : M = Left(T, S \cup W, F, at[k])
                OBVIOUS
            <4>2. PICK a, b \in Middle(M) : F[k] = a..b
                <5>1. Summarized(T, S, W, F, covers, at, k)
                    BY <3>7 DEF Story
                <5> QED
                    BY <4>1, <5>1 DEF Summarized
            <4>3. a \in Nat /\ b \in Nat /\ b <= at[k]
                BY <1>0, <4>1 DEF Middle, Left
            <4>4. x <= at[k]
                BY <1>0, <3>2, <3>4, <3>5, <4>2, <4>3
            <4>5. x \notin F[k]
                BY <3>4 DEF Left
            <4>6. x \in M
                <5>1. \A m \in S \cup W : m <= at[k] => m <= at[i]
                    BY <1>0, <3>5
                <5> QED
                    BY <4>1, <4>4, <5>1 DEF Left
            <4>7. z < x
                BY <1>3, <3>4, <3>7, <4>1, <4>5, <4>6, MiddleOrBehind
            <4> QED
                BY <1>0, <3>2, <4>7
        <3> QED
            BY <3>6, <3>7
    <2> QED
        BY <2>1, <2>2
<1>8. x \in Middle(K)
    BY <1>1, <1>6, <1>7 DEF Middle
<1>9. Summarized(T, S, W, F, covers, at, i)
    BY DEF Story
<1> QED
    BY <1>1, <1>8, <1>9 DEF Summarized

\* Every summary covers all that summaries have taken up to it, but for what was
\* taken without a summary.
Covered(T, S, W, F, covers, i) ==
    \A j \in S, x \in T :
        j <= i /\ x \in F[j] => x \in covers[i] \/ \E w \in W : x \in F[w]

LEMMA SummariesCover ==
    ASSUME Keeps, NEW T, NEW S, NEW W, NEW F, NEW covers, NEW at, NEW H,
           Story(T, S, W, F, covers, at, H), NEW i \in S,
           \A k \in S : k < i => Covered(T, S, W, F, covers, k)
    PROVE  Covered(T, S, W, F, covers, i)
<1>0. /\ T \in SUBSET Nat /\ S \in SUBSET Nat /\ W \in SUBSET Nat
      /\ at[i] \in Nat /\ at[i] < i /\ i \in Nat
    BY DEF Story
<1> SUFFICES ASSUME NEW j \in S, NEW x \in T, j <= i, x \in F[j],
                    \A w \in W : x \notin F[w]
             PROVE  x \in covers[i]
    BY DEF Covered
<1>1. PICK K : K = Left(T, S \cup W, F, at[i])
    OBVIOUS
<1>2. Summarized(T, S, W, F, covers, at, i)
    BY DEF Story
<1>3. ASSUME NEW k \in S, k <= at[i], x \in F[k] PROVE x \in covers[i]
    <2>1. PICK R : R = {n \in S : n <= at[i]}
        OBVIOUS
    <2>2. k \in R /\ R \in SUBSET (0..at[i])
        <3>1. \A n \in S : n \in Nat
            BY <1>0
        <3>2. \A n \in R : n \in 0..at[i]
            BY <1>0, <2>1, <3>1
        <3> QED
            BY <1>3, <2>1, <3>2
    <2>3. PICK l \in R : \A n \in R : l >= n
        BY <1>0, <2>2, GreatestNumber
    <2>4. l \in S /\ l <= at[i] /\ \A n \in S : n <= at[i] => n <= l
        BY <1>0, <2>1, <2>3
    <2>5. l < i /\ k <= l
        BY <1>0, <1>3, <2>4
    <2>6. Covered(T, S, W, F, covers, l)
        BY <2>4, <2>5
    <2>7. x \in covers[l]
        BY <1>3, <2>5, <2>6 DEF Covered
    <2>8. covers[l] \subseteq covers[i]
        BY <1>2, <2>4 DEF Summarized
    <2> QED
        BY <2>7, <2>8
<1>4. ASSUME x <= at[i], x \notin K PROVE x \in covers[i]
    <2>1. PICK k \in S \cup W : k <= at[i] /\ x \in F[k]
        BY <1>1, <1>4 DEF Left
    <2>2. k \in S
        BY <2>1
    <2> QED
        BY <1>3, <2>1, <2>2
<1>5. CASE j = i
    <2>1. PICK a, b \in Middle(K) : F[i] = a..b
        BY <1>1, <1>2 DEF Summarized
    <2>2. x <= at[i]
        <3>1. a \in Nat /\ b \in Nat /\ b <= at[i]
            BY <1>0, <1>1 DEF Middle, Left
        <3>2. x \in a..b
            BY <1>5, <2>1
        <3> QED
            BY <1>0, <3>1, <3>2
    <2>3. CASE x \in K
        <3>1. x \notin H
            BY HeadStays
        <3> QED
            BY <1>1, <1>5, <2>3, <3>1, MiddleOrBehind
    <2> QED
        BY <1>4, <2>2, <2>3
<1>6. CASE j <= at[i]
    BY <1>3, <1>6
<1>7. CASE at[i] < j /\ j < i
    <2>1. x <= at[i]
        <3>1. Summarized(T, S, W, F, covers, at, j) /\ at[j] \in Nat /\ at[j] <= at[i]
            BY <1>7 DEF Story
        <3>2. PICK a, b \in Middle(Left(T, S \cup W, F, at[j])) : F[j] = a..b
            BY <3>1 DEF Summarized
        <3>3. a \in Nat /\ b \in Nat /\ b <= at[j]
            BY <1>0 DEF Middle, Left
        <3> QED
            BY <1>0, <3>1, <3>2, <3>3
    <2>2. CASE x \in K
        BY <1>1, <1>7, <2>2, TakenAgain
    <2> QED
        BY <1>4, <2>1, <2>2
<1>8. j \in Nat
    BY <1>0
<1> QED
    BY <1>0, <1>5, <1>6, <1>7, <1>8

LEMMA AllCovered ==
    ASSUME Keeps, NEW T, NEW S, NEW W, NEW F, NEW covers, NEW at, NEW H,
           Story(T, S, W, F, covers, at, H)
    PROVE  \A i \in S : Covered(T, S, W, F, covers, i)
<1> DEFINE Bad == {i \in S : ~Covered(T, S, W, F, covers, i)}
<1> SUFFICES ASSUME Bad # {} PROVE FALSE
    OBVIOUS
<1>1. S \in SUBSET Nat
    BY DEF Story
<1>2. PICK i \in Bad : \A k \in Bad : i <= k
    <2>1. Bad \in SUBSET Nat
        BY <1>1
    <2> HIDE DEF Bad
    <2> QED
        BY <2>1, LeastNumber
<1>3. i \in S /\ \A k \in S : k < i => Covered(T, S, W, F, covers, k)
    <2>1. \A k \in S : k \in Nat /\ i \in Nat
        BY <1>1
    <2> QED
        BY <1>2, <2>1
<1>4. Covered(T, S, W, F, covers, i)
    BY <1>3, SummariesCover
<1> QED
    BY <1>4

-----------------------------------------------------------------------------
(* Where the condensations of a log come from, until a loop is cut out.    *)

\* h is the whole history of the first q events.
Whole(h, q) ==
    /\ PartOfLog(h) /\ \A k \in 1..Len(h) : h[k].id <= q /\ Included(h[k])
    /\ \A i \in 1..q : Included(log[i]) => \E k \in 1..Len(h) : h[k].id = i

\* The log's condensation i was decided on the view of the first q events.
Made(i, q) ==
    \E h, u, c :
        /\ Whole(h, q) /\ Len(h) >= 2 /\ u \in BOOLEAN
        /\ c = Condensed(pipeline, ViewOf(h), u) /\ c # <<>> /\ c[1] # Raised
        /\ log[i].forget = c[1].forget /\ log[i].summary = c[1].summary

\* at[i] is how much the controller had heard when the log's entry i was published.
Dates(at) ==
    /\ at \in [1..Len(log) -> 0..heard]
    /\ \A i \in 1..Len(log) :
          /\ at[i] < i /\ \A j \in 1..Len(log) : i < j => at[i] <= at[j]
          /\ \A q \in 0..heard :
                log[i].kind = "condensation" /\ at[i] = q => Made(i, q)

Uncut ==
    /\ endId = 0 /\ saved = 0
    /\ \A i \in 1..Len(log) : log[i].kind # "recovery"
    /\ Whole(history, heard)
    /\ \E at : Dates(at)

UncutInv == recoveries \in Nat /\ (recoveries = 0 => Uncut)

LEMMA WholeGrows ==
    ASSUME LogInv, Grows, NEW h, NEW q \in 0..Len(log), Whole(h, q)
    PROVE  Whole(h, q)'
<1>1. PartOfLog(h)'
    BY PartGrows DEF Whole
<1>2. \A i \in 1..q : log'[i] = log[i]
    BY LogFacts DEF Grows
<1> QED
    BY <1>1, <1>2 DEF Whole, Included

LEMMA MadeGrows ==
    ASSUME LogInv, Grows, pipeline' = pipeline, NEW q \in 0..Len(log),
           NEW i \in 1..Len(log), Made(i, q)
    PROVE  Made(i, q)'
<1>1. PICK h, u, c :
        /\ Whole(h, q) /\ Len(h) >= 2 /\ u \in BOOLEAN
        /\ c = Condensed(pipeline, ViewOf(h), u) /\ c # <<>> /\ c[1] # Raised
        /\ log[i].forget = c[1].forget /\ log[i].summary = c[1].summary
    BY Zenon DEF Made
<1>2. Whole(h, q)'
    BY <1>1, WholeGrows
<1>3. log'[i] = log[i]
    BY DEF Grows
<1>4. /\ Whole(h, q)' /\ Len(h) >= 2 /\ u \in BOOLEAN
      /\ c = Condensed(pipeline', ViewOf(h), u) /\ c # <<>> /\ c[1] # Raised
      /\ log'[i].forget = c[1].forget /\ log'[i].summary = c[1].summary
    BY <1>1, <1>2, <1>3
<1> QED
    BY <1>4, Zenon DEF Made

\* What a step adds to the log: no recovery, and condensations of what is heard.
Adds(q) ==
    /\ Grows
    /\ \A i \in 1..Len(log') : i > Len(log) =>
          log'[i].kind # "recovery" /\ (log'[i].kind = "condensation" => Made(i, q)')

LEMMA DatesGrow ==
    ASSUME LogInv, LogInv', HistoryInv, NEW at, Dates(at), pipeline' = pipeline,
           heard <= heard', NEW q \in 0..Len(log), heard' = q, Adds(q)
    PROVE  \E bt : Dates(bt)'
<1> DEFINE bt == [i \in 1..Len(log') |-> IF i <= Len(log) THEN at[i] ELSE q]
<1>1. /\ Len(log) \in Nat /\ Len(log') \in Nat /\ Len(log') >= Len(log)
      /\ \A i \in 1..Len(log) : log'[i] = log[i]
    BY LogFacts DEF Adds, Grows
<1>2. heard \in Nat /\ heard <= q /\ heard <= Len(log)
    BY <1>1 DEF HistoryInv
<1>3. \A i \in 1..Len(log) : at[i] \in 0..heard
    BY DEF Dates
<1>4. \A i \in 1..Len(log') : bt[i] = IF i <= Len(log) THEN at[i] ELSE q
    OBVIOUS
<1>5. bt \in [1..Len(log') -> 0..q]
    <2>1. ASSUME NEW i \in 1..Len(log') PROVE (IF i <= Len(log) THEN at[i] ELSE q) \in 0..q
        <3>1. CASE i <= Len(log)
            <4>1. at[i] \in 0..heard
                BY <1>1, <1>3, <3>1
            <4> QED
                BY <1>2, <3>1, <4>1
        <3>2. CASE ~(i <= Len(log))
            BY <3>2
        <3> QED
            BY <3>1, <3>2
    <2> QED
        BY <2>1
<1> HIDE DEF bt
<1>6. PICK ct : ct = bt
    OBVIOUS
<1>7. /\ ct \in [1..Len(log') -> 0..q]
      /\ \A i \in 1..Len(log') : ct[i] = IF i <= Len(log) THEN at[i] ELSE q
    BY <1>4, <1>5, <1>6
<1>8. ASSUME NEW i \in 1..Len(log')
      PROVE  ct[i] < i /\ \A j \in 1..Len(log') : i < j => ct[i] <= ct[j]
    <2>1. CASE i <= Len(log)
        <3>0. i \in 1..Len(log)
            BY <1>1, <2>1
        <3>1. PICK a \in 0..heard : a = at[i]
            BY <1>3, <3>0
        <3>2. ct[i] = a /\ a < i /\ \A j \in 1..Len(log) : i < j => a <= at[j]
            BY <1>7, <2>1, <3>0, <3>1 DEF Dates
        <3>3. ASSUME NEW j \in 1..Len(log'), i < j PROVE a <= ct[j]
            <4>1. CASE j <= Len(log)
                <5>1. j \in 1..Len(log) /\ ct[j] = at[j]
                    BY <1>1, <1>7, <4>1
                <5> QED
                    BY <3>2, <3>3, <5>1
            <4>2. CASE ~(j <= Len(log))
                BY <1>2, <1>7, <4>2
            <4> QED
                BY <4>1, <4>2
        <3> QED
            BY <3>2, <3>3
    <2>2. CASE ~(i <= Len(log))
        <3>1. ct[i] = q /\ q < i /\ q <= q
            BY <1>1, <1>7, <2>2
        <3>2. ASSUME NEW j \in 1..Len(log'), i < j PROVE ct[j] = q
            BY <1>1, <1>7, <2>2, <3>2
        <3> QED
            BY <3>1, <3>2
    <2> QED
        BY <2>1, <2>2
<1>9. ASSUME NEW i \in 1..Len(log'), NEW a \in 0..q,
             log'[i].kind = "condensation", ct[i] = a
      PROVE  Made(i, a)'
    <2>1. CASE i <= Len(log)
        <3>0. i \in 1..Len(log)
            BY <1>1, <2>1
        <3>1. at[i] = a /\ a \in 0..heard /\ log[i].kind = "condensation"
            BY <1>1, <1>3, <1>7, <1>9, <2>1, <3>0
        <3>2. Made(i, a) /\ a \in 0..Len(log)
            BY <1>1, <1>2, <3>0, <3>1 DEF Dates
        <3> QED
            BY <3>0, <3>2, MadeGrows DEF Adds
    <2>2. CASE ~(i <= Len(log))
        <3>1. a = q /\ i > Len(log)
            BY <1>1, <1>7, <1>9, <2>2
        <3>2. Made(i, q)'
            BY <1>9, <3>1 DEF Adds
        <3> QED
            BY <3>1, <3>2
    <2> QED
        BY <2>1, <2>2
<1>10. Dates(ct)'
    BY <1>7, <1>8, <1>9 DEF Dates
<1> QED
    BY <1>10

LEMMA UncutKept ==
    ASSUME LogInv, LogInv', HistoryInv, Uncut, pipeline' = pipeline,
           heard <= heard', NEW q \in 0..Len(log), heard' = q, Adds(q),
           endId' = 0, saved' = 0, Whole(history, heard)'
    PROVE  Uncut'
<1>1. \E at : Dates(at)'
    BY DatesGrow DEF Uncut
<1>2. ASSUME NEW i \in 1..Len(log') PROVE log'[i].kind # "recovery"
    <2>1. CASE i <= Len(log)
        <3>1. i \in 1..Len(log) /\ log'[i] = log[i]
            BY <2>1, LogFacts DEF Adds, Grows
        <3> QED
            BY <3>1 DEF Uncut
    <2>2. CASE i > Len(log)
        BY <2>2 DEF Adds
    <2> QED
        BY <2>1, <2>2, LogFacts
<1> QED
    BY <1>1, <1>2 DEF Uncut

\* A step that publishes one event, which is neither a recovery nor a condensation.
LEMMA OneMore ==
    ASSUME LogInv, NEW kind, kind \notin {"recovery", "condensation"}, NEW of, NEW what,
           Publish(<<Event(0, kind, of, what)>>), NEW q
    PROVE  Adds(q)
<1>1. PICK e : e = Event(0, kind, of, what)
    OBVIOUS
<1>2. PICK n : n = Numbered(<<e>>)
    OBVIOUS
<1>3. PICK f : f = [e EXCEPT !.id = Len(log) + 1]
    OBVIOUS
<1>4. f.kind = kind
    BY <1>1, <1>3 DEF Event, Entry
<1>5. n \in Seq({f}) /\ Len(n) = 1 /\ n[1] = f
    <2>1. DOMAIN <<e>> = 1..1 /\ <<e>>[1] = e
        OBVIOUS
    <2>2. n = [k \in 1..1 |-> [<<e>>[k] EXCEPT !.id = Len(log) + k]]
        BY <1>2, <2>1, Zenon DEF Numbered
    <2>3. PICK l \in Nat : l = 1
        OBVIOUS
    <2>4. n \in [1..l -> {f}] /\ n[1] = f
        BY <1>3, <2>1, <2>2, <2>3
    <2>5. n \in Seq({f}) /\ Len(n) = l
        BY <2>4
    <2> QED
        BY <2>3, <2>4, <2>5
<1>6. log' = log \o n
    BY <1>1, <1>2 DEF Publish
<1>7. log \in Seq(Entries) /\ Len(log) \in Nat
    BY LogFacts
<1>8. PICK V : V = Entries \cup {f}
    OBVIOUS
<1>9. log \in Seq(V) /\ n \in Seq(V)
    BY <1>5, <1>7, <1>8
<1>10. /\ Len(log') = Len(log) + 1 /\ log'[Len(log) + 1] = f
       /\ \A i \in 1..Len(log) : log'[i] = log[i]
    <2>1. /\ Len(log \o n) = Len(log) + Len(n)
          /\ \A i \in 1..Len(log) : (log \o n)[i] = log[i]
          /\ (log \o n)[Len(log) + 1] = n[1]
        <3>1. /\ Len(log \o n) = Len(log) + Len(n)
              /\ \A i \in 1..Len(log) + Len(n) :
                    (log \o n)[i] = IF i <= Len(log) THEN log[i] ELSE n[i - Len(log)]
            BY <1>9, ConcatProperties, Zenon
        <3>2. Len(log) + 1 \in 1..Len(log) + Len(n) /\ Len(log) + 1 - Len(log) = 1
              /\ ~(Len(log) + 1 <= Len(log))
            BY <1>5, <1>7
        <3>3. (log \o n)[Len(log) + 1] = n[1]
            BY <3>1, <3>2
        <3>4. \A i \in 1..Len(log) : i \in 1..Len(log) + Len(n) /\ i <= Len(log)
            BY <1>5, <1>7
        <3> QED
            BY <3>1, <3>3, <3>4
    <2> QED
        BY <1>5, <1>6, <2>1
<1>11. Grows
    BY <1>7, <1>10 DEF Grows
<1>12. ASSUME NEW i \in 1..Len(log'), i > Len(log)
       PROVE  log'[i].kind # "recovery" /\ log'[i].kind # "condensation"
    <2>1. i = Len(log) + 1
        BY <1>7, <1>10, <1>12
    <2> QED
        BY <1>4, <1>10, <2>1
<1> QED
    BY <1>11, <1>12 DEF Adds

LEMMA NoMore ==
    ASSUME LogInv, log' = log, NEW q
    PROVE  Adds(q)
BY LogFacts DEF Adds, Grows

LEMMA WholeLonger ==
    ASSUME overtaken' = 0, LogInv, HistoryInv, NEW e, Hearing(e), Whole(history, heard),
           NEW q, q = heard + 1
    PROVE  Whole(Longer(e), q) /\ q \in 0..Len(log) /\ heard \in Nat /\ heard' = q
<1>1. PICK h : h = Longer(e)
    OBVIOUS
<1>2. /\ heard \in Nat /\ heard + 1 \in 1..Len(log) /\ heard' = heard + 1
      /\ e.id = heard + 1 /\ e = log[e.id]
    BY HearingFacts
<1>3. PartOfLog(h) /\ \A k \in 1..Len(h) : h[k].id <= q
    BY <1>1, LongerFacts
<1>4. history \in Seq(Entries) /\ Len(history) \in Nat
    BY DEF HistoryInv, PartOfLog
<1>5. ASSUME NEW i \in 1..q, Included(log[i]) PROVE \E k \in 1..Len(h) : h[k].id = i
    <2>1. CASE i = q
        <3>1. h = Append(history, e)
            BY <1>1, <1>2, <1>5, <2>1 DEF Longer
        <3>2. Len(h) = Len(history) + 1 /\ h[Len(history) + 1] = e
            BY <1>4, <3>1
        <3>3. Len(history) + 1 \in 1..Len(h)
            BY <1>4, <3>2
        <3> QED
            BY <1>2, <2>1, <3>2, <3>3
    <2>2. CASE i # q
        <3>1. i \in 1..heard
            BY <1>2, <2>2
        <3>2. PICK k \in 1..Len(history) : history[k].id = i
            BY <1>5, <3>1 DEF Whole
        <3>3. h = history \/ h = Append(history, e)
            BY <1>1, LongerFacts
        <3>4. k \in 1..Len(h) /\ h[k] = history[k]
            BY <1>4, <3>3
        <3> QED
            BY <3>2, <3>4
    <2> QED
        BY <2>1, <2>2
<1>6. ASSUME NEW k \in 1..Len(h) PROVE Included(h[k])
    <2>1. CASE h = history
        BY <2>1 DEF Whole
    <2>2. CASE Included(e) /\ h = Append(history, e)
        <3>1. CASE k \in 1..Len(history)
            BY <1>4, <2>2, <3>1 DEF Whole
        <3>2. CASE k \notin 1..Len(history)
            <4>1. h[k] = e
                BY <1>4, <2>2, <3>2
            <4> QED
                BY <2>2, <4>1
        <3> QED
            BY <3>1, <3>2
    <2> QED
        BY <1>1, <2>1, <2>2 DEF Longer
<1>7. Whole(h, q)
    BY <1>3, <1>5, <1>6 DEF Whole
<1> QED
    BY <1>1, <1>2, <1>7

\* An event is heard.
LEMMA UncutHeard ==
    ASSUME overtaken' = 0, LogInv, LogInv', HistoryInv, Uncut, NEW e, Hearing(e), history' = Longer(e),
           pipeline' = pipeline, endId' = 0, saved' = 0, NEW q, q = heard + 1, Adds(q)
    PROVE  Uncut'
<1>1. PICK h : h = Longer(e)
    OBVIOUS
<1>2. Whole(h, q) /\ q \in 0..Len(log) /\ heard \in Nat /\ heard' = q
    BY <1>1, WholeLonger DEF Uncut
<1>3. Whole(h, q)'
    BY <1>2, WholeGrows DEF Adds
<1>4. Whole(history, heard)'
    BY <1>1, <1>2, <1>3
<1>5. heard <= heard'
    BY <1>2
<1> QED
    BY <1>2, <1>4, <1>5, UncutKept

\* An event is published from outside of the controller.
LEMMA UncutOutside ==
    ASSUME LogInv, LogInv', HistoryInv, Uncut,
           NEW kind, kind \notin {"recovery", "condensation"}, NEW of, NEW what,
           Publish(<<Event(0, kind, of, what)>>),
           UNCHANGED <<heard, history, endId, saved, pipeline>>
    PROVE  Uncut'
<1>1. PICK q : q = heard
    OBVIOUS
<1>2. Adds(q)
    BY OneMore
<1>3. q \in 0..Len(log) /\ heard <= heard' /\ heard' = q
    BY <1>1, LogFacts DEF HistoryInv
<1>4. PICK h : h = history
    OBVIOUS
<1>5. Whole(h, q)'
    BY <1>1, <1>2, <1>3, <1>4, WholeGrows DEF Adds, Uncut
<1>6. Whole(history, heard)'
    BY <1>3, <1>4, <1>5
<1> QED
    BY <1>2, <1>3, <1>6, UncutKept DEF Uncut

\* The agent's step: a condensation is one of the history with the event.
LEMMA UncutStep ==
    ASSUME overtaken' = 0, Keeps, IInv, LogInv', Uncut, NEW e, AgentSteps(e)
    PROVE  Uncut'
<1>0. LogInv /\ HistoryInv /\ CutsInv /\ WaitingInv /\ CacheInv /\ CurrentInv
    BY DEF IInv
<1>1. PICK h : h = Longer(e)
    OBVIOUS
<1>2. PICK q : q = heard + 1
    OBVIOUS
<1>3. PICK c : c = Condensed(pipeline, CacheFor(h).view, CacheFor(h).unhandled)
    OBVIOUS
<1>4. Hearing(e) /\ history' = h /\ Step(h, mode) /\ pipeline' = pipeline
    BY <1>1 DEF AgentSteps
<1>5. PartOfLog(h) /\ Len(h) >= 2 /\ Len(log) >= 2
    BY <1>1, AgentStepsFacts
<1>6. endId = 0 /\ saved = 0
    BY DEF Uncut
<1>7. \/ log' = log /\ \E m : SetMode(m, endId)
      \/ \E a \in Entries :
           /\ Acts(a, mode) /\ Harmless(a, pipeline)
           /\ \/ a.kind \in {"call", "say", "ask", "request"}
              \/ a.kind = "condensation" /\ c # <<>> /\ a = c[1] /\ a # Raised
    BY <1>0, <1>3, <1>4, <1>5, StepShape, Zenon
<1>8. endId' = 0 /\ saved' = 0
    <2>1. \E m : SetMode(m, endId)
        BY <1>7 DEF Acts
    <2> QED
        BY <1>6, <2>1 DEF SetMode
<1>9. Adds(q)
    <2>1. CASE log' = log
        BY <1>0, <2>1, NoMore
    <2>2. CASE \E a \in Entries :
                 /\ Acts(a, mode) /\ Harmless(a, pipeline)
                 /\ \/ a.kind \in {"call", "say", "ask", "request"}
                    \/ a.kind = "condensation" /\ c # <<>> /\ a = c[1] /\ a # Raised
        <3>1. PICK a \in Entries :
                 /\ Acts(a, mode) /\ Harmless(a, pipeline)
                 /\ \/ a.kind \in {"call", "say", "ask", "request"}
                    \/ a.kind = "condensation" /\ c # <<>> /\ a = c[1] /\ a # Raised
            BY <2>2
        <3>2. Publish(<<a>>)
            BY <3>1 DEF Acts
        <3>3. /\ Grows /\ Len(log') = NextId
              /\ log'[Len(log')].kind = a.kind /\ log'[Len(log')].forget = a.forget
              /\ log'[Len(log')].summary = a.summary
            BY <1>0, <1>4, <1>5, <3>1, <3>2, PublishOne
        <3>4. PICK n : n = Len(log')
            OBVIOUS
        <3>5. \A i \in 1..Len(log') : i > Len(log) => i = n
            BY <1>0, <3>3, <3>4, LogFacts DEF NextId
        <3>6. ASSUME a.kind = "condensation" PROVE Made(n, q)'
            <4>1. c # <<>> /\ a = c[1] /\ a # Raised
                BY <3>1, <3>6
            <4>2. CacheFor(h).view = ViewOf(h)
                BY <1>0, <1>1, <1>4, <1>6, CurrentView
            <4>3. PICK u : u = CacheFor(h).unhandled
                OBVIOUS
            <4>4. u \in BOOLEAN
                BY <1>0, <1>5, <4>3, CacheForFacts
            <4>5. c = Condensed(pipeline', ViewOf(h), u)
                BY <1>3, <1>4, <4>2, <4>3
            <4>6. Whole(h, q)'
                <5>1. Whole(h, q) /\ q \in 0..Len(log)
                    BY <1>0, <1>1, <1>2, <1>4, WholeLonger DEF Uncut
                <5> QED
                    BY <1>0, <3>3, <5>1, WholeGrows
            <4>7. log'[n].forget = c[1].forget /\ log'[n].summary = c[1].summary
                BY <3>3, <3>4, <4>1
            <4> QED
                BY <1>5, <4>1, <4>4, <4>5, <4>6, <4>7, Zenon DEF Made
        <3>7. log'[n].kind # "recovery" /\ (log'[n].kind = "condensation" => Made(n, q)')
            BY <3>1, <3>3, <3>4, <3>6
        <3>8. ASSUME NEW i \in 1..Len(log'), i > Len(log)
              PROVE  log'[i].kind # "recovery" /\ (log'[i].kind = "condensation" => Made(i, q)')
            <4>1. i = n
                BY <3>5, <3>8
            <4> QED
                BY <3>7, <4>1
        <3> QED
            BY <3>3, <3>8 DEF Adds
    <2> QED
        BY <1>7, <2>1, <2>2
<1> QED
    BY <1>0, <1>1, <1>2, <1>4, <1>8, <1>9, UncutHeard

\* A restart loads the whole log.
LEMMA WholeStored ==
    ASSUME LogInv, NEW q, q = Len(log)
    PROVE  Whole(Stored(0), q)
<1> DEFINE P == {i \in DOMAIN log : Included(log[i]) /\ (0 = 0 \/ log[i].id <= 0)}
<1>1. /\ log \in Seq(Entries) /\ Len(log) \in Nat /\ DOMAIN log = 1..Len(log)
      /\ \A i \in 1..Len(log) : log[i].id = i
    BY LogFacts
<1>2. PICK t : t = Stored(0)
    OBVIOUS
<1>3. t = Picked(log, P)
    BY <1>2 DEF Stored
<1>4. \A i \in 1..Len(log) : Included(log[i]) <=> i \in P
    BY <1>1
<1>5. PartOfLog(t)
    <2>1. 0 \in Nat \ {1}
        OBVIOUS
    <2> HIDE DEF P
    <2> QED
        BY <1>2, <2>1, StoredFacts
<1> HIDE DEF P
<1>6. PICK at : Selects(t, at, log, P, Len(log))
    BY <1>1, <1>3, PickedFacts
<1>7. ASSUME NEW i \in 1..q, Included(log[i]) PROVE \E k \in 1..Len(t) : t[k].id = i
    <2>1. i \in (1..Len(log)) \cap P
        BY <1>4, <1>7
    <2>2. PICK k \in 1..Len(t) : at[k] = i
        BY <1>6, <2>1 DEF Selects
    <2>3. t[k] = log[i]
        BY <1>6, <2>2 DEF Selects
    <2> QED
        BY <1>1, <2>1, <2>3
<1>8. ASSUME NEW k \in 1..Len(t) PROVE t[k].id <= q /\ Included(t[k])
    <2>1. at[k] \in 1..Len(log) /\ at[k] \in P /\ t[k] = log[at[k]]
        BY <1>6 DEF Selects
    <2> QED
        BY <1>1, <1>4, <2>1
<1> QED
    BY <1>2, <1>5, <1>7, <1>8 DEF Whole

LEMMA UncutCrash ==
    ASSUME IInv, LogInv', Uncut, Crash
    PROVE  Uncut'
<1>0. LogInv /\ HistoryInv
    BY DEF IInv
<1>1. /\ history' = Stored(saved) /\ endId' = saved /\ heard' = Len(log)
      /\ log' = log /\ saved' = saved /\ pipeline' = pipeline
    BY DEF Crash
<1>2. saved = 0
    BY DEF Uncut
<1>3. PICK q : q = Len(log)
    OBVIOUS
<1>4. q \in 0..Len(log) /\ heard <= heard' /\ heard' = q
    BY <1>0, <1>1, <1>3, LogFacts DEF HistoryInv
<1>5. Adds(q)
    BY <1>0, <1>1, NoMore
<1>6. PICK h : h = Stored(0)
    OBVIOUS
<1>7. Whole(h, q)'
    BY <1>0, <1>3, <1>4, <1>5, <1>6, WholeStored, WholeGrows DEF Adds
<1>8. history' = h
    BY <1>1, <1>2, <1>6
<1>9. Whole(history, heard)'
    BY <1>4, <1>7, <1>8
<1>10. endId' = 0 /\ saved' = 0
    BY <1>1, <1>2
<1> QED
    BY <1>0, <1>1, <1>4, <1>5, <1>9, <1>10, UncutKept

LEMMA UncutHears ==
    ASSUME overtaken' = 0, Keeps, Interactive, IInv, LogInv', Uncut,
           HearMessage \/ HearAnswer \/ HearOwn \/ HearRest
    PROVE  Uncut'
<1>0. LogInv /\ HistoryInv /\ endId = 0 /\ saved = 0
    BY DEF IInv, Uncut
<1>1. PICK q : q = heard + 1
    OBVIOUS
<1>2. CASE HearMessage
    <2>1. PICK e : /\ Hearing(e) /\ e.kind = "message" /\ history' = Longer(e)
                   /\ Publish(<<Event(0, "recall", 0, e.what)>>)
                   /\ SetMode("running", endId) /\ pipeline' = pipeline
        BY <1>2, Zenon DEF HearMessage
    <2>2. endId' = 0 /\ saved' = 0
        BY <1>0, <2>1 DEF SetMode
    <2>3. Adds(q)
        BY <1>0, <2>1, OneMore
    <2> QED
        BY <1>0, <1>1, <2>1, <2>2, <2>3, UncutHeard
<1>3. CASE HearAnswer
    <2>1. PICK e : /\ Hearing(e) /\ e.kind \in Observations \cup {"null"}
                   /\ history' = Longer(e) /\ pipeline' = pipeline
                   /\ Step(Longer(e), mode) \/ UNCHANGED <<log, endId, saved>>
        BY <1>3, Zenon DEF HearAnswer
    <2>2. CASE Step(Longer(e), mode)
        <3>1. AgentSteps(e)
            BY <2>1, <2>2 DEF AgentSteps, Observations
        <3> QED
            BY <3>1, UncutStep
    <2>3. CASE UNCHANGED <<log, endId, saved>>
        BY <1>0, <1>1, <2>1, <2>3, NoMore, UncutHeard
    <2> QED
        BY <2>1, <2>2, <2>3
<1>4. CASE HearOwn
    <2>1. PICK e : /\ Hearing(e) /\ e.kind \in {"condensation", "request", "say"}
                   /\ history' = Longer(e) /\ pipeline' = pipeline
                   /\ Step(Longer(e), mode) \/ UNCHANGED <<log, endId, saved>>
        BY <1>4, Zenon DEF HearOwn
    <2>2. CASE Step(Longer(e), mode)
        <3>1. AgentSteps(e)
            BY <2>1, <2>2 DEF AgentSteps
        <3> QED
            BY <3>1, UncutStep
    <2>3. CASE UNCHANGED <<log, endId, saved>>
        BY <1>0, <1>1, <2>1, <2>3, NoMore, UncutHeard
    <2> QED
        BY <2>1, <2>2, <2>3
<1>5. CASE HearRest
    <2>1. PICK e : /\ Hearing(e) /\ history' = Longer(e) /\ pipeline' = pipeline
                   /\ \E m : SetMode(m, endId)
                   /\ log' = log
        BY <1>5, Zenon DEF HearRest
    <2>2. endId' = 0 /\ saved' = 0
        BY <1>0, <2>1 DEF SetMode
    <2> QED
        BY <1>0, <1>1, <2>1, <2>2, NoMore, UncutHeard
<1> QED
    BY <1>2, <1>3, <1>4, <1>5

LEMMA UncutNext ==
    ASSUME overtaken' = 0, Keeps, Interactive, IInv, UncutInv, Next
    PROVE  UncutInv'
<1>0. LogInv /\ HistoryInv /\ LogInv' /\ recoveries \in Nat
    BY NextKeeps DEF IInv, UncutInv
<1>1. CASE UserWrites
    <2>1. /\ Publish(<<Event(0, "message", 0, "m")>>)
          /\ UNCHANGED <<heard, history, endId, saved, pipeline, recoveries>>
        BY <1>1 DEF UserWrites, counters
    <2> QED
        BY <1>0, <2>1, UncutOutside DEF UncutInv
<1>2. CASE MemoryAnswers
    <2>1. PICK kind, i :
            /\ kind \in {"recalled", "null"} /\ Publish(<<Event(0, kind, i, "")>>)
            /\ UNCHANGED <<heard, history, endId, saved, pipeline, recoveries>>
        BY <1>2 DEF MemoryAnswers, counters
    <2>2. kind \notin {"recovery", "condensation"}
        BY <2>1
    <2> QED
        BY <1>0, <2>1, <2>2, UncutOutside DEF UncutInv
<1>3. CASE ToolEnds
    <2>1. PICK kind, i, w :
            /\ kind \in Results /\ Publish(<<Event(0, kind, i, w)>>)
            /\ UNCHANGED <<heard, history, endId, saved, pipeline, recoveries>>
        BY <1>3 DEF ToolEnds, counters
    <2>2. kind \notin {"recovery", "condensation"}
        BY <2>1, ChoicesAssumption DEF ChoicesAssumption
    <2> QED
        BY <1>0, <2>1, <2>2, UncutOutside DEF UncutInv
<1>4. CASE UserRecovers
    <2>1. recoveries' = recoveries + 1
        BY <1>4 DEF UserRecovers
    <2> QED
        BY <1>0, <2>1 DEF UncutInv
<1>5. CASE HearMessage \/ HearAnswer \/ HearOwn \/ HearRest
    <2>1. recoveries' = recoveries
        BY <1>5 DEF HearMessage, HearAnswer, HearOwn, HearRest
    <2> QED
        BY <1>0, <1>5, <2>1, UncutHears DEF UncutInv
<1>6. CASE HearRecovery
    <2>1. PICK e : Hearing(e) /\ e.kind = "recovery" /\ recoveries' = recoveries
        BY <1>6, Zenon DEF HearRecovery
    <2>2. ~Uncut
        BY <1>0, <2>1, HearingFacts DEF Uncut
    <2> QED
        BY <1>0, <2>1, <2>2 DEF UncutInv
<1>7. CASE Crash
    <2>1. recoveries' = recoveries
        BY <1>7 DEF Crash
    <2> QED
        BY <1>0, <1>7, <2>1, UncutCrash DEF UncutInv
<1> QED
    BY <1>1, <1>2, <1>3, <1>4, <1>5, <1>6, <1>7 DEF Next

LEMMA UncutAtFirst ==
    ASSUME Init
    PROVE  UncutInv
<1>1. IInv
    BY InitHolds
<1>2. PICK e : e = Event(1, "system", 0, "") /\ log = <<e>>
    BY DEF Init
<1>3. e.kind = "system"
    BY <1>2 DEF Event, Entry
<1>4. Len(log) = 1 /\ log[1] = e
    BY <1>2
<1>5. heard = 0 /\ endId = 0 /\ saved = 0 /\ recoveries = 0
    BY DEF Init
<1>6. Whole(history, heard)
    <2>1. PartOfLog(history) /\ history = <<>>
        BY <1>1 DEF IInv, HistoryInv, Init
    <2>2. Len(history) = 0
        BY <2>1
    <2> QED
        BY <1>5, <2>1, <2>2 DEF Whole
<1>7. Dates([i \in 1..1 |-> 0])
    <2>1. PICK at : at = [i \in 1..1 |-> 0]
        OBVIOUS
    <2>2. at \in [1..1 -> 0..0] /\ at[1] = 0
        BY <2>1
    <2>3. ASSUME NEW i \in 1..1
          PROVE  /\ at[i] < i /\ \A j \in 1..1 : i < j => at[i] <= at[j]
                 /\ log[i].kind # "condensation"
        BY <1>3, <1>4, <2>2
    <2>4. Dates(at)
        BY <1>4, <1>5, <2>2, <2>3 DEF Dates
    <2> QED
        BY <2>1, <2>4
<1>8. \A i \in 1..Len(log) : log[i].kind # "recovery"
    BY <1>3, <1>4
<1> QED
    BY <1>5, <1>6, <1>7, <1>8 DEF UncutInv, Uncut

\* The log's condensations are decided on views of the history as it was, in their
\* order, until a loop is cut out.
LEMMA UncutHolds ==
    ASSUME Keeps, Interactive
    PROVE  Spec => [](InTurn => UncutInv)
<1>1. Init => UncutInv
    BY UncutAtFirst
<1>2. ASSUME Sound, InTurn => UncutInv, [Next]_vars, InTurn' PROVE UncutInv'
    <2>0. IInv /\ UncutInv /\ overtaken' = 0
        BY <1>2, StepsInTurn DEF IInv, HistoryInv, InTurn
    <2>1. CASE UNCHANGED vars
        <3>1. LogInv /\ LogInv' /\ HistoryInv /\ log' = log /\ heard' = heard /\ history' = history
              /\ endId' = endId /\ saved' = saved /\ recoveries' = recoveries
              /\ pipeline' = pipeline
            BY <2>0, <2>1, StutterKeeps DEF IInv, vars, counters
        <3>2. ASSUME Uncut PROVE Uncut'
            <4>1. PICK q : q = heard
                OBVIOUS
            <4>2. PICK h : h = history
                OBVIOUS
            <4>3. Adds(q) /\ q \in 0..Len(log) /\ heard' = q /\ heard <= heard'
                BY <3>1, <4>1, NoMore, LogFacts DEF HistoryInv
            <4>4. Whole(h, q)'
                BY <3>1, <3>2, <4>1, <4>2, <4>3, WholeGrows DEF Adds, Uncut
            <4>5. Whole(history, heard)'
                BY <3>1, <4>2, <4>3, <4>4
            <4> QED
                BY <3>1, <3>2, <4>3, <4>5, UncutKept DEF Uncut
        <3> QED
            BY <2>0, <3>1, <3>2 DEF UncutInv
    <2> QED
        BY <1>2, <2>0, <2>1, UncutNext
<1> QED
    BY <1>1, <1>2, Inductive, PTL DEF Spec

-----------------------------------------------------------------------------
(* From the log to the argument on ids.                                    *)

Ordered(k) == /\ k \in Seq(Entries)
              /\ \A i, j \in 1..Len(k) : i < j => k[i].id < k[j].id

\* The ids at the positions a..b.
Ids(k, a, b) == {k[i].id : i \in a..b}

\* k lists the ids of K.
Lists(k, K) == Ordered(k) /\ K = Ids(k, 1, Len(k))

LEMMA OrderedFacts ==
    ASSUME NEW k, Ordered(k), NEW i \in 1..Len(k), NEW j \in 1..Len(k)
    PROVE  /\ k[i].id \in Nat /\ k[j].id \in Nat
           /\ k[i].id < k[j].id <=> i < j
           /\ k[i].id = k[j].id <=> i = j
<1>1. k[i].id \in Nat /\ k[j].id \in Nat
    BY EntryType DEF Ordered
<1>2. /\ i < j => k[i].id < k[j].id
      /\ j < i => k[j].id < k[i].id
    BY DEF Ordered
<1> QED
    BY <1>1, <1>2

LEMMA IdsCount ==
    ASSUME NEW k, Ordered(k), NEW a \in Nat \ {0}, NEW b \in 0..Len(k), a <= b + 1
    PROVE  IsFiniteSet(Ids(k, a, b)) /\ Cardinality(Ids(k, a, b)) = b - a + 1
<1>0. Len(k) \in Nat /\ a..b \subseteq 1..Len(k)
    BY DEF Ordered
<1>1. PICK I : I = Ids(k, a, b)
    OBVIOUS
<1>2. PICK f : f = [i \in a..b |-> k[i].id]
    OBVIOUS
<1>3. f \in [a..b -> I] /\ \A i \in a..b : f[i] = k[i].id
    BY <1>1, <1>2 DEF Ids
<1>4. \A i, j \in a..b : f[i] = f[j] => i = j
    BY <1>0, <1>3, OrderedFacts
<1>5. \A x \in I : \E i \in a..b : f[i] = x
    BY <1>1, <1>3 DEF Ids
<1>6. ExistsBijection(a..b, I)
    <2>1. f \in Injection(a..b, I)
        BY <1>3, <1>4 DEF Injection, IsInjective
    <2>2. f \in Surjection(a..b, I)
        BY <1>3, <1>5 DEF Surjection
    <2> QED
        BY <2>1, <2>2 DEF ExistsBijection, Bijection
<1>7. IsFiniteSet(a..b) /\ Cardinality(a..b) = b - a + 1
    <2>1. a \in Int /\ b \in Int
        BY <1>0
    <2>2. IsFiniteSet(a..b) /\ Cardinality(a..b) = IF a > b THEN 0 ELSE b - a + 1
        BY <2>1, FS_Interval, Zenon
    <2>3. a > b => b - a + 1 = 0
        BY <2>1
    <2> QED
        BY <2>2, <2>3
<1>8. IsFiniteSet(I) /\ Cardinality(I) = Cardinality(a..b)
    BY <1>6, <1>7, FS_Bijection, Zenon
<1> QED
    BY <1>0, <1>1, <1>7, <1>8

\* How many ids of an ordered sequence are before and behind an entry.
LEMMA Ranks ==
    ASSUME NEW k, Ordered(k), NEW K, K = Ids(k, 1, Len(k))
    PROVE  /\ K \in SUBSET Nat /\ IsFiniteSet(K) /\ Cardinality(K) = Len(k)
           /\ \A i \in 1..Len(k) : /\ Cardinality(Below(K, k[i].id)) = i - 1
                                   /\ Cardinality(Above(K, k[i].id)) = Len(k) - i
<1>0. Len(k) \in Nat
    BY DEF Ordered
<1>1. K \in SUBSET Nat
    <2>1. \A i \in 1..Len(k) : k[i].id \in Nat
        BY OrderedFacts
    <2> QED
        BY <2>1 DEF Ids
<1>2. IsFiniteSet(K) /\ Cardinality(K) = Len(k)
    BY <1>0, IdsCount
<1>3. ASSUME NEW i \in 1..Len(k)
      PROVE  /\ Cardinality(Below(K, k[i].id)) = i - 1
             /\ Cardinality(Above(K, k[i].id)) = Len(k) - i
    <2>1. Below(K, k[i].id) = Ids(k, 1, i - 1)
        <3>1. ASSUME NEW x \in Below(K, k[i].id) PROVE x \in Ids(k, 1, i - 1)
            <4>1. PICK j \in 1..Len(k) : x = k[j].id /\ k[j].id < k[i].id
                BY DEF Below, Ids
            <4>2. j \in 1..i - 1
                BY <1>0, <4>1, OrderedFacts
            <4> QED
                BY <4>1, <4>2 DEF Ids
        <3>2. ASSUME NEW x \in Ids(k, 1, i - 1) PROVE x \in Below(K, k[i].id)
            <4>1. PICK j \in 1..i - 1 : x = k[j].id
                BY DEF Ids
            <4>2. j \in 1..Len(k) /\ j < i
                BY <1>0
            <4> QED
                BY <4>1, <4>2, OrderedFacts DEF Below, Ids
        <3> QED
            BY <3>1, <3>2
    <2>2. Above(K, k[i].id) = Ids(k, i + 1, Len(k))
        <3>1. ASSUME NEW x \in Above(K, k[i].id) PROVE x \in Ids(k, i + 1, Len(k))
            <4>1. PICK j \in 1..Len(k) : x = k[j].id /\ k[j].id > k[i].id
                BY DEF Above, Ids
            <4>2. j \in i + 1..Len(k)
                BY <1>0, <4>1, OrderedFacts
            <4> QED
                BY <4>1, <4>2 DEF Ids
        <3>2. ASSUME NEW x \in Ids(k, i + 1, Len(k)) PROVE x \in Above(K, k[i].id)
            <4>1. PICK j \in i + 1..Len(k) : x = k[j].id
                BY DEF Ids
            <4>2. j \in 1..Len(k) /\ i < j
                BY <1>0
            <4>3. k[i].id < k[j].id /\ k[i].id \in Nat /\ k[j].id \in Nat
                BY <4>2, OrderedFacts
            <4> QED
                BY <4>1, <4>2, <4>3 DEF Above, Ids
        <3> QED
            BY <3>1, <3>2
    <2>3. Cardinality(Ids(k, 1, i - 1)) = i - 1
        BY <1>0, IdsCount
    <2>4. Cardinality(Ids(k, i + 1, Len(k))) = Len(k) - i
        BY <1>0, IdsCount
    <2> QED
        BY <2>1, <2>2, <2>3, <2>4
<1> QED
    BY <1>1, <1>2, <1>3

\* The middle of an ordered sequence's ids are those of its middle.
LEMMA MiddleIds ==
    ASSUME NEW k, Ordered(k), NEW K, K = Ids(k, 1, Len(k))
    PROVE  Middle(K) = Ids(k, KeepFirst + 1, Len(k) - FromTail(KeepFirst))
<1>0. Len(k) \in Nat /\ KeepFirst \in Nat /\ FromTail(KeepFirst) \in Nat
    BY FromTailFacts, SizesAssumption DEF Ordered, SizesAssumption
<1>1. ASSUME NEW i \in 1..Len(k)
      PROVE  k[i].id \in Middle(K)
                 <=> i \in KeepFirst + 1..Len(k) - FromTail(KeepFirst)
    <2>1. /\ Cardinality(Below(K, k[i].id)) = i - 1
          /\ Cardinality(Above(K, k[i].id)) = Len(k) - i
        BY Ranks
    <2>2. k[i].id \in K
        BY DEF Ids
    <2>3. k[i].id \in Middle(K) <=> i - 1 >= KeepFirst /\ Len(k) - i >= FromTail(KeepFirst)
        BY <2>1, <2>2 DEF Middle
    <2> QED
        BY <1>0, <2>3
<1>2. \A x \in Middle(K) : \E i \in 1..Len(k) : x = k[i].id
    BY DEF Middle, Ids
<1>3. KeepFirst + 1..Len(k) - FromTail(KeepFirst) \subseteq 1..Len(k)
    BY <1>0
<1> QED
    BY <1>1, <1>2, <1>3 DEF Ids

-----------------------------------------------------------------------------
(* What the condensers of a pipeline decide.                               *)

\* A summary, and behind a window condenser one by size; or a window condensation,
\* with that condenser in front; or one of the amortized condenser.
BySummary(p, v, c) ==
    /\ c = Summarize(v) /\ c.summary.offset >= 0
    /\ ~("amortized" \in Range(p)) /\ (p[1] = "window" => Len(v) > MaxSize)
ByWindow(p, v, c) == c = Window(v) /\ c.summary = NoSummary /\ p[1] = "window"
ByAmortizing(p, c) == c.summary = NoSummary /\ "amortized" \in Range(p)

LEMMA CondensationFields ==
    ASSUME NEW F, NEW s
    PROVE  Condensation(F, s).forget = F /\ Condensation(F, s).summary = s
<1>1. PICK d : d = Entry(0, "condensation", 0, "", F, s)
    OBVIOUS
<1>2. d.forget = F /\ d.summary = s
    BY <1>1 DEF Entry
<1> QED
    BY <1>1, <1>2 DEF Condensation

LEMMA CondensedShape ==
    ASSUME Keeps, NEW p \in Pipelines, NEW v, GoodView(v, p), NEW u \in BOOLEAN,
           NEW c, c = Condensed(p, v, u), c # <<>>, c[1] # Raised
    PROVE  BySummary(p, v, c[1]) \/ ByWindow(p, v, c[1]) \/ ByAmortizing(p, c[1])
<1>1. PICK due : due = {i \in DOMAIN p : Due(p[i], v, u)}
    OBVIOUS
<1>2. due # {} /\ c = <<CondensationBy(p[MinOf(due)], v)>>
    BY <1>1 DEF Condensed
<1>3. PICK i : i = MinOf(due)
    OBVIOUS
<1>4. due \in SUBSET Nat
    BY <1>1, OnlyOneCounts
<1>5. i \in due /\ \A j \in due : i <= j
    BY <1>2, <1>3, <1>4, MinOfFact
<1>6. i \in 1..Len(p) /\ Due(p[i], v, u)
    BY <1>1, <1>5, OnlyOneCounts
<1>7. c[1] = CondensationBy(p[i], v)
    BY <1>2, <1>3
<1>8. ASSUME u PROVE i = 1
    <2>1. 1 \in due
        BY <1>1, <1>6, <1>8, OnlyOneCounts DEF Due
    <2> QED
        BY <1>5, <1>6, <2>1
<1>9. ASSUME NEW F PROVE Condensation(F, NoSummary).summary = NoSummary
    BY CondensationFields
<1>10. CASE p[i] = "window"
    <2>1. u
        BY <1>6, <1>10 DEF Due
    <2>2. c[1] = Window(v) /\ p[1] = "window"
        BY <1>7, <1>8, <1>10, <2>1 DEF CondensationBy
    <2>3. PICK F : Window(v) = Condensation(F, NoSummary)
        BY Zenon DEF Window
    <2> QED
        BY <1>9, <2>2, <2>3 DEF ByWindow
<1>11. CASE p[i] = "summarizing"
    <2>1. c[1] = Summarize(v) /\ ~("amortized" \in Range(p))
        BY <1>6, <1>7, <1>11, OnlyOneCounts DEF CondensationBy
    <2>2. ASSUME p[1] = "window" PROVE Len(v) > MaxSize
        <3>1. ~u
            BY <1>8, <1>11, <2>2
        <3> QED
            BY <1>6, <1>11, <3>1 DEF Due
    <2>3. Summarize(v).summary.offset >= 0
        <3>1. PICK F, t : Summarize(v) = Condensation(F, [offset |-> KeepFirst, covers |-> t])
            <4>1. v \in Seq(Entries)
                BY FirstOfGoodView
            <4> QED
                BY <2>1, <4>1, SummarizeShape, Zenon
        <3>2. PICK s : s = [offset |-> KeepFirst, covers |-> t]
            OBVIOUS
        <3>3. Condensation(F, s).summary = s
            BY CondensationFields
        <3>4. s.offset = KeepFirst /\ KeepFirst \in Nat
            BY <3>2, SizesAssumption DEF SizesAssumption
        <3> QED
            BY <3>1, <3>2, <3>3, <3>4
    <2> QED
        BY <2>1, <2>2, <2>3 DEF BySummary
<1>12. CASE p[i] = "amortized"
    <2>1. c[1] = Amortize(v) /\ "amortized" \in Range(p)
        BY <1>6, <1>7, <1>12, OnlyOneCounts DEF CondensationBy
    <2>2. PICK F : Amortize(v) = Condensation(F, NoSummary)
        BY <2>1, Zenon DEF Amortize
    <2> QED
        BY <1>9, <2>1, <2>2 DEF ByAmortizing
<1> QED
    BY <1>6, <1>10, <1>11, <1>12, OnlyOneCounts

\* Where the entries of a view are: those that are kept, and one summary after the
\* first KeepFirst of them.
WithSummary(v, k, a, e, covers) ==
    /\ Inserted(v, k, a, e) /\ e \in Entries /\ e.kind = "summary" /\ e.id = 0
    /\ e.summary.covers = covers
    /\ a \in 1..Len(k) + 1
    /\ a = IF KeepFirst <= Len(k) THEN KeepFirst + 1 ELSE Len(k) + 1

LEMMA ViewEntries ==
    ASSUME Keeps, NEW p, NEW h, GoodHistory(h, p), NEW v, v = ViewOf(h),
           NEW k, k = Kept(h)
    PROVE  \/ Summaries(h) = {} /\ v = k
           \/ \E m \in Summaries(h) : \E a, e :
                 /\ \A n \in Summaries(h) : m >= n
                 /\ WithSummary(v, k, a, e, h[m].summary.covers)
<1>1. h \in Seq(Entries) /\ Len(h) \in Nat /\ DOMAIN h = 1..Len(h)
    BY DEF GoodHistory
<1>2. k \in Seq(Entries) /\ Len(k) \in Nat
    BY <1>1, KeptOrigins
<1>3. CASE Summaries(h) = {}
    BY <1>3, ViewShape
<1>4. CASE Summaries(h) # {}
    <2>1. PICK m \in Summaries(h) :
            /\ \A n \in Summaries(h) : m >= n
            /\ v = InsertAt(k, MinOf({KeepFirst, Len(k)}) + 1,
                            SummaryEvent(h[m].summary.covers))
        BY <1>4, ViewShape
    <2>2. m \in 1..Len(h)
        BY <1>1 DEF Summaries, Condensations
    <2>3. PICK d : d = h[m].summary.covers
        OBVIOUS
    <2>4. d \in SUBSET Nat
        BY <1>1, <2>2, <2>3, EntryType
    <2>5. PICK e : e = SummaryEvent(d)
        OBVIOUS
    <2>6. e \in Entries /\ e.kind = "summary" /\ e.id = 0 /\ e.summary.covers = d
        BY <2>4, <2>5, SummaryEventType
    <2>7. PICK a : a = MinOf({KeepFirst, Len(k)}) + 1
        OBVIOUS
    <2>8. /\ a \in 1..Len(k) + 1
          /\ a = IF KeepFirst <= Len(k) THEN KeepFirst + 1 ELSE Len(k) + 1
        <3>1. PICK l \in Nat : l = Len(k)
            BY <1>2
        <3>2. KeepFirst \in Nat
            BY SizesAssumption DEF SizesAssumption
        <3>3. MinOf({KeepFirst, l}) = IF KeepFirst <= l THEN KeepFirst ELSE l
            BY <3>1, <3>2, MinOfPair
        <3> QED
            BY <2>7, <3>1, <3>2, <3>3
    <2>9. v = InsertAt(k, a, e)
        BY <2>1, <2>3, <2>5, <2>7
    <2>10. Inserted(v, k, a, e)
        BY <1>2, <2>6, <2>8, <2>9, InsertFacts
    <2>11. WithSummary(v, k, a, e, h[m].summary.covers)
        BY <2>3, <2>6, <2>8, <2>10 DEF WithSummary
    <2> QED
        BY <2>1, <2>11
<1> QED
    BY <1>3, <1>4

\* What the summarizing condenser takes from a view, in terms of what is kept.
LEMMA TakenFromKept ==
    ASSUME Keeps, NEW p, NEW h, GoodHistory(h, p), Len(h) >= 2, NEW v, v = ViewOf(h),
           NEW k, k = Kept(h), Len(v) > KeepFirst
    PROVE  /\ Taken(v) = Ids(k, KeepFirst + 1, Len(k) - FromTail(KeepFirst))
           /\ Len(k) >= Len(v) - 1
           /\ Summaries(h) # {} =>
                 \E m \in Summaries(h) :
                    /\ \A n \in Summaries(h) : m >= n
                    /\ Previous(v).summary.covers = h[m].summary.covers
<1>0. /\ k \in Seq(Entries) /\ Len(k) \in Nat /\ KeepFirst \in Nat
      /\ FromTail(KeepFirst) \in Nat
      /\ \A i \in 1..Len(k) : k[i].kind # "summary"
    <2>1. \A i \in 1..Len(k) : k[i].kind # "summary"
        BY KeptFacts DEF LoggedKinds
    <2> QED
        BY <2>1, KeptFacts, FromTailFacts, SizesAssumption DEF SizesAssumption
<1>1. CASE Summaries(h) = {} /\ v = k
    <2>1. KeepFirst + 1..Len(k) - FromTail(KeepFirst) \subseteq 1..Len(k)
        BY <1>0
    <2>2. {j \in KeepFirst + 1..Len(k) - FromTail(KeepFirst) : k[j].kind # "summary"}
              = KeepFirst + 1..Len(k) - FromTail(KeepFirst)
        BY <1>0, <2>1
    <2>3. Taken(v) = Ids(k, KeepFirst + 1, Len(k) - FromTail(KeepFirst))
        BY <1>1, <2>2 DEF Taken, Ids
    <2> QED
        BY <1>0, <1>1, <2>3
<1>2. ASSUME NEW m \in Summaries(h), NEW a, NEW e, \A n \in Summaries(h) : m >= n,
             WithSummary(v, k, a, e, h[m].summary.covers)
      PROVE  /\ Taken(v) = Ids(k, KeepFirst + 1, Len(k) - FromTail(KeepFirst))
             /\ Len(k) >= Len(v) - 1
             /\ Previous(v).summary.covers = h[m].summary.covers
    <2>1. /\ Len(v) = Len(k) + 1 /\ e.kind = "summary"
          /\ e.summary.covers = h[m].summary.covers
          /\ \A i \in 1..Len(k) + 1 : v[i] = IF i < a THEN k[i]
                                             ELSE IF i = a THEN e ELSE k[i - 1]
        BY <1>2 DEF WithSummary, Inserted
    <2>2. KeepFirst <= Len(k) /\ a = KeepFirst + 1
        BY <1>0, <1>2, <2>1 DEF WithSummary
    <2>3. v[KeepFirst + 1] = e
        BY <1>0, <2>1, <2>2
    <2>4. ASSUME NEW i \in KeepFirst + 2..Len(k) + 1
          PROVE  v[i] = k[i - 1] /\ i - 1 \in 1..Len(k)
        BY <1>0, <2>1, <2>2
    <2>5. ASSUME NEW x \in Taken(v)
          PROVE  x \in Ids(k, KeepFirst + 1, Len(k) - FromTail(KeepFirst))
        <3>1. PICK i \in KeepFirst + 1..Len(v) - FromTail(KeepFirst) :
                v[i].kind # "summary" /\ x = v[i].id
            BY DEF Taken
        <3>2. i # KeepFirst + 1
            BY <2>1, <2>3, <3>1
        <3>3. /\ i \in KeepFirst + 2..Len(k) + 1
              /\ i - 1 \in KeepFirst + 1..Len(k) - FromTail(KeepFirst)
            BY <1>0, <2>1, <3>2
        <3>4. x = k[i - 1].id
            BY <2>4, <3>1, <3>3
        <3> QED
            BY <3>3, <3>4 DEF Ids
    <2>6. ASSUME NEW x \in Ids(k, KeepFirst + 1, Len(k) - FromTail(KeepFirst))
          PROVE  x \in Taken(v)
        <3>1. PICK n \in KeepFirst + 1..Len(k) - FromTail(KeepFirst) : x = k[n].id
            BY DEF Ids
        <3>2. PICK i : i = n + 1
            OBVIOUS
        <3>3. /\ i \in KeepFirst + 2..Len(k) + 1 /\ i - 1 = n
              /\ i \in KeepFirst + 1..Len(v) - FromTail(KeepFirst)
            BY <1>0, <2>1, <3>2
        <3>4. v[i] = k[n] /\ n \in 1..Len(k)
            BY <2>4, <3>3
        <3>5. v[i].kind # "summary" /\ x = v[i].id
            BY <1>0, <3>1, <3>4
        <3> QED
            BY <3>3, <3>5 DEF Taken
    <2>7. Taken(v) = Ids(k, KeepFirst + 1, Len(k) - FromTail(KeepFirst))
        BY <2>5, <2>6
    <2>8. Previous(v).summary.covers = h[m].summary.covers
        BY <2>1, <2>3 DEF Previous
    <2> QED
        BY <1>0, <2>1, <2>7, <2>8
<1> QED
    BY <1>1, <1>2, ViewEntries

-----------------------------------------------------------------------------
(* The ids of a log.                                                       *)

\* What of the log can be told, its condensations with a summary and those without
\* one, and what they have forgotten and cover.
Reading(T, S, W, F, covers) ==
    /\ T = {i \in 1..heard : log[i].kind \notin {"null", "condensation", "request"}}
    /\ S = {i \in 1..heard : log[i].kind = "condensation" /\ log[i].summary.offset >= 0}
    /\ W = {i \in 1..heard : log[i].kind = "condensation" /\ ~(log[i].summary.offset >= 0)}
    /\ \A i \in 1..heard : F[i] = log[i].forget /\ covers[i] = log[i].summary.covers

LEMMA ReadingFacts ==
    ASSUME LogInv, HistoryInv, NEW T, NEW S, NEW W, NEW F, NEW covers,
           Reading(T, S, W, F, covers)
    PROVE  /\ heard \in Nat /\ heard <= Len(log) /\ Len(log) \in Nat
           /\ T \in SUBSET (1..heard) /\ S \in SUBSET (1..heard) /\ W \in SUBSET (1..heard)
           /\ T \in SUBSET Nat /\ S \in SUBSET Nat /\ W \in SUBSET Nat
           /\ \A i \in 1..heard : i \in S \cup W <=> log[i].kind = "condensation"
           /\ IsFiniteSet(T)
<1>1. heard \in Nat /\ heard <= Len(log) /\ Len(log) \in Nat
    BY LogFacts DEF HistoryInv
<1>2. /\ T \in SUBSET (1..heard) /\ S \in SUBSET (1..heard) /\ W \in SUBSET (1..heard)
      /\ \A i \in 1..heard : i \in S \cup W <=> log[i].kind = "condensation"
    BY DEF Reading
<1>3. IsFiniteSet(T)
    <2>1. IsFiniteSet(1..heard)
        <3>1. 1 \in Int /\ heard \in Int
            BY <1>1
        <3> QED
            BY <3>1, FS_Interval
    <2> QED
        BY <1>2, <2>1, FS_Subset
<1> QED
    BY <1>1, <1>2, <1>3

\* Which positions of a history are forgotten, and by what.
LEMMA ForgottenBy ==
    ASSUME NEW h \in Seq(Entries), NEW x
    PROVE  x \in Forgotten(h) <=>
              \E j \in 1..Len(h) :
                 \/ h[j].kind = "condensation" /\ (x \in h[j].forget \/ x = h[j].id)
                 \/ h[j].kind = "request" /\ x = h[j].id
<1>1. DOMAIN h = 1..Len(h)
    OBVIOUS
<1>2. x \in UNION {h[j].forget \cup {h[j].id} : j \in Condensations(h)}
        <=> \E j \in 1..Len(h) :
               h[j].kind = "condensation" /\ (x \in h[j].forget \/ x = h[j].id)
    <2>1. x \in UNION {h[j].forget \cup {h[j].id} : j \in Condensations(h)}
            <=> \E j \in Condensations(h) : x \in h[j].forget \cup {h[j].id}
        BY Zenon
    <2> QED
        BY <1>1, <2>1 DEF Condensations
<1>3. x \in {h[j].id : j \in {i \in DOMAIN h : h[i].kind = "request"}}
        <=> \E j \in 1..Len(h) : h[j].kind = "request" /\ x = h[j].id
    BY <1>1
<1> QED
    BY <1>2, <1>3 DEF Forgotten

\* What a history of the first q events keeps is what the condensations until q
\* have left.
LEMMA KeptIds ==
    ASSUME LogInv, HistoryInv, NEW T, NEW S, NEW W, NEW F, NEW covers,
           Reading(T, S, W, F, covers), NEW q \in 0..heard, NEW h, Whole(h, q),
           NEW k, k = Kept(h), NEW K, K = Left(T, S \cup W, F, q)
    PROVE  /\ Lists(k, K)
           /\ \A i \in 1..Len(k) : k[i].id <= q
<1>0. /\ heard \in Nat /\ heard <= Len(log) /\ Len(log) \in Nat /\ q \in Nat /\ q <= heard
      /\ T \in SUBSET (1..heard) /\ S \in SUBSET (1..heard) /\ W \in SUBSET (1..heard)
      /\ \A i \in 1..heard : i \in S \cup W <=> log[i].kind = "condensation"
    BY ReadingFacts
<1>1. /\ h \in Seq(Entries) /\ Len(h) \in Nat
      /\ \A n \in 1..Len(h) : /\ h[n].id \in 1..Len(log) /\ h[n] = log[h[n].id]
                              /\ h[n].id <= q /\ Included(h[n])
      /\ \A i, j \in 1..Len(h) : i < j => h[i].id < h[j].id
    BY DEF Whole, PartOfLog
<1>2. k \in Seq(Entries)
    BY <1>1, KeptOrigins
<1>3. PICK at : Origins(h, at)
    BY <1>1, KeptOrigins
<1>4. /\ \A i \in 1..Len(k) : /\ at[i] \in 1..Len(h) /\ k[i] = h[at[i]]
                              /\ h[at[i]].id \notin Forgotten(h)
      /\ \A i, j \in 1..Len(k) : i < j => at[i] < at[j]
      /\ \A n \in 1..Len(h) : h[n].id \notin Forgotten(h)
            => \E i \in 1..Len(k) : at[i] = n
    BY <1>3 DEF Origins
<1>5. Ordered(k)
    <2>1. ASSUME NEW i \in 1..Len(k), NEW j \in 1..Len(k), i < j PROVE k[i].id < k[j].id
        <3>1. at[i] < at[j] /\ at[i] \in 1..Len(h) /\ at[j] \in 1..Len(h)
            BY <1>4, <2>1
        <3>2. h[at[i]].id < h[at[j]].id
            BY <1>1, <3>1
        <3> QED
            BY <1>4, <3>2
    <2> QED
        BY <1>2, <2>1 DEF Ordered
<1>6. ASSUME NEW x \in Ids(k, 1, Len(k)) PROVE x \in Left(T, S \cup W, F, q)
    <2>1. PICK i \in 1..Len(k) : x = k[i].id
        BY DEF Ids
    <2>2. PICK n \in 1..Len(h) : k[i] = h[n] /\ h[n].id \notin Forgotten(h)
        BY <1>4
    <2>3. x = h[n].id /\ x \in 1..heard /\ x <= q /\ log[x] = h[n] /\ Included(h[n])
        BY <1>0, <1>1, <2>1, <2>2
    <2>4. h[n].kind \notin {"condensation", "request"}
        BY <1>1, <2>2, ForgottenBy
    <2>5. x \in T
        BY <2>3, <2>4 DEF Reading, Included
    <2>6. ASSUME NEW c \in S \cup W, c <= q, x \in F[c] PROVE FALSE
        <3>1. c \in 1..heard /\ log[c].kind = "condensation" /\ x \in log[c].forget
            BY <1>0, <2>6 DEF Reading
        <3>2. PICK j \in 1..Len(h) : h[j].id = c
            BY <1>0, <2>6, <3>1 DEF Whole, Included
        <3>3. h[j].kind = "condensation" /\ x \in h[j].forget
            BY <1>1, <3>1, <3>2
        <3> QED
            BY <1>1, <2>2, <2>3, <3>3, ForgottenBy
    <2> QED
        BY <2>3, <2>5, <2>6 DEF Left
<1>7. ASSUME NEW x \in Left(T, S \cup W, F, q) PROVE x \in Ids(k, 1, Len(k))
    <2>1. /\ x \in T /\ x <= q /\ x \in 1..heard
          /\ log[x].kind \notin {"null", "condensation", "request"}
        BY <1>0 DEF Left, Reading
    <2>2. PICK n \in 1..Len(h) : h[n].id = x
        BY <1>0, <2>1 DEF Whole, Included
    <2>3. h[n] = log[x]
        BY <1>1, <2>2
    <2>4. ASSUME x \in Forgotten(h) PROVE FALSE
        <3>1. PICK j \in 1..Len(h) :
                \/ h[j].kind = "condensation" /\ (x \in h[j].forget \/ x = h[j].id)
                \/ h[j].kind = "request" /\ x = h[j].id
            BY <1>1, <2>4, ForgottenBy
        <3>2. x # h[j].id
            BY <1>1, <2>1, <3>1
        <3>3. PICK c : c = h[j].id
            OBVIOUS
        <3>4. c \in 1..heard /\ c <= q /\ log[c].kind = "condensation" /\ x \in log[c].forget
            BY <1>0, <1>1, <3>1, <3>2, <3>3
        <3>5. c \in S \cup W /\ x \in F[c]
            BY <1>0, <3>4 DEF Reading
        <3> QED
            BY <3>4, <3>5 DEF Left
    <2>5. PICK i \in 1..Len(k) : at[i] = n
        BY <1>4, <2>2, <2>4
    <2>6. k[i].id = x
        BY <1>4, <2>2, <2>5
    <2> QED
        BY <2>6 DEF Ids
<1>8. \A i \in 1..Len(k) : k[i].id <= q
    BY <1>1, <1>4
<1> QED
    BY <1>5, <1>6, <1>7, <1>8 DEF Lists

\* A condensation of the log, and the view that it was decided on.
LEMMA MadeOfView ==
    ASSUME Keeps, IInv, NEW i, NEW q, Made(i, q)
    PROVE  \E h, v : /\ Whole(h, q) /\ Len(h) >= 2 /\ GoodHistory(h, pipeline)
                     /\ v = ViewOf(h) /\ GoodView(v, pipeline)
                     /\ \E c : /\ log[i].forget = c.forget /\ log[i].summary = c.summary
                               /\ c # Raised
                               /\ \/ BySummary(pipeline, v, c)
                                  \/ ByWindow(pipeline, v, c)
                                  \/ ByAmortizing(pipeline, c)
<1>0. LogInv /\ pipeline \in Pipelines
    BY DEF IInv, WaitingInv
<1>1. PICK h, u, c :
        /\ Whole(h, q) /\ Len(h) >= 2 /\ u \in BOOLEAN
        /\ c = Condensed(pipeline, ViewOf(h), u) /\ c # <<>> /\ c[1] # Raised
        /\ log[i].forget = c[1].forget /\ log[i].summary = c[1].summary
    BY Zenon DEF Made
<1>2. GoodHistory(h, pipeline)
    BY <1>0, <1>1, GoodPart DEF Whole
<1>3. PICK v : v = ViewOf(h)
    OBVIOUS
<1>4. GoodView(v, pipeline)
    BY <1>1, <1>2, <1>3, ViewFacts
<1>5. BySummary(pipeline, v, c[1]) \/ ByWindow(pipeline, v, c[1]) \/ ByAmortizing(pipeline, c[1])
    BY <1>0, <1>1, <1>3, <1>4, CondensedShape
<1>6. PICK d : d = c[1]
    OBVIOUS
<1> QED
    BY <1>1, <1>2, <1>3, <1>4, <1>5, <1>6, Zenon

LEMMA DateFacts ==
    ASSUME Keeps, IInv, NEW at, Dates(at), NEW i \in 1..heard, log[i].kind = "condensation"
    PROVE  \E q \in 0..heard : at[i] = q /\ Made(i, q)
<1>1. i \in 1..Len(log) /\ at[i] \in 0..heard
    <2>1. heard \in 0..Len(log)
        BY DEF IInv, HistoryInv
    <2>2. i \in 1..Len(log)
        BY <2>1, LogFacts DEF IInv
    <2> QED
        BY <2>2 DEF Dates
<1>2. PICK q \in 0..heard : at[i] = q
    BY <1>1
<1> QED
    BY <1>1, <1>2 DEF Dates

\* A condensation with a summary is one of the summarizing condenser.
LEMMA MadeBySummary ==
    ASSUME Keeps, IInv, NEW i, NEW q, Made(i, q), log[i].summary.offset >= 0
    PROVE  \E h, v : /\ Whole(h, q) /\ Len(h) >= 2 /\ GoodHistory(h, pipeline)
                     /\ v = ViewOf(h) /\ GoodView(v, pipeline)
                     /\ \E c : /\ log[i].forget = c.forget /\ log[i].summary = c.summary
                               /\ c # Raised /\ BySummary(pipeline, v, c)
<1>1. NoSummary.offset = -1
    BY DEF NoSummary
<1>2. ~(NoSummary.offset >= 0)
    BY <1>1
<1> QED
    BY <1>2, MadeOfView DEF ByWindow, ByAmortizing

\* The pipeline of a log with a summary has no amortized condenser, so that the
\* condensations without one are those of the window condenser.
LEMMA MadeByWindow ==
    ASSUME Keeps, IInv, NEW i, NEW q, Made(i, q), ~(log[i].summary.offset >= 0),
           ~("amortized" \in Range(pipeline))
    PROVE  \E h, v : /\ Whole(h, q) /\ Len(h) >= 2 /\ GoodHistory(h, pipeline)
                     /\ v = ViewOf(h) /\ GoodView(v, pipeline)
                     /\ log[i].forget = Window(v).forget /\ log[i].summary = NoSummary
                     /\ pipeline[1] = "window"
BY MadeOfView DEF BySummary, ByWindow, ByAmortizing

\* Any condensation without a summary has none at all.
LEMMA WithoutSummary ==
    ASSUME Keeps, IInv, NEW i, NEW q, Made(i, q)
    PROVE  log[i].summary # NoSummary <=> log[i].summary.offset >= 0
<1>1. NoSummary.offset = -1
    BY DEF NoSummary
<1>2. ~(NoSummary.offset >= 0)
    BY <1>1
<1> QED
    BY <1>2, MadeOfView DEF BySummary, ByWindow, ByAmortizing

LEMMA SummaryFields ==
    ASSUME Keeps, NEW p, NEW v, GoodView(v, p), Summarize(v) # Raised
    PROVE  /\ Len(v) > KeepFirst /\ Taken(v) # {}
           /\ Summarize(v).forget = MinOf(Taken(v))..MaxOf(Taken(v))
           /\ Summarize(v).summary.covers = Taken(v) \cup Previous(v).summary.covers
<1>0. v \in Seq(Entries) /\ Len(v) \in Nat /\ KeepFirst \in Nat
    BY FirstOfGoodView, SizesAssumption DEF SizesAssumption
<1>1. /\ ~(FromTail(KeepFirst) = 0 \/ Len(v) <= KeepFirst \/ Taken(v) = {})
      /\ Summarize(v) = Condensation(MinOf(Taken(v))..MaxOf(Taken(v)),
                               [offset |-> KeepFirst,
                                covers |-> Taken(v) \cup Previous(v).summary.covers])
    BY <1>0, SummarizeShape, Zenon
<1>2. PICK t : t = Taken(v) \cup Previous(v).summary.covers
    OBVIOUS
<1>3. PICK s : s = [offset |-> KeepFirst, covers |-> t]
    OBVIOUS
<1>4. PICK f : f = MinOf(Taken(v))..MaxOf(Taken(v))
    OBVIOUS
<1>5. Summarize(v) = Condensation(f, s)
    BY <1>1, <1>2, <1>3, <1>4, Zenon
<1>6. Summarize(v).forget = f /\ Summarize(v).summary = s
    BY <1>5, CondensationFields
<1>7. s.covers = t
    BY <1>3
<1>8. Len(v) > KeepFirst /\ Taken(v) # {}
    BY <1>0, <1>1
<1>9. Summarize(v).forget = MinOf(Taken(v))..MaxOf(Taken(v))
    BY <1>4, <1>6
<1>10. Summarize(v).summary.covers = Taken(v) \cup Previous(v).summary.covers
    BY <1>2, <1>6, <1>7
<1> QED
    BY <1>8, <1>9, <1>10

\* The last summary of a history is the last one of the log until then.
LEMMA LastOfWhole ==
    ASSUME LogInv, HistoryInv, NEW T, NEW S, NEW W, NEW F, NEW covers,
           Reading(T, S, W, F, covers), NEW q \in 0..heard, NEW h, Whole(h, q),
           NEW m \in Summaries(h), \A n \in Summaries(h) : m >= n,
           NEW j \in S, j <= q, \A k \in S : k <= q => k <= j
    PROVE  covers[j] = h[m].summary.covers
<1>0. /\ heard \in Nat /\ q \in Nat /\ q <= heard /\ S \in SUBSET (1..heard)
    BY ReadingFacts
<1>1. /\ h \in Seq(Entries) /\ Len(h) \in Nat /\ DOMAIN h = 1..Len(h)
      /\ \A n \in 1..Len(h) : /\ h[n].id \in 1..Len(log) /\ h[n] = log[h[n].id]
                              /\ h[n].id <= q /\ Included(h[n])
      /\ \A a, b \in 1..Len(h) : a < b => h[a].id < h[b].id
    BY DEF Whole, PartOfLog
<1>2. j \in 1..heard /\ log[j].kind = "condensation" /\ log[j].summary.offset >= 0
    BY DEF Reading
<1>3. PICK n \in 1..Len(h) : h[n].id = j
    BY <1>0, <1>2 DEF Whole, Included
<1>4. h[n] = log[j] /\ n \in Summaries(h)
    BY <1>1, <1>2, <1>3 DEF Summaries, Condensations
<1>5. m \in 1..Len(h) /\ h[m].kind = "condensation" /\ h[m].summary.offset >= 0
    BY <1>1 DEF Summaries, Condensations
<1>6. PICK l : l = h[m].id
    OBVIOUS
<1>7. l \in 1..heard /\ l <= q /\ h[m] = log[l] /\ l \in S
    <2>1. l \in 1..heard /\ l <= q /\ h[m] = log[l]
        BY <1>0, <1>1, <1>5, <1>6
    <2> QED
        BY <1>5, <2>1 DEF Reading
<1>8. l <= j
    BY <1>7
<1>9. n = m
    <2>1. n <= m /\ n \in Nat /\ m \in Nat
        BY <1>4, <1>5
    <2>2. n < m => h[n].id < h[m].id
        BY <1>1, <1>5
    <2>3. ~(n < m)
        BY <1>0, <1>3, <1>6, <1>7, <1>8, <1>2, <2>2
    <2> QED
        BY <2>1, <2>3
<1>10. h[m] = log[j]
    BY <1>4, <1>9
<1> QED
    BY <1>2, <1>10 DEF Reading

\* The ids that a summarizing condenser takes lie between the first and the last.
LEMMA TakenBounds ==
    ASSUME Keeps, NEW p, NEW v, GoodView(v, p), Taken(v) # {}
    PROVE  /\ MinOf(Taken(v)) \in Taken(v) /\ MaxOf(Taken(v)) \in Taken(v)
           /\ \A x \in Taken(v) : MinOf(Taken(v)) <= x /\ x <= MaxOf(Taken(v))
<1>1. v \in Seq(Entries)
    BY FirstOfGoodView
<1>2. PICK gone : gone = Taken(v)
    OBVIOUS
<1>3. /\ gone # {} /\ gone \in SUBSET Nat
      /\ \A n \in gone : n > 2 /\ \E i \in 1..Len(v) : n = v[i].id
    BY <1>2, TakenFacts
<1>4. /\ MinOf(gone) \in gone /\ MaxOf(gone) \in gone
      /\ \A n \in gone : n \in MinOf(gone)..MaxOf(gone)
    BY <1>1, <1>3, RangeFacts
<1>5. \A x \in gone : MinOf(gone) <= x /\ x <= MaxOf(gone)
    BY <1>3, <1>4
<1> QED
    BY <1>2, <1>4, <1>5

LEMMA SummarizedHolds ==
    ASSUME Keeps, IInv, NEW T, NEW S, NEW W, NEW F, NEW covers,
           Reading(T, S, W, F, covers), NEW at, Dates(at), NEW i \in S
    PROVE  Summarized(T, S, W, F, covers, at, i)
<1>0. LogInv /\ HistoryInv /\ i \in 1..heard /\ log[i].kind = "condensation"
      /\ log[i].summary.offset >= 0
    BY DEF IInv, Reading
<1>1. PICK q \in 0..heard : at[i] = q /\ Made(i, q)
    BY <1>0, DateFacts
<1>2. PICK h, v, c :
        /\ Whole(h, q) /\ Len(h) >= 2 /\ GoodHistory(h, pipeline)
        /\ v = ViewOf(h) /\ GoodView(v, pipeline)
        /\ log[i].forget = c.forget /\ log[i].summary = c.summary
        /\ c # Raised /\ BySummary(pipeline, v, c)
    BY <1>0, <1>1, MadeBySummary
<1>3. /\ c = Summarize(v) /\ ~("amortized" \in Range(pipeline))
      /\ pipeline[1] = "window" => Len(v) > MaxSize
    BY <1>2 DEF BySummary
<1>4. /\ Len(v) > KeepFirst /\ Taken(v) # {}
      /\ c.forget = MinOf(Taken(v))..MaxOf(Taken(v))
      /\ c.summary.covers = Taken(v) \cup Previous(v).summary.covers
    BY <1>2, <1>3, SummaryFields
<1>5. PICK k : k = Kept(h)
    OBVIOUS
<1>6. PICK K : K = Left(T, S \cup W, F, q)
    OBVIOUS
<1>7. Ordered(k) /\ K = Ids(k, 1, Len(k))
    <2>1. Whole(h, q) /\ LogInv /\ HistoryInv
        BY <1>0, <1>2
    <2>2. Lists(k, K)
        BY <1>5, <1>6, <2>1, KeptIds
    <2> QED
        BY <2>2 DEF Lists
<1>8. Middle(K) = Ids(k, KeepFirst + 1, Len(k) - FromTail(KeepFirst))
    BY <1>7, MiddleIds
<1>9. /\ Taken(v) = Ids(k, KeepFirst + 1, Len(k) - FromTail(KeepFirst))
      /\ Len(k) >= Len(v) - 1
      /\ Summaries(h) # {} =>
            \E m \in Summaries(h) :
               /\ \A n \in Summaries(h) : m >= n
               /\ Previous(v).summary.covers = h[m].summary.covers
    BY <1>2, <1>4, <1>5, TakenFromKept
<1>10. Middle(K) = Taken(v)
    BY <1>8, <1>9
<1>11. F[i] = log[i].forget /\ covers[i] = log[i].summary.covers
    BY <1>0 DEF Reading
<1>12. \E a, b \in Middle(K) : F[i] = a..b /\ \A x \in Middle(K) : a <= x /\ x <= b
    BY <1>2, <1>4, <1>10, <1>11, TakenBounds
<1>13. Middle(K) \subseteq covers[i]
    BY <1>2, <1>4, <1>10, <1>11
<1>14. ASSUME W # {} PROVE Cardinality(K) >= MaxSize
    <2>1. PICK w \in W : TRUE
        BY <1>14
    <2>2. w \in 1..heard /\ log[w].kind = "condensation" /\ ~(log[w].summary.offset >= 0)
        BY DEF Reading
    <2>3. PICK r \in 0..heard : Made(w, r)
        BY <2>2, DateFacts
    <2>4. pipeline[1] = "window"
        BY <1>3, <2>2, <2>3, MadeByWindow
    <2>5. Len(v) > MaxSize /\ Len(v) \in Nat /\ MaxSize \in Nat
        BY <1>2, <1>3, <2>4, FirstOfGoodView, SizesAssumption DEF SizesAssumption
    <2>6. Cardinality(K) = Len(k) /\ Len(k) \in Nat
        BY <1>7, Ranks DEF Ordered
    <2> QED
        BY <1>9, <2>5, <2>6
<1>15. ASSUME NEW j \in S, j <= q, \A n \in S : n <= q => n <= j
       PROVE  covers[j] \subseteq covers[i]
    <2>1. Summaries(h) # {}
        <3>1. j \in 1..q /\ log[j].kind = "condensation" /\ log[j].summary.offset >= 0
            BY <1>15 DEF Reading
        <3>2. PICK n \in 1..Len(h) : h[n].id = j
            BY <1>2, <3>1 DEF Whole, Included
        <3>3. h[n] = log[j] /\ n \in DOMAIN h
            BY <1>2, <3>2 DEF Whole, PartOfLog
        <3> QED
            BY <3>1, <3>3 DEF Summaries, Condensations
    <2>2. PICK m \in Summaries(h) :
            /\ \A n \in Summaries(h) : m >= n
            /\ Previous(v).summary.covers = h[m].summary.covers
        BY <1>9, <2>1
    <2>3. covers[j] = h[m].summary.covers
        <3>1. Whole(h, q) /\ LogInv /\ HistoryInv
            BY <1>0, <1>2
        <3> QED
            BY <1>15, <2>2, <3>1, LastOfWhole
    <2> QED
        BY <1>2, <1>4, <1>11, <2>2, <2>3
<1> QED
    BY <1>1, <1>6, <1>12, <1>13, <1>14, <1>15 DEF Summarized

-----------------------------------------------------------------------------
(* Window condensations.                                                   *)

LEMMA FirstIn ==
    ASSUME NEW n \in Nat, NEW I \in SUBSET (1..n)
    PROVE  (IF I # {} THEN CHOOSE x \in I : \A y \in I : x <= y ELSE 0) \in 0..n
<1>1. CASE I # {}
    <2>1. PICK x : x = CHOOSE m \in I : \A y \in I : m <= y
        OBVIOUS
    <2>2. I \in SUBSET Nat
        OBVIOUS
    <2>3. x \in I
        BY <1>1, <2>1, <2>2, LeastNumber
    <2>4. x \in 0..n
        BY <2>3
    <2> QED
        BY <1>1, <2>1, <2>4, Zenon
<1>2. CASE I = {}
    BY <1>2
<1> QED
    BY <1>1, <1>2

\* The essential entries of a view are four at most.
LEMMA EssentialFacts ==
    ASSUME NEW v \in Seq(Entries)
    PROVE  \E a, b, c, d \in 0..Len(v) : Essential(v) = {a, b, c, d} \ {0}
<1> DEFINE First(I) == IF I # {} THEN CHOOSE x \in I : \A y \in I : x <= y ELSE 0
           user == First({i \in 1..Len(v) : v[i].kind = "message"})
           system == First({i \in 1..Len(v) : v[i].kind = "system"})
           recall == First({i \in 1..Len(v) : /\ v[i].kind = "recall"
                                              /\ v[i].id > v[user].id
                                              /\ v[i].what = v[user].what})
           answer == First({i \in 1..Len(v) : /\ v[i].kind \in Observations
                                              /\ v[i].of = v[recall].id})
<1>1. Essential(v) = {system, user, recall, IF recall = 0 THEN 0 ELSE answer} \ {0}
    BY DEF Essential, FirstUser, SelectInSeq, Min
<1>2. ASSUME NEW I \in SUBSET (1..Len(v)) PROVE First(I) \in 0..Len(v)
    <2>1. Len(v) \in Nat
        OBVIOUS
    <2> QED
        BY <2>1, FirstIn, Zenon
<1> HIDE DEF First
<1>3. user \in 0..Len(v) /\ system \in 0..Len(v)
    BY <1>2
<1> HIDE DEF user, system
<1>4. recall \in 0..Len(v)
    BY <1>2
<1> HIDE DEF recall
<1>5. answer \in 0..Len(v)
    BY <1>2
<1> HIDE DEF answer
<1>6. (IF recall = 0 THEN 0 ELSE answer) \in 0..Len(v)
    BY <1>4, <1>5
<1> QED
    BY <1>1, <1>3, <1>4, <1>6

LEMMA FourAtMost ==
    ASSUME NEW a, NEW b, NEW c, NEW d
    PROVE  /\ IsFiniteSet({a, b, c, d}) /\ Cardinality({a, b, c, d}) \in Nat
           /\ Cardinality({a, b, c, d}) <= 4
<1>1. IsFiniteSet({a}) /\ Cardinality({a}) = 1
    BY FS_Singleton
<1>2. IsFiniteSet({a} \cup {b}) /\ Cardinality({a} \cup {b}) \in 1..2
    BY <1>1, FS_AddElement
<1>3. IsFiniteSet(({a} \cup {b}) \cup {c}) /\ Cardinality(({a} \cup {b}) \cup {c}) \in 1..3
    <2>1. PICK A : A = {a} \cup {b}
        OBVIOUS
    <2>2. IsFiniteSet(A \cup {c}) /\ Cardinality(A \cup {c}) \in 1..3
        BY <1>2, <2>1, FS_AddElement
    <2> QED
        BY <2>1, <2>2
<1>4. PICK B : B = ({a} \cup {b}) \cup {c}
    OBVIOUS
<1>5. IsFiniteSet(B \cup {d}) /\ Cardinality(B \cup {d}) \in 1..4
    BY <1>3, <1>4, FS_AddElement
<1>6. B \cup {d} = {a, b, c, d}
    BY <1>4
<1> QED
    BY <1>5, <1>6

\* What a window condensation leaves: the essential entries, and a suffix that does
\* not begin with an observation.
WindowParts(v, A, first) ==
    /\ A \in SUBSET (1..Len(v)) /\ first \in 1..Len(v) + 1
    /\ \E a, b, c, d \in 0..Len(v) : A \subseteq {a, b, c, d}
    /\ first <= Len(v) => v[first].kind \notin Observations
    /\ Window(v).forget
          = {v[i].id : i \in 1..Len(v)} \ {v[i].id : i \in A \cup first..Len(v)}

LEMMA WindowShape ==
    ASSUME NEW p, NEW v, GoodView(v, p)
    PROVE  \E A, first : WindowParts(v, A, first)
<1>0. v \in Seq(Entries) /\ Len(v) \in Nat /\ Len(v) >= 2 /\ DOMAIN v = 1..Len(v)
    BY FirstOfGoodView
<1>1. PICK A : A = Essential(v)
    OBVIOUS
<1>2. PICK a, b, c, d \in 0..Len(v) : A = {a, b, c, d} \ {0}
    BY <1>0, <1>1, EssentialFacts
<1>3. A \in SUBSET (1..Len(v)) /\ A \subseteq {a, b, c, d}
    BY <1>0, <1>2
<1>4. PICK n : n = Cardinality(A)
    OBVIOUS
<1>5. n \in Nat
    <2>1. IsFiniteSet({a, b, c, d})
        BY FourAtMost
    <2> QED
        BY <1>3, <1>4, <2>1, PartCounts
<1>6. PICK others : others = Len(v) - n
    OBVIOUS
<1>7. PICK start : start = Len(v) - MaxOf({1, others \div 2}) + 1
    OBVIOUS
<1>8. start \in 1..Len(v)
    <2>1. PICK half : half = others \div 2
        OBVIOUS
    <2>2. half \in Int /\ half <= Len(v)
        BY <1>0, <1>5, <1>6, <2>1
    <2>3. MaxOf({1, half}) = IF 1 >= half THEN 1 ELSE half
        BY <2>2, MaxOfPair
    <2>4. MaxOf({1, half}) \in 1..Len(v)
        BY <1>0, <2>2, <2>3
    <2> QED
        BY <1>0, <1>7, <2>1, <2>4
<1>9. PICK valid : valid = {i \in start..Len(v) : v[i].kind \notin Observations}
    OBVIOUS
<1>10. PICK first : first = IF valid = {} THEN Len(v) + 1 ELSE MinOf(valid)
    OBVIOUS
<1>11. first \in 1..Len(v) + 1 /\ (first <= Len(v) => v[first].kind \notin Observations)
    <2>1. CASE valid = {}
        BY <1>0, <1>10, <2>1
    <2>2. CASE valid # {}
        <3>1. valid \in SUBSET (1..Len(v)) /\ valid \in SUBSET Nat
            BY <1>0, <1>8, <1>9
        <3>2. first \in valid
            BY <1>10, <2>2, <3>1, MinOfFact
        <3> QED
            BY <1>0, <1>9, <3>1, <3>2
    <2> QED
        BY <2>1, <2>2
<1>12. PICK G : G = IF v = <<>> \/ FirstUser(v) = 0 THEN {}
                    ELSE {v[i].id : i \in DOMAIN v}
                            \ {v[i].id : i \in A \cup first..Len(v)}
    OBVIOUS
<1>13. Window(v) = Condensation(G, NoSummary)
    BY <1>1, <1>4, <1>6, <1>7, <1>9, <1>10, <1>12, Zenon DEF Window
<1>14. Window(v).forget = G
    BY <1>13, CondensationFields
<1>15. G = {v[i].id : i \in 1..Len(v)} \ {v[i].id : i \in A \cup first..Len(v)}
    <2>1. v # <<>> /\ FirstUser(v) # 0
        BY <1>0, FirstUserIsSecond
    <2> QED
        BY <1>0, <1>12, <2>1
<1>16. WindowParts(v, A, first)
    BY <1>3, <1>11, <1>14, <1>15 DEF WindowParts
<1> QED
    BY <1>16

\* A view has what is kept, in that order, and a summary.
InOrder(v, k) ==
    /\ \A i \in 1..Len(v) : v[i].kind # "summary" => \E n \in 1..Len(k) : v[i] = k[n]
    /\ \A n \in 1..Len(k) : \E i \in 1..Len(v) : v[i] = k[n]
    /\ \A i, j \in 1..Len(v) :
          i < j /\ v[i].kind # "summary" /\ v[j].kind # "summary" => v[i].id < v[j].id

LEMMA ViewOrder ==
    ASSUME Keeps, NEW p, NEW h, GoodHistory(h, p), Len(h) >= 2, NEW v, v = ViewOf(h),
           NEW k, k = Kept(h)
    PROVE  InOrder(v, k)
<1>0. /\ k \in Seq(Entries) /\ Len(k) \in Nat
      /\ \A i, j \in 1..Len(k) : i < j => k[i].id < k[j].id
    BY KeptFacts
<1>1. CASE v = k
    BY <1>0, <1>1 DEF InOrder
<1>2. ASSUME NEW a, NEW e, NEW c, WithSummary(v, k, a, e, c)
      PROVE  InOrder(v, k)
    <2>1. /\ Len(v) = Len(k) + 1 /\ e.kind = "summary" /\ a \in 1..Len(k) + 1
          /\ \A i \in 1..Len(k) + 1 : v[i] = IF i < a THEN k[i]
                                             ELSE IF i = a THEN e ELSE k[i - 1]
        BY <1>2 DEF WithSummary, Inserted
    <2>2. ASSUME NEW i \in 1..Len(v), v[i].kind # "summary"
          PROVE  \E n \in 1..Len(k) : v[i] = k[n] /\ ((i < a /\ n = i) \/ (i > a /\ n = i - 1))
        <3>1. i # a
            BY <2>1, <2>2
        <3>2. CASE i < a
            <4>1. i \in 1..Len(k) /\ i \in 1..Len(k) + 1
                BY <1>0, <2>1, <3>2
            <4>2. v[i] = k[i]
                BY <2>1, <3>2, <4>1
            <4> QED
                BY <3>2, <4>1, <4>2
        <3>3. CASE i > a
            <4>1. PICK n : n = i - 1
                OBVIOUS
            <4>2. n \in 1..Len(k) /\ v[i] = k[n]
                BY <1>0, <2>1, <3>3, <4>1
            <4> QED
                BY <3>3, <4>1, <4>2
        <3> QED
            BY <2>1, <3>1, <3>2, <3>3
    <2>3. ASSUME NEW n \in 1..Len(k) PROVE \E i \in 1..Len(v) : v[i] = k[n]
        <3>1. CASE n < a
            <4>1. n \in 1..Len(v) /\ v[n] = k[n]
                BY <1>0, <2>1, <3>1
            <4> QED
                BY <4>1
        <3>2. CASE ~(n < a)
            <4>1. PICK i : i = n + 1
                OBVIOUS
            <4>2. i \in 1..Len(v) /\ ~(i < a) /\ i # a /\ i - 1 = n
                BY <1>0, <2>1, <3>2, <4>1
            <4> QED
                BY <2>1, <4>2
        <3> QED
            BY <3>1, <3>2
    <2>4. ASSUME NEW i \in 1..Len(v), NEW j \in 1..Len(v), i < j,
                 v[i].kind # "summary", v[j].kind # "summary"
          PROVE  v[i].id < v[j].id
        <3>1. PICK m \in 1..Len(k) : v[i] = k[m] /\ ((i < a /\ m = i) \/ (i > a /\ m = i - 1))
            BY <2>2, <2>4
        <3>2. PICK n \in 1..Len(k) : v[j] = k[n] /\ ((j < a /\ n = j) \/ (j > a /\ n = j - 1))
            BY <2>2, <2>4
        <3>3. m < n
            BY <2>1, <2>4, <3>1, <3>2
        <3> QED
            BY <1>0, <3>1, <3>2, <3>3
    <2> QED
        BY <2>2, <2>3, <2>4 DEF InOrder
<1> QED
    BY <1>1, <1>2, ViewEntries

LEMMA WindowedHolds ==
    ASSUME Keeps, IInv, NEW T, NEW S, NEW W, NEW F, NEW covers,
           Reading(T, S, W, F, covers), NEW at, Dates(at), S # {}, NEW i \in W
    PROVE  Windowed(T, S, W, F, at, i)
<1>0. /\ LogInv /\ HistoryInv /\ i \in 1..heard /\ log[i].kind = "condensation"
      /\ ~(log[i].summary.offset >= 0) /\ T \in SUBSET (1..heard)
    BY DEF IInv, Reading
<1>1. PICK q \in 0..heard : at[i] = q /\ Made(i, q)
    BY <1>0, DateFacts
<1>2. ~("amortized" \in Range(pipeline))
    <2>1. PICK s \in S : TRUE
        OBVIOUS
    <2>2. s \in 1..heard /\ log[s].kind = "condensation" /\ log[s].summary.offset >= 0
        BY DEF Reading
    <2>3. PICK r \in 0..heard : Made(s, r)
        BY <2>2, DateFacts
    <2> QED
        BY <2>2, <2>3, MadeBySummary DEF BySummary
<1>3. PICK h, v :
        /\ Whole(h, q) /\ Len(h) >= 2 /\ GoodHistory(h, pipeline)
        /\ v = ViewOf(h) /\ GoodView(v, pipeline)
        /\ log[i].forget = Window(v).forget
    BY <1>0, <1>1, <1>2, MadeByWindow
<1>4. PICK k : k = Kept(h)
    OBVIOUS
<1>5. PICK K : K = Left(T, S \cup W, F, q)
    OBVIOUS
<1>6. /\ K = Ids(k, 1, Len(k))
      /\ \A n \in 1..Len(k) : k[n].id <= q
    <2>1. Whole(h, q)
        BY <1>3
    <2>2. Lists(k, K) /\ \A n \in 1..Len(k) : k[n].id <= q
        BY <1>0, <1>4, <1>5, <2>1, KeptIds
    <2> QED
        BY <2>2 DEF Lists
<1>7. /\ \A j \in 1..Len(v) : v[j].kind # "summary" => \E n \in 1..Len(k) : v[j] = k[n]
      /\ \A n \in 1..Len(k) : \E j \in 1..Len(v) : v[j] = k[n]
      /\ \A j, l \in 1..Len(v) :
            j < l /\ v[j].kind # "summary" /\ v[l].kind # "summary" => v[j].id < v[l].id
    <2>1. InOrder(v, k)
        BY <1>3, <1>4, ViewOrder
    <2> QED
        BY <2>1 DEF InOrder
<1>8. /\ v \in Seq(Entries) /\ Len(v) \in Nat
      /\ \A j \in 1..Len(v) : v[j].id \in Nat /\ (v[j].kind = "summary" <=> v[j].id = 0)
      /\ \A j, l \in 1..Len(v) : j < l => v[j].id # v[l].id
    BY <1>3, FirstOfGoodView DEF GoodView
<1>9. PICK A, first : WindowParts(v, A, first)
    BY <1>3, WindowShape
<1>10. /\ A \in SUBSET (1..Len(v)) /\ first \in 1..Len(v) + 1
       /\ first <= Len(v) => v[first].kind # "summary"
       /\ F[i] = {v[j].id : j \in 1..Len(v)} \ {v[j].id : j \in A \cup first..Len(v)}
    <2>1. F[i] = log[i].forget
        BY <1>0 DEF Reading
    <2>2. "summary" \in Observations
        BY DEF Observations
    <2> QED
        BY <1>3, <1>9, <2>1, <2>2 DEF WindowParts
<1>11. PICK f : f = IF first <= Len(v) THEN v[first].id ELSE q + 1
    OBVIOUS
<1>12. f \in Nat /\ q \in Nat
    <2>1. q \in Nat
        BY <1>0
    <2>2. first <= Len(v) => first \in 1..Len(v)
        BY <1>8, <1>10
    <2> QED
        BY <1>8, <1>11, <2>1, <2>2
<1>13. PICK E : E = {v[j].id : j \in A}
    OBVIOUS
<1>14. E \in SUBSET Nat /\ IsFiniteSet(E) /\ Cardinality(E) <= 4
    <2>1. PICK a, b, c, d : A \subseteq {a, b, c, d}
        BY <1>9 DEF WindowParts
    <2>2. E \subseteq {v[a].id, v[b].id, v[c].id, v[d].id}
        BY <1>13, <2>1
    <2>3. PICK D : D = {v[a].id, v[b].id, v[c].id, v[d].id}
        OBVIOUS
    <2>4. IsFiniteSet(D) /\ Cardinality(D) \in Nat /\ Cardinality(D) <= 4
        BY <2>3, FourAtMost
    <2>5. IsFiniteSet(E) /\ Cardinality(E) \in Nat /\ Cardinality(E) <= Cardinality(D)
        BY <2>2, <2>3, <2>4, PartCounts
    <2>6. E \in SUBSET Nat
        BY <1>8, <1>10, <1>13
    <2> QED
        BY <2>4, <2>5, <2>6
<1>15. ASSUME NEW x \in F[i] \cap T PROVE x \in K /\ x < f
    <2>1. PICK j \in 1..Len(v) : x = v[j].id
        BY <1>10
    <2>2. j \notin first..Len(v) /\ x # 0
        BY <1>0, <1>10, <2>1
    <2>3. v[j].kind # "summary"
        BY <1>8, <2>1, <2>2
    <2>4. PICK n \in 1..Len(k) : v[j] = k[n]
        BY <1>7, <2>3
    <2>5. x \in K /\ x <= q
        BY <1>6, <2>1, <2>4 DEF Ids
    <2>6. x < f
        <3>1. CASE first <= Len(v)
            <4>1. first \in 1..Len(v) /\ j < first
                BY <1>8, <1>10, <2>2, <3>1
            <4>2. v[j].id < v[first].id
                BY <1>7, <1>10, <2>3, <3>1, <4>1
            <4> QED
                BY <1>11, <2>1, <3>1, <4>2
        <3>2. CASE ~(first <= Len(v))
            <4>1. x \in Nat
                BY <1>8, <2>1
            <4> QED
                BY <1>11, <1>12, <2>5, <3>2, <4>1
        <3> QED
            BY <3>1, <3>2
    <2> QED
        BY <2>5, <2>6
<1>16. ASSUME NEW x \in K, x < f PROVE x \in E \/ x \in F[i]
    <2>1. PICK n \in 1..Len(k) : x = k[n].id
        BY <1>6 DEF Ids
    <2>2. PICK j \in 1..Len(v) : v[j] = k[n]
        BY <1>7
    <2>3. x = v[j].id /\ x \in Nat /\ x # 0
        <3>1. x \in T
            BY <1>5 DEF Left
        <3> QED
            BY <1>0, <1>8, <2>1, <2>2, <3>1
    <2>4. v[j].kind # "summary"
        BY <1>8, <2>3
    <2>5. j \notin first..Len(v)
        <3> SUFFICES ASSUME j \in first..Len(v) PROVE FALSE
            OBVIOUS
        <3>1. first \in 1..Len(v) /\ first <= Len(v) /\ (j = first \/ first < j)
            BY <1>8, <1>10
        <3>2. f = v[first].id
            BY <1>11, <3>1
        <3>3. j # first
            BY <1>16, <2>3, <3>2
        <3>4. v[first].id < v[j].id
            BY <1>7, <1>10, <2>4, <3>1, <3>3
        <3> QED
            BY <1>12, <1>16, <2>3, <3>2, <3>4
    <2>6. CASE j \in A
        BY <1>13, <2>3, <2>6
    <2>7. CASE j \notin A
        <3>1. ASSUME NEW l \in A \cup first..Len(v) PROVE v[l].id # x
            <4>1. l \in 1..Len(v) /\ l # j
                BY <1>8, <1>10, <2>5, <2>7
            <4>2. l < j \/ j < l
                BY <4>1
            <4> QED
                BY <1>8, <2>3, <4>1, <4>2
        <3>2. x \in {v[l].id : l \in 1..Len(v)}
            BY <2>3
        <3> QED
            BY <1>10, <3>1, <3>2
    <2> QED
        BY <2>6, <2>7
<1> QED
    BY <1>1, <1>5, <1>12, <1>14, <1>15, <1>16 DEF Windowed

-----------------------------------------------------------------------------
(* The history tells the story.                                            *)

LEMMA ToldFacts ==
    ASSUME LogInv, HistoryInv, NEW T, NEW S, NEW W, NEW F, NEW covers,
           Reading(T, S, W, F, covers), NEW h, NEW q \in 0..heard, q = heard, Whole(h, q),
           NEW t, t = Told(h)
    PROVE  Lists(t, T)
<1> DEFINE P == {i \in DOMAIN h : h[i].kind \notin {"condensation", "request"}}
<1>0. /\ h \in Seq(Entries) /\ Len(h) \in Nat /\ DOMAIN h = 1..Len(h)
      /\ \A n \in 1..Len(h) : /\ h[n].id \in 1..Len(log) /\ h[n] = log[h[n].id]
                              /\ h[n].id <= q /\ Included(h[n])
      /\ \A i, j \in 1..Len(h) : i < j => h[i].id < h[j].id
    BY DEF Whole, PartOfLog
<1>1. heard \in Nat
    BY ReadingFacts
<1>2. t = Picked(h, P)
    BY DEF Told
<1>3. \A i \in 1..Len(h) : i \in P <=> h[i].kind \notin {"condensation", "request"}
    BY <1>0
<1> HIDE DEF P
<1>4. t \in Seq(Entries)
    BY <1>0, <1>2, PickedFacts
<1>5. PICK at : Selects(t, at, h, P, Len(h))
    BY <1>0, <1>2, PickedFacts
<1>6. /\ \A i \in 1..Len(t) : at[i] \in 1..Len(h) /\ at[i] \in P /\ t[i] = h[at[i]]
      /\ \A i, j \in 1..Len(t) : i < j => at[i] < at[j]
      /\ \A n \in 1..Len(h) : n \in P => \E i \in 1..Len(t) : at[i] = n
    BY <1>5 DEF Selects
<1>7. Ordered(t)
    <2>1. ASSUME NEW i \in 1..Len(t), NEW j \in 1..Len(t), i < j PROVE t[i].id < t[j].id
        <3>1. at[i] < at[j] /\ at[i] \in 1..Len(h) /\ at[j] \in 1..Len(h)
            BY <1>6, <2>1
        <3>2. h[at[i]].id < h[at[j]].id
            BY <1>0, <3>1
        <3> QED
            BY <1>6, <3>2
    <2> QED
        BY <1>4, <2>1 DEF Ordered
<1>8. ASSUME NEW x \in Ids(t, 1, Len(t)) PROVE x \in T
    <2>1. PICK i \in 1..Len(t) : x = t[i].id
        BY DEF Ids
    <2>2. PICK n \in 1..Len(h) : n \in P /\ t[i] = h[n]
        BY <1>6
    <2>3. x \in 1..heard /\ log[x] = h[n] /\ Included(h[n])
        BY <1>0, <1>1, <2>1, <2>2
    <2> QED
        BY <1>3, <2>2, <2>3 DEF Reading, Included
<1>9. ASSUME NEW x \in T PROVE x \in Ids(t, 1, Len(t))
    <2>1. x \in 1..q /\ log[x].kind \notin {"null", "condensation", "request"}
        BY DEF Reading
    <2>2. PICK n \in 1..Len(h) : h[n].id = x
        BY <2>1 DEF Whole, Included
    <2>3. h[n] = log[x]
        BY <1>0, <2>2
    <2>4. n \in P
        BY <1>3, <2>1, <2>3
    <2>5. PICK i \in 1..Len(t) : at[i] = n
        BY <1>6, <2>4
    <2>6. t[i].id = x
        BY <1>6, <2>2, <2>5
    <2> QED
        BY <2>6 DEF Ids
<1>10. T = Ids(t, 1, Len(t))
    BY <1>8, <1>9
<1> QED
    BY <1>7, <1>10 DEF Lists

\* What a history has forgotten with and without a summary, in terms of the log.
Took(h, x, b, C, F) == x \in TakenBy(h, b) <=> \E c \in C : x \in F[c]

LEMMA TakenFromLog ==
    ASSUME Keeps, IInv, NEW T, NEW S, NEW W, NEW F, NEW covers,
           Reading(T, S, W, F, covers), NEW at, Dates(at),
           NEW h, NEW q \in 0..heard, q = heard, Whole(h, q), NEW x
    PROVE  Took(h, x, TRUE, S, F) /\ Took(h, x, FALSE, W, F)
<1>0. /\ h \in Seq(Entries) /\ Len(h) \in Nat /\ DOMAIN h = 1..Len(h)
      /\ \A n \in 1..Len(h) : /\ h[n].id \in 1..Len(log) /\ h[n] = log[h[n].id]
                              /\ h[n].id <= q /\ Included(h[n])
    BY DEF Whole, PartOfLog
<1>1. heard \in Nat
    BY ReadingFacts DEF IInv
<1>2. /\ x \in TakenBy(h, TRUE) <=>
            \E n \in Condensations(h) : h[n].summary # NoSummary /\ x \in h[n].forget
      /\ x \in TakenBy(h, FALSE) <=>
            \E n \in Condensations(h) : h[n].summary = NoSummary /\ x \in h[n].forget
    <2>1. ASSUME NEW b \in BOOLEAN
          PROVE  x \in TakenBy(h, b) <=>
                    \E n \in {j \in Condensations(h) : (h[j].summary # NoSummary) = b} :
                        x \in h[n].forget
        BY Zenon DEF TakenBy
    <2> QED
        BY <2>1
<1>3. ASSUME NEW n \in Condensations(h), NEW c, c = h[n].id
      PROVE  /\ h[n].forget = F[c]
             /\ h[n].summary # NoSummary <=> c \in S
             /\ h[n].summary = NoSummary <=> c \in W
    <2>1. n \in 1..Len(h) /\ h[n].kind = "condensation"
        BY <1>0 DEF Condensations
    <2>2. c \in 1..heard /\ h[n] = log[c]
        BY <1>0, <1>1, <1>3, <2>1
    <2>3. PICK r \in 0..heard : Made(c, r)
        BY <2>1, <2>2, DateFacts
    <2>4. log[c].summary # NoSummary <=> log[c].summary.offset >= 0
        BY <2>3, WithoutSummary
    <2> QED
        BY <2>1, <2>2, <2>4 DEF Reading
<1>4. ASSUME NEW c \in S \cup W PROVE \E n \in Condensations(h) : h[n].id = c
    <2>1. c \in 1..q /\ log[c].kind = "condensation"
        BY DEF Reading
    <2>2. PICK n \in 1..Len(h) : h[n].id = c
        BY <2>1 DEF Whole, Included
    <2>3. n \in Condensations(h)
        BY <1>0, <2>1, <2>2 DEF Condensations
    <2> QED
        BY <2>2, <2>3
<1>5. (\E n \in Condensations(h) : h[n].summary # NoSummary /\ x \in h[n].forget)
        <=> \E c \in S : x \in F[c]
    <2>1. ASSUME NEW n \in Condensations(h), h[n].summary # NoSummary, x \in h[n].forget
          PROVE  \E c \in S : x \in F[c]
        BY <1>3, <2>1
    <2>2. ASSUME NEW c \in S, x \in F[c]
          PROVE  \E n \in Condensations(h) : h[n].summary # NoSummary /\ x \in h[n].forget
        <3>1. PICK n \in Condensations(h) : h[n].id = c
            BY <1>4
        <3> QED
            BY <1>3, <2>2, <3>1
    <2> QED
        BY <2>1, <2>2
<1>6. (\E n \in Condensations(h) : h[n].summary = NoSummary /\ x \in h[n].forget)
        <=> \E c \in W : x \in F[c]
    <2>1. ASSUME NEW n \in Condensations(h), h[n].summary = NoSummary, x \in h[n].forget
          PROVE  \E c \in W : x \in F[c]
        BY <1>3, <2>1
    <2>2. ASSUME NEW c \in W, x \in F[c]
          PROVE  \E n \in Condensations(h) : h[n].summary = NoSummary /\ x \in h[n].forget
        <3>1. PICK n \in Condensations(h) : h[n].id = c
            BY <1>4
        <3> QED
            BY <1>3, <2>2, <3>1
    <2> QED
        BY <2>1, <2>2
<1>7. x \in TakenBy(h, TRUE) <=> \E c \in S : x \in F[c]
    BY <1>2, <1>5, Zenon
<1>8. x \in TakenBy(h, FALSE) <=> \E c \in W : x \in F[c]
    BY <1>2, <1>6, Zenon
<1> QED
    BY <1>7, <1>8, Zenon DEF Took

LEMMA ForemostHolds ==
    ASSUME Keeps, IInv, NEW T, NEW S, NEW W, NEW F, NEW covers,
           Reading(T, S, W, F, covers), NEW at, Dates(at),
           NEW h, NEW q \in 0..heard, q = heard, Whole(h, q), PrefixStays(h),
           NEW t, t = Told(h), NEW H, H = {t[i].id : i \in {n \in 1..Len(t) : n <= KeepFirst}}
    PROVE  Foremost(T, W, F, H)
<1>0. KeepFirst \in Nat /\ LogInv /\ HistoryInv
    BY SizesAssumption DEF SizesAssumption, IInv
<1>1. Ordered(t) /\ T = Ids(t, 1, Len(t)) /\ Len(t) \in Nat
    <2>1. Lists(t, T)
        BY <1>0, ToldFacts
    <2> QED
        BY <2>1 DEF Lists, Ordered
<1>2. H \subseteq T
    BY <1>1 DEF Ids
<1>3. ASSUME NEW x \in H
      PROVE  Cardinality(Below(T, x)) < KeepFirst /\ \A i \in W : x \notin F[i]
    <2>1. PICK n \in 1..Len(t) : n <= KeepFirst /\ x = t[n].id
        OBVIOUS
    <2>2. Cardinality(Below(T, t[n].id)) = n - 1
        BY <1>1, Ranks
    <2>3. x \notin TakenBy(h, FALSE)
        <3>1. n \in DOMAIN t
            BY <1>1 DEF Ordered
        <3> QED
            BY <2>1, <3>1 DEF PrefixStays
    <2>4. Took(h, x, FALSE, W, F)
        BY TakenFromLog
    <2>5. \A i \in W : x \notin F[i]
        BY <2>3, <2>4, Zenon DEF Took
    <2> QED
        BY <1>0, <2>1, <2>2, <2>5
<1>4. ASSUME NEW x \in T \ H
      PROVE  \E n \in 1..Len(t) : n > KeepFirst /\ x = t[n].id
    <2>1. PICK n \in 1..Len(t) : x = t[n].id
        BY <1>1 DEF Ids
    <2>2. n > KeepFirst
        BY <1>0, <2>1
    <2> QED
        BY <2>1, <2>2
<1>5. ASSUME T \ H # {} PROVE Cardinality(H) >= KeepFirst
    <2>1. PICK x \in T \ H : TRUE
        BY <1>5
    <2>2. Len(t) > KeepFirst
        BY <1>0, <1>1, <1>4
    <2>3. {n \in 1..Len(t) : n <= KeepFirst} = 1..KeepFirst
        BY <1>0, <1>1, <2>2
    <2>4. H = Ids(t, 1, KeepFirst)
        BY <2>3 DEF Ids
    <2>5. Cardinality(Ids(t, 1, KeepFirst)) = KeepFirst - 1 + 1
        <3>1. 1 \in Nat \ {0} /\ KeepFirst \in 0..Len(t) /\ 1 <= KeepFirst + 1
            BY <1>0, <1>1, <2>2
        <3> QED
            BY <1>1, <3>1, IdsCount
    <2>6. Cardinality(H) = KeepFirst - 1 + 1
        BY <2>4, <2>5, Zenon
    <2>7. KeepFirst - 1 + 1 = KeepFirst
        BY <1>0
    <2> QED
        BY <1>0, <2>6, <2>7
<1>6. ASSUME NEW x \in T \ H, NEW y \in H PROVE y < x
    <2>1. PICK n \in 1..Len(t) : n > KeepFirst /\ x = t[n].id
        BY <1>4
    <2>2. PICK m \in 1..Len(t) : m <= KeepFirst /\ y = t[m].id
        OBVIOUS
    <2>3. m < n
        BY <1>0, <2>1, <2>2
    <2> QED
        BY <1>1, <2>1, <2>2, <2>3 DEF Ordered
<1> QED
    BY <1>2, <1>3, <1>5, <1>6 DEF Foremost

LEMMA StoryHolds ==
    ASSUME Keeps, IInv, NEW T, NEW S, NEW W, NEW F, NEW covers,
           Reading(T, S, W, F, covers), NEW at, Dates(at), S # {},
           NEW h, NEW q \in 0..heard, q = heard, Whole(h, q), PrefixStays(h)
    PROVE  \E H : Story(T, S, W, F, covers, at, H)
<1>1. PICK t : t = Told(h)
    OBVIOUS
<1>2. PICK H : H = {t[i].id : i \in {n \in 1..Len(t) : n <= KeepFirst}}
    OBVIOUS
<1>3. Foremost(T, W, F, H)
    BY <1>1, <1>2, ForemostHolds
<1>4. /\ heard \in Nat /\ heard <= Len(log) /\ Len(log) \in Nat /\ IsFiniteSet(T)
      /\ T \in SUBSET Nat /\ S \in SUBSET Nat /\ W \in SUBSET Nat
      /\ S \in SUBSET (1..heard) /\ W \in SUBSET (1..heard)
    BY ReadingFacts DEF IInv
<1>5. ASSUME NEW i \in S \cup W
      PROVE  at[i] \in Nat /\ at[i] < i /\ \A j \in S \cup W : i < j => at[i] <= at[j]
    <2>1. i \in 1..Len(log) /\ \A j \in S \cup W : j \in 1..Len(log)
        BY <1>4
    <2>2. at[i] \in 0..heard
        BY <2>1 DEF Dates
    <2> QED
        BY <2>1, <2>2 DEF Dates
<1>6. \A i \in S : Summarized(T, S, W, F, covers, at, i)
    BY SummarizedHolds
<1>7. \A i \in W : Windowed(T, S, W, F, at, i)
    BY WindowedHolds
<1> QED
    BY <1>3, <1>4, <1>5, <1>6, <1>7 DEF Story

\* The summary that is in view covers what summaries have taken.
LEMMA Complete ==
    ASSUME Keeps, Sound, InTurn => UncutInv
    PROVE  SummaryIsComplete
<1> SUFFICES ASSUME overtaken = 0, recoveries = 0, PrefixStays(history), NEW e \in Range(Told(history)),
                    e.id \in TakenBy(history, TRUE), e.id \notin TakenBy(history, FALSE)
             PROVE  e.id \in UNION {d.summary.covers : d \in Range(ViewOf(history))}
    BY DEF SummaryIsComplete
<1>0. IInv /\ UncutInv /\ LogInv /\ HistoryInv
    BY DEF Sound, InTurn, IInv
<1>1. PICK h : h = history
    OBVIOUS
<1>2. PICK q : q = heard
    OBVIOUS
<1>3. q \in 0..heard /\ heard \in Nat
    BY <1>0, <1>2, LogFacts DEF HistoryInv
<1>4. Whole(h, q) /\ PrefixStays(h)
    BY <1>0, <1>1, <1>2 DEF UncutInv, Uncut
<1>5. PICK at : Dates(at)
    BY <1>0 DEF UncutInv, Uncut
<1>6. PICK x : x = e.id
    OBVIOUS
<1>7. \E T, S, W, F, covers : Reading(T, S, W, F, covers)
    <2>1. PICK F : F = [i \in 1..heard |-> log[i].forget]
        OBVIOUS
    <2>2. PICK covers : covers = [i \in 1..heard |-> log[i].summary.covers]
        OBVIOUS
    <2>3. \A i \in 1..heard : F[i] = log[i].forget /\ covers[i] = log[i].summary.covers
        BY <2>1, <2>2
    <2>4. PICK T : T = {i \in 1..heard : log[i].kind \notin {"null", "condensation", "request"}}
        OBVIOUS
    <2>5. PICK S : S = {i \in 1..heard : /\ log[i].kind = "condensation"
                                        /\ log[i].summary.offset >= 0}
        OBVIOUS
    <2>6. PICK W : W = {i \in 1..heard : /\ log[i].kind = "condensation"
                                        /\ ~(log[i].summary.offset >= 0)}
        OBVIOUS
    <2>7. Reading(T, S, W, F, covers)
        BY <2>3, <2>4, <2>5, <2>6, Zenon DEF Reading
    <2> QED
        BY <2>7, Zenon
<1>8. PICK T, S, W, F, covers : Reading(T, S, W, F, covers)
    BY <1>7
<1>9. PICK c \in S : x \in F[c]
    <2>1. x \in TakenBy(h, TRUE)
        BY <1>1, <1>6
    <2>2. Took(h, x, TRUE, S, F)
        BY <1>0, <1>2, <1>3, <1>4, <1>5, <1>8, TakenFromLog
    <2> QED
        BY <2>1, <2>2, Zenon DEF Took
<1>10. ~(\E w \in W : x \in F[w])
    <2>1. x \notin TakenBy(h, FALSE)
        BY <1>1, <1>6
    <2>2. Took(h, x, FALSE, W, F)
        BY <1>0, <1>2, <1>3, <1>4, <1>5, <1>8, TakenFromLog
    <2> QED
        BY <2>1, <2>2, Zenon DEF Took
<1>11. PICK H : Story(T, S, W, F, covers, at, H)
    BY <1>0, <1>2, <1>3, <1>4, <1>5, <1>8, <1>9, StoryHolds
<1>12. S \in SUBSET (0..heard) /\ S \in SUBSET (1..heard)
    BY <1>0, <1>8, ReadingFacts
<1>13. PICK j \in S : \A n \in S : j >= n
    BY <1>3, <1>9, <1>12, GreatestNumber
<1>14. x \in T
    <2>1. PICK t : t = Told(h)
        OBVIOUS
    <2>2. Lists(t, T)
        BY <1>0, <1>2, <1>3, <1>4, <1>8, <2>1, ToldFacts
    <2>3. Ordered(t) /\ T = Ids(t, 1, Len(t))
        BY <2>2 DEF Lists
    <2>4. DOMAIN t = 1..Len(t)
        BY <2>3 DEF Ordered
    <2>5. PICK n \in 1..Len(t) : e = t[n]
        BY <1>1, <2>1, <2>4 DEF Range
    <2> QED
        BY <1>6, <2>3, <2>5 DEF Ids
<1>15. x \in covers[j]
    <2>1. Covered(T, S, W, F, covers, j)
        BY <1>11, AllCovered
    <2>2. c <= j
        BY <1>12, <1>13
    <2> QED
        BY <1>9, <1>10, <1>14, <2>1, <2>2 DEF Covered
<1>16. GoodHistory(h, pipeline)
    BY <1>0, <1>1, GoodPart DEF HistoryInv
<1>17. Summaries(h) # {}
    <2>1. j \in 1..q /\ log[j].kind = "condensation" /\ log[j].summary.offset >= 0
        BY <1>2, <1>8 DEF Reading
    <2>2. PICK n \in 1..Len(h) : h[n].id = j
        BY <1>4, <2>1 DEF Whole, Included
    <2>3. h[n] = log[j] /\ n \in DOMAIN h
        BY <1>4, <2>2 DEF Whole, PartOfLog
    <2> QED
        BY <2>1, <2>3 DEF Summaries, Condensations
<1>18. PICK v : v = ViewOf(h)
    OBVIOUS
<1>19. PICK k : k = Kept(h)
    OBVIOUS
<1>20. PICK m, a, s :
        /\ m \in Summaries(h)
        /\ \A n \in Summaries(h) : m >= n
        /\ WithSummary(v, k, a, s, h[m].summary.covers)
    BY <1>16, <1>17, <1>18, <1>19, ViewEntries
<1>21. covers[j] = h[m].summary.covers
    <2>1. j <= q /\ \A n \in S : n <= q => n <= j
        BY <1>2, <1>3, <1>12, <1>13
    <2> QED
        BY <1>0, <1>3, <1>4, <1>8, <1>20, <2>1, LastOfWhole
<1>22. s \in Range(v) /\ s.summary.covers = h[m].summary.covers
    <2>1. /\ v \in Seq(Entries) /\ Len(v) = Len(k) + 1 /\ a \in 1..Len(k) + 1
          /\ v[a] = s /\ s.summary.covers = h[m].summary.covers
        BY <1>20 DEF WithSummary, Inserted
    <2>2. a \in DOMAIN v
        BY <2>1
    <2> QED
        BY <2>1, <2>2 DEF Range
<1> QED
    BY <1>1, <1>6, <1>15, <1>18, <1>21, <1>22

\* One summary covers all, for any pipelines of condensers, sizes, messages and
\* crashes, until a loop is cut out or an event is heard before an earlier one:
\* whatever the summarizing condenser has taken out of the view is in the summary
\* that is in the view (llm_summarizing_condenser.py:18-23, 62-160), wherever the
\* window condenser has condensed in between
\* (conversation_window_condenser.py:31-188), as long as it takes no event of the
\* prefix.
THEOREM OneSummaryCoversAll ==
    ASSUME Keeps, Interactive
    PROVE  Spec => []SummaryIsComplete
<1>1. Sound /\ (InTurn => UncutInv) => SummaryIsComplete
    BY Complete
<1> QED
    BY <1>1, Inductive, UncutHolds, PTL
=============================================================================
