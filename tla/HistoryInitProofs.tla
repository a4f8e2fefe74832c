-------------------------- MODULE HistoryInitProofs --------------------------
(***************************************************************************)
(* Proofs about HistoryInit, for logs of any length: types after any       *)
(* number of restarts, and that the history is complete up to the first    *)
(* restart and after it.                                                   *)
(***************************************************************************)
(* All lists of ids are in their order, so that a list is determined by    *)
(* the set of its members (ListIsUnique).  What _init_history computes is  *)
(* followed as a set, from one element of a list to the next.              *)
(***************************************************************************)
EXTENDS HistoryInit, WellFoundedInduction, SequenceTheorems, TLAPS

-----------------------------------------------------------------------------
(* Induction over an interval, stated with a set, and the existence of a   *)
(* function that is defined by recursion on one.                           *)

Less == {ss \in Nat \X Nat : ss[1] < ss[2]}

LEMMA LessIsWellFounded == IsWellFoundedOn(Less, Nat)
BY NatLessThanWellFounded DEF OpToRel, Less

LEMMA IntervalInduction ==
    ASSUME NEW m \in Nat, NEW U, 0 \in U,
           \A n \in 0..m - 1 : n \in U => n + 1 \in U
    PROVE  0..m \subseteq U
<1> DEFINE T == (0..m) \ U
<1> SUFFICES ASSUME T # {} PROVE FALSE
    OBVIOUS
<1>1. T \in SUBSET Nat
    OBVIOUS
<1>2. PICK n \in T : \A k \in T : ~(<<k, n>> \in Less)
    <2> HIDE DEF T
    <2> QED
        BY <1>1, LessIsWellFounded, WFMin
<1>3. n # 0 /\ n - 1 \in 0..m - 1
    OBVIOUS
<1>4. n - 1 \in U
    <2>1. n - 1 < n /\ n - 1 \in Nat /\ n \in Nat
        BY <1>1, <1>3
    <2>2. <<n - 1, n>> \in Less
        BY <2>1 DEF Less
    <2>3. n - 1 \notin T
        BY <1>2, <2>2
    <2> QED
        BY <1>3, <2>3
<1> QED
    BY <1>3, <1>4

\* f follows step from the start b, on 0..m.
Follows(f, step, b, m) ==
    f = [n \in 0..m |-> IF n = 0 THEN b ELSE step[<<n, f[n - 1]>>]]

LEMMA RecursionExists ==
    ASSUME NEW m \in Nat, NEW A, NEW b \in A, NEW step \in [(1..m) \X A -> A]
    PROVE  \E f \in [0..m -> A] : Follows(f, step, b, m)
<1> DEFINE U == {k \in 0..m : \E f \in [0..k -> A] : Follows(f, step, b, k)}
<1>1. 0 \in U
    <2>1. Follows([n \in 0..0 |-> b], step, b, 0)
        BY DEF Follows
    <2>2. [n \in 0..0 |-> b] \in [0..0 -> A]
        OBVIOUS
    <2> QED
        BY <2>1, <2>2
<1>2. ASSUME NEW k \in 0..m - 1, k \in U PROVE k + 1 \in U
    <2>1. PICK f \in [0..k -> A] : Follows(f, step, b, k)
        BY <1>2
    <2> DEFINE g == [n \in 0..k + 1 |-> IF n <= k THEN f[n] ELSE step[<<n, f[n - 1]>>]]
    <2>2. \A n \in 0..k : g[n] = f[n]
        OBVIOUS
    <2>3. \A n \in 0..k : f[n] = IF n = 0 THEN b ELSE step[<<n, f[n - 1]>>]
        BY <2>1 DEF Follows
    <2>4. g[k + 1] = step[<<k + 1, f[k]>>] /\ f[k] \in A /\ step[<<k + 1, f[k]>>] \in A
        <3>1. ~(k + 1 <= k) /\ (k + 1) - 1 = k /\ k \in 0..k /\ k + 1 \in 1..m
            OBVIOUS
        <3>2. <<k + 1, f[k]>> \in (1..m) \X A
            BY <3>1
        <3> QED
            BY <3>1, <3>2
    <2>5. ASSUME NEW n \in 0..k + 1
          PROVE  g[n] = (IF n = 0 THEN b ELSE step[<<n, g[n - 1]>>]) /\ g[n] \in A
        <3>1. CASE n = 0
            <4>1. 0 \in 0..k
                OBVIOUS
            <4>2. f[0] = b /\ g[0] = f[0]
                BY <4>1, <2>2, <2>3, Zenon
            <4> HIDE DEF g
            <4> QED
                BY <3>1, <4>2
        <3>2. CASE n \in 1..k
            <4>1. n \in 0..k /\ n - 1 \in 0..k /\ n # 0
                BY <3>2
            <4> QED
                BY <4>1, <2>2, <2>3
        <3>3. CASE n = k + 1
            <4>1. n - 1 = k /\ k \in 0..k /\ n # 0
                BY <3>3
            <4> QED
                BY <3>3, <4>1, <2>2, <2>4
        <3> QED
            BY <3>1, <3>2, <3>3
    <2>6. g \in [0..k + 1 -> A] /\ Follows(g, step, b, k + 1)
        <3>1. g = [n \in 0..k + 1 |-> g[n]]
            OBVIOUS
        <3> HIDE DEF g
        <3> QED
            BY <2>5, <3>1 DEF Follows
    <2>7. k + 1 \in 0..m
        OBVIOUS
    <2> QED
        BY <2>6, <2>7
<1>3. 0..m \subseteq U
    <2> HIDE DEF U
    <2> QED
        BY <1>1, <1>2, IntervalInduction
<1> QED
    BY <1>3

\* f goes from the start b as step says, on 0..m.
Goes(f, step, b, m) == f[0] = b /\ \A n \in 1..m : f[n] = step[<<n, f[n - 1]>>]

LEMMA FollowsFacts ==
    ASSUME NEW m \in Nat, NEW step, NEW b, NEW f, Follows(f, step, b, m)
    PROVE  Goes(f, step, b, m)
<1>1. \A n \in 0..m : f[n] = IF n = 0 THEN b ELSE step[<<n, f[n - 1]>>]
    <2> DEFINE g == [n \in 0..m |-> IF n = 0 THEN b ELSE step[<<n, f[n - 1]>>]]
    <2>1. f = g
        BY Zenon DEF Follows
    <2>2. \A n \in 0..m : g[n] = IF n = 0 THEN b ELSE step[<<n, f[n - 1]>>]
        OBVIOUS
    <2> HIDE DEF g
    <2> QED
        BY <2>1, <2>2
<1>2. 0 \in 0..m /\ \A n \in 1..m : n \in 0..m /\ n # 0
    OBVIOUS
<1>3. f[0] = b
    BY <1>1, <1>2, Zenon
<1>4. \A n \in 1..m : f[n] = step[<<n, f[n - 1]>>]
    BY <1>1, <1>2, Zenon
<1> QED
    BY <1>3, <1>4 DEF Goes

-----------------------------------------------------------------------------
(* Lists of ids in their order.                                            *)

Ordered(s) == \A i, j \in 1..Len(s) : i < j => s[i] < s[j]

Members(s) == {s[i] : i \in 1..Len(s)}

IsList(s, S) == s \in Seq(Nat) /\ Ordered(s) /\ Members(s) = S

LEMMA MemberOf ==
    ASSUME NEW s, NEW S, IsList(s, S)
    PROVE  /\ s \in Seq(Nat) /\ Len(s) \in Nat /\ DOMAIN s = 1..Len(s) /\ S \subseteq Nat
           /\ \A i \in 1..Len(s) : s[i] \in S
           /\ \A x \in S : \E i \in 1..Len(s) : s[i] = x
BY DEF IsList, Members

LEMMA ListIsUnique ==
    ASSUME NEW s, NEW t, NEW S, IsList(s, S), IsList(t, S)
    PROVE  s = t
<1>1. /\ s \in Seq(Nat) /\ Len(s) \in Nat /\ t \in Seq(Nat) /\ Len(t) \in Nat
      /\ \A i \in 1..Len(s) : s[i] \in S /\ s[i] \in Nat
      /\ \A i \in 1..Len(t) : t[i] \in S /\ t[i] \in Nat
      /\ \A x \in S : \E i \in 1..Len(s) : s[i] = x
      /\ \A x \in S : \E i \in 1..Len(t) : t[i] = x
    BY MemberOf
<1>2. /\ \A i, j \in 1..Len(s) : i < j => s[i] < s[j]
      /\ \A i, j \in 1..Len(t) : i < j => t[i] < t[j]
    BY DEF IsList, Ordered
<1> DEFINE U == {n \in 0..Len(s) : n <= Len(t) /\ \A i \in 1..n : s[i] = t[i]}
<1>3. 0 \in U
    BY <1>1
<1>4. ASSUME NEW n \in 0..Len(s) - 1, n \in U PROVE n + 1 \in U
    <2>1. n <= Len(t) /\ \A i \in 1..n : s[i] = t[i]
        BY <1>4
    <2>2. n + 1 \in 1..Len(s)
        BY <1>1
    <2>3. PICK j \in 1..Len(t) : t[j] = s[n + 1]
        BY <1>1, <2>2
    <2>4. j >= n + 1
        <3>1. ASSUME j <= n PROVE FALSE
            <4>1. j \in 1..n /\ j \in 1..Len(s) /\ j < n + 1
                BY <1>1, <3>1
            <4>2. s[j] < s[n + 1] /\ s[j] = t[j]
                BY <1>2, <2>1, <2>2, <4>1
            <4> QED
                BY <1>1, <2>2, <2>3, <4>1, <4>2
        <3> QED
            BY <1>1, <3>1
    <2>5. n + 1 \in 1..Len(t)
        BY <1>1, <2>4
    <2>6. PICK k \in 1..Len(s) : s[k] = t[n + 1]
        BY <1>1, <2>5
    <2>7. k >= n + 1
        <3>1. ASSUME k <= n PROVE FALSE
            <4>1. k \in 1..n /\ k \in 1..Len(t) /\ k < n + 1
                BY <1>1, <2>1, <3>1
            <4>2. t[k] < t[n + 1] /\ s[k] = t[k]
                BY <1>2, <2>1, <2>5, <4>1
            <4> QED
                BY <1>1, <2>5, <2>6, <4>1, <4>2
        <3> QED
            BY <1>1, <3>1
    <2>8. s[n + 1] = t[n + 1]
        <3>1. PICK x \in Nat, y \in Nat : x = s[n + 1] /\ y = t[n + 1]
            BY <1>1, <2>2, <2>5
        <3>2. y <= x
            <4>1. CASE j = n + 1
                BY <2>3, <3>1, <4>1
            <4>2. CASE n + 1 < j
                <5>1. t[n + 1] < t[j]
                    BY <1>2, <2>5, <4>2
                <5> QED
                    BY <2>3, <3>1, <5>1
            <4> QED
                BY <1>1, <2>4, <4>1, <4>2
        <3>3. x <= y
            <4>1. CASE k = n + 1
                BY <2>6, <3>1, <4>1
            <4>2. CASE n + 1 < k
                <5>1. s[n + 1] < s[k]
                    BY <1>2, <2>2, <4>2
                <5> QED
                    BY <2>6, <3>1, <5>1
            <4> QED
                BY <1>1, <2>7, <4>1, <4>2
        <3> QED
            BY <3>1, <3>2, <3>3
    <2>9. \A i \in 1..n + 1 : s[i] = t[i]
        BY <2>1, <2>8
    <2> QED
        BY <1>1, <2>2, <2>5, <2>9
<1>5. Len(s) <= Len(t) /\ \A i \in 1..Len(s) : s[i] = t[i]
    <2>1. 0..Len(s) \subseteq U
        <3> HIDE DEF U
        <3> QED
            BY <1>1, <1>3, <1>4, IntervalInduction
    <2>2. Len(s) \in U
        BY <1>1, <2>1
    <2> QED
        BY <2>2
<1>6. Len(t) = Len(s)
    <2> SUFFICES ASSUME Len(s) + 1 \in 1..Len(t) PROVE FALSE
        BY <1>1, <1>5
    <2>1. PICK k \in 1..Len(s) : s[k] = t[Len(s) + 1]
        BY <1>1
    <2>2. k \in 1..Len(t) /\ k < Len(s) + 1
        BY <1>1, <1>5
    <2>3. t[k] < t[Len(s) + 1] /\ t[k] = s[k]
        BY <1>2, <1>5, <2>2
    <2> QED
        BY <1>1, <2>1, <2>2, <2>3
<1>7. PICK m : m = Len(s) /\ m = Len(t)
    BY <1>6
<1>8. s = [i \in 1..m |-> s[i]] /\ t = [i \in 1..m |-> t[i]]
    <2>1. s = [i \in 1..Len(s) |-> s[i]]
        BY <1>1
    <2>2. t = [i \in 1..Len(t) |-> t[i]]
        BY <1>1
    <2> QED
        BY <1>7, <2>1, <2>2, Zenon
<1>9. \A i \in 1..m : s[i] = t[i]
    BY <1>5, <1>7
<1> QED
    BY <1>8, <1>9

LEMMA EmptyList == IsList(<<>>, {})
BY DEF IsList, Ordered, Members

LEMMA AppendList ==
    ASSUME NEW s, NEW S, IsList(s, S), NEW x \in Nat, \A y \in S : y < x
    PROVE  IsList(Append(s, x), S \cup {x})
<1>1. /\ s \in Seq(Nat) /\ Len(s) \in Nat
      /\ \A i \in 1..Len(s) : s[i] \in S
      /\ \A y \in S : \E i \in 1..Len(s) : s[i] = y
    BY MemberOf
<1>2. PICK t : t = Append(s, x)
    OBVIOUS
<1>3. /\ t \in Seq(Nat) /\ Len(t) = Len(s) + 1 /\ t[Len(s) + 1] = x
      /\ \A i \in 1..Len(s) : t[i] = s[i]
    BY <1>1, <1>2
<1>4. Ordered(t)
    <2> SUFFICES ASSUME NEW i \in 1..Len(t), NEW j \in 1..Len(t), i < j PROVE t[i] < t[j]
        BY DEF Ordered
    <2>1. i \in 1..Len(s)
        BY <1>1, <1>3
    <2>2. CASE j \in 1..Len(s)
        BY <1>3, <2>1, <2>2 DEF IsList, Ordered
    <2>3. CASE j = Len(s) + 1
        BY <1>1, <1>3, <2>1, <2>3
    <2> QED
        BY <1>1, <1>3, <2>2, <2>3
<1>5. Members(t) = S \cup {x}
    <2>1. ASSUME NEW y \in Members(t) PROVE y \in S \cup {x}
        <3>1. PICK i \in 1..Len(t) : y = t[i]
            BY <2>1 DEF Members
        <3>2. i \in 1..Len(s) \/ i = Len(s) + 1
            BY <1>1, <1>3
        <3> QED
            BY <1>1, <1>3, <3>1, <3>2
    <2>2. ASSUME NEW y \in S \cup {x} PROVE y \in Members(t)
        <3>1. CASE y \in S
            <4>1. PICK i \in 1..Len(s) : s[i] = y
                BY <1>1, <3>1
            <4>2. i \in 1..Len(t) /\ t[i] = y
                BY <1>1, <1>3, <4>1
            <4> QED
                BY <4>2 DEF Members
        <3>2. CASE y = x
            <4>1. Len(s) + 1 \in 1..Len(t) /\ t[Len(s) + 1] = y
                BY <1>1, <1>3, <3>2
            <4> QED
                BY <4>1 DEF Members
        <3> QED
            BY <3>1, <3>2
    <2> QED
        BY <2>1, <2>2
<1> QED
    BY <1>2, <1>3, <1>4, <1>5 DEF IsList

LEMMA JoinedLists ==
    ASSUME NEW s, NEW S, IsList(s, S), NEW t, NEW T, IsList(t, T),
           \A x \in S : \A y \in T : x < y
    PROVE  IsList(s \o t, S \cup T)
<1>1. /\ s \in Seq(Nat) /\ Len(s) \in Nat
      /\ \A i \in 1..Len(s) : s[i] \in S
      /\ \A y \in S : \E i \in 1..Len(s) : s[i] = y
    BY MemberOf
<1>2. /\ t \in Seq(Nat) /\ Len(t) \in Nat
      /\ \A i \in 1..Len(t) : t[i] \in T
      /\ \A y \in T : \E i \in 1..Len(t) : t[i] = y
    BY MemberOf
<1>3. PICK u : u = s \o t
    OBVIOUS
<1>4. /\ u \in Seq(Nat) /\ Len(u) = Len(s) + Len(t)
      /\ \A i \in 1..Len(s) : u[i] = s[i]
      /\ \A i \in 1..Len(t) : u[Len(s) + i] = t[i]
    BY <1>1, <1>2, <1>3
<1>5. \A i \in 1..Len(u) : \/ i \in 1..Len(s)
                           \/ i - Len(s) \in 1..Len(t) /\ Len(s) + (i - Len(s)) = i
    BY <1>1, <1>2, <1>4
<1>6. ASSUME NEW i \in 1..Len(u) PROVE i \notin 1..Len(s) => u[i] = t[i - Len(s)]
    <2> SUFFICES ASSUME i \notin 1..Len(s) PROVE u[i] = t[i - Len(s)]
        OBVIOUS
    <2>1. i - Len(s) \in 1..Len(t) /\ Len(s) + (i - Len(s)) = i
        BY <1>5
    <2>2. u[Len(s) + (i - Len(s))] = t[i - Len(s)]
        BY <1>4, <2>1
    <2> QED
        BY <2>1, <2>2
<1>7. Ordered(u)
    <2> SUFFICES ASSUME NEW i \in 1..Len(u), NEW j \in 1..Len(u), i < j PROVE u[i] < u[j]
        BY DEF Ordered
    <2>1. CASE j \in 1..Len(s)
        <3>1. i \in 1..Len(s)
            BY <1>1, <2>1
        <3> QED
            BY <1>4, <2>1, <3>1 DEF IsList, Ordered
    <2>2. CASE i \in 1..Len(s) /\ j \notin 1..Len(s)
        <3>1. u[i] \in S
            BY <1>1, <1>4, <2>2
        <3>2. u[j] \in T
            BY <1>2, <1>5, <1>6, <2>2
        <3> QED
            BY <3>1, <3>2
    <2>3. CASE i \notin 1..Len(s) /\ j \notin 1..Len(s)
        <3>1. PICK p \in 1..Len(t) : p = i - Len(s) /\ u[i] = t[p]
            BY <1>5, <1>6, <2>3
        <3>2. PICK q \in 1..Len(t) : q = j - Len(s) /\ u[j] = t[q]
            BY <1>5, <1>6, <2>3
        <3>3. p < q
            BY <1>1, <3>1, <3>2
        <3> QED
            BY <3>1, <3>2, <3>3 DEF IsList, Ordered
    <2>4. i \in 1..Len(s) \/ j \notin 1..Len(s)
        BY <1>1
    <2> QED
        BY <2>1, <2>2, <2>3, <2>4
<1>8. Members(u) = S \cup T
    <2>1. ASSUME NEW y \in Members(u) PROVE y \in S \cup T
        <3>1. PICK i \in 1..Len(u) : y = u[i]
            BY <2>1 DEF Members
        <3> QED
            BY <1>1, <1>2, <1>4, <1>5, <1>6, <3>1
    <2>2. ASSUME NEW y \in S \cup T PROVE y \in Members(u)
        <3>1. CASE y \in S
            <4>1. PICK i \in 1..Len(s) : s[i] = y
                BY <1>1, <3>1
            <4>2. i \in 1..Len(u) /\ u[i] = y
                BY <1>1, <1>2, <1>4, <4>1
            <4> QED
                BY <4>2 DEF Members
        <3>2. CASE y \in T
            <4>1. PICK i \in 1..Len(t) : t[i] = y
                BY <1>2, <3>2
            <4>2. Len(s) + i \in 1..Len(u)
                BY <1>1, <1>2, <1>4
            <4>3. u[Len(s) + i] = y
                BY <1>4, <4>1
            <4> QED
                BY <4>2, <4>3 DEF Members
        <3> QED
            BY <3>1, <3>2
    <2> QED
        BY <2>1, <2>2
<1> QED
    BY <1>3, <1>4, <1>7, <1>8 DEF IsList

-----------------------------------------------------------------------------
(* Picked: the members at some positions.                                  *)

At(s, P) == {s[i] : i \in P}

\* What Picked's recursive function does at each place.
PickStep(s, P, m) ==
    [x \in (1..m) \X Seq(Nat) |-> IF x[1] \in P THEN Append(x[2], s[x[1]]) ELSE x[2]]

IsPicking(f, s, P, m) ==
    f = [n \in 0..m |-> IF n = 0 THEN <<>>
                        ELSE IF n \in P THEN Append(f[n - 1], s[n])
                        ELSE f[n - 1]]

LEMMA PickingExists ==
    ASSUME NEW s \in Seq(Nat), NEW P
    PROVE  \E f : IsPicking(f, s, P, Len(s))
<1>1. PICK m \in Nat : m = Len(s)
    OBVIOUS
<1>2. PICK step : step = PickStep(s, P, m)
    OBVIOUS
<1>3. step \in [(1..m) \X Seq(Nat) -> Seq(Nat)]
    <2>1. ASSUME NEW x \in (1..m) \X Seq(Nat)
          PROVE  (IF x[1] \in P THEN Append(x[2], s[x[1]]) ELSE x[2]) \in Seq(Nat)
        <3>1. x[1] \in 1..Len(s) /\ x[2] \in Seq(Nat)
            BY <1>1
        <3> QED
            BY <3>1
    <2> QED
        BY <1>2, <2>1 DEF PickStep
<1>4. PICK f \in [0..m -> Seq(Nat)] : Follows(f, step, <<>>, m)
    <2>1. <<>> \in Seq(Nat)
        OBVIOUS
    <2> QED
        BY <1>3, <2>1, RecursionExists
<1>5. f[0] = <<>> /\ \A n \in 1..m : f[n] = step[<<n, f[n - 1]>>]
    <2>1. Goes(f, step, <<>>, m)
        BY <1>4, FollowsFacts, Zenon
    <2> QED
        BY <2>1 DEF Goes
<1>6. ASSUME NEW n \in 0..m
      PROVE  f[n] = IF n = 0 THEN <<>>
                    ELSE IF n \in P THEN Append(f[n - 1], s[n])
                    ELSE f[n - 1]
    <2>1. CASE n = 0
        BY <1>5, <2>1
    <2>2. CASE n # 0
        <3>1. n \in 1..m /\ n - 1 \in 0..m
            BY <2>2
        <3>2. PICK g \in Seq(Nat) : g = f[n - 1]
            BY <3>1
        <3>3. <<n, g>> \in (1..m) \X Seq(Nat)
            BY <3>1
        <3>4. step[<<n, g>>] = IF n \in P THEN Append(g, s[n]) ELSE g
            BY <1>2, <3>3 DEF PickStep
        <3> QED
            BY <1>5, <2>2, <3>1, <3>2, <3>4
    <2> QED
        BY <2>1, <2>2
<1>7. f = [n \in 0..m |-> f[n]]
    OBVIOUS
<1>8. IsPicking(f, s, P, m)
    BY <1>6, <1>7 DEF IsPicking
<1> QED
    BY <1>1, <1>8

LEMMA PickingFacts ==
    ASSUME NEW m \in Nat, NEW s, NEW P, NEW f, IsPicking(f, s, P, m)
    PROVE  /\ f[0] = <<>>
           /\ \A n \in 1..m : f[n] = IF n \in P THEN Append(f[n - 1], s[n])
                                     ELSE f[n - 1]
<1>1. \A n \in 0..m : f[n] = IF n = 0 THEN <<>>
                             ELSE IF n \in P THEN Append(f[n - 1], s[n])
                             ELSE f[n - 1]
    <2> DEFINE g == [n \in 0..m |-> IF n = 0 THEN <<>>
                                    ELSE IF n \in P THEN Append(f[n - 1], s[n])
                                    ELSE f[n - 1]]
    <2>1. f = g
        BY Zenon DEF IsPicking
    <2>2. \A n \in 0..m : g[n] = IF n = 0 THEN <<>>
                                 ELSE IF n \in P THEN Append(f[n - 1], s[n])
                                 ELSE f[n - 1]
        OBVIOUS
    <2> HIDE DEF g
    <2> QED
        BY <2>1, <2>2
<1>2. 0 \in 0..m /\ \A n \in 1..m : n \in 0..m /\ n # 0
    OBVIOUS
<1> QED
    BY <1>1, <1>2, Zenon

LEMMA PickedType ==
    ASSUME NEW s \in Seq(Nat), NEW P
    PROVE  Picked(s, P) \in Seq(Nat)
<1>1. PICK m \in Nat : m = Len(s)
    OBVIOUS
<1>2. PICK f : f = CHOOSE g : IsPicking(g, s, P, m)
    OBVIOUS
<1>3. IsPicking(f, s, P, m)
    BY <1>1, <1>2, PickingExists, Zenon
<1>4. /\ f[0] = <<>>
      /\ \A n \in 1..m : f[n] = IF n \in P THEN Append(f[n - 1], s[n]) ELSE f[n - 1]
    BY <1>3, PickingFacts
<1>5. Picked(s, P) = f[m]
    BY <1>1, <1>2, Zenon DEF Picked, IsPicking
<1> DEFINE U == {n \in 0..m : f[n] \in Seq(Nat)}
<1>6. 0 \in U
    <2>1. <<>> \in Seq(Nat) /\ 0 \in 0..m
        OBVIOUS
    <2> QED
        BY <1>4, <2>1
<1>7. ASSUME NEW k \in 0..m - 1, k \in U PROVE k + 1 \in U
    <2>1. PICK n \in 1..m : n = k + 1 /\ n - 1 = k
        OBVIOUS
    <2>2. PICK g \in Seq(Nat) : g = f[n - 1]
        BY <1>7, <2>1
    <2>3. f[n] \in Seq(Nat)
        <3>1. s[n] \in Nat
            BY <1>1
        <3>2. Append(g, s[n]) \in Seq(Nat)
            BY <3>1
        <3>3. f[n] = IF n \in P THEN Append(g, s[n]) ELSE g
            BY <1>4, <2>2
        <3> QED
            BY <3>2, <3>3
    <2> QED
        BY <2>1, <2>3
<1>8. 0..m \subseteq U
    <2> HIDE DEF U
    <2> QED
        BY <1>6, <1>7, IntervalInduction
<1>9. m \in U
    BY <1>8
<1> QED
    BY <1>5, <1>9

LEMMA PickedIsList ==
    ASSUME NEW s \in Seq(Nat), Ordered(s), NEW P \in SUBSET (1..Len(s))
    PROVE  IsList(Picked(s, P), At(s, P))
<1>1. PICK m \in Nat : m = Len(s)
    OBVIOUS
<1>2. PICK f : f = CHOOSE g : IsPicking(g, s, P, m)
    OBVIOUS
<1>3. IsPicking(f, s, P, m)
    BY <1>1, <1>2, PickingExists, Zenon
<1>4. /\ f[0] = <<>>
      /\ \A n \in 1..m : f[n] = IF n \in P THEN Append(f[n - 1], s[n]) ELSE f[n - 1]
    BY <1>3, PickingFacts
<1>5. Picked(s, P) = f[m]
    BY <1>1, <1>2, Zenon DEF Picked, IsPicking
<1> DEFINE U == {n \in 0..m : IsList(f[n], At(s, P \cap 1..n))}
<1>6. 0 \in U
    <2>1. At(s, P \cap 1..0) = {} /\ 0 \in 0..m
        BY DEF At
    <2> QED
        BY <1>4, <2>1, EmptyList
<1>7. ASSUME NEW k \in 0..m - 1, k \in U PROVE k + 1 \in U
    <2>1. PICK n \in 1..m : n = k + 1 /\ n - 1 = k
        OBVIOUS
    <2>2. IsList(f[n - 1], At(s, P \cap 1..n - 1))
        BY <1>7, <2>1
    <2>3. IsList(f[n], At(s, P \cap 1..n))
        <3>1. CASE n \notin P
            <4>1. P \cap 1..n = P \cap 1..n - 1
                BY <3>1
            <4>2. f[n] = f[n - 1]
                BY <1>4, <3>1
            <4> QED
                BY <2>2, <4>1, <4>2
        <3>2. CASE n \in P
            <4>1. s[n] \in Nat /\ n \in 1..Len(s)
                BY <1>1
            <4>2. \A y \in At(s, P \cap 1..n - 1) : y < s[n]
                <5>1. \A i \in P \cap 1..n - 1 : i \in 1..Len(s) /\ i < n
                    BY <1>1
                <5> QED
                    BY <4>1, <5>1 DEF At, Ordered
            <4>3. At(s, P \cap 1..n) = At(s, P \cap 1..n - 1) \cup {s[n]}
                <5>1. P \cap 1..n = (P \cap 1..n - 1) \cup {n}
                    BY <3>2
                <5> QED
                    BY <5>1 DEF At
            <4>4. f[n] = Append(f[n - 1], s[n])
                BY <1>4, <3>2
            <4>5. IsList(Append(f[n - 1], s[n]), At(s, P \cap 1..n - 1) \cup {s[n]})
                BY <2>2, <4>1, <4>2, AppendList, Zenon
            <4> QED
                BY <4>3, <4>4, <4>5
        <3> QED
            BY <3>1, <3>2
    <2>4. k + 1 \in 0..m
        OBVIOUS
    <2> QED
        BY <2>1, <2>3, <2>4
<1>8. 0..m \subseteq U
    <2> HIDE DEF U
    <2> QED
        BY <1>6, <1>7, IntervalInduction
<1>9. m \in U
    BY <1>8
<1>10. P \cap 1..m = P
    BY <1>1
<1> QED
    BY <1>5, <1>9, <1>10

\* A filter of a list of ids, by a set of ids.
LEMMA FilteredList ==
    ASSUME NEW s, NEW S, IsList(s, S), NEW T,
           NEW P, P = {k \in DOMAIN s : s[k] \in T}
    PROVE  IsList(Picked(s, P), S \cap T)
<1>1. /\ s \in Seq(Nat) /\ Len(s) \in Nat /\ DOMAIN s = 1..Len(s)
      /\ \A i \in 1..Len(s) : s[i] \in S
      /\ \A y \in S : \E i \in 1..Len(s) : s[i] = y
    BY MemberOf
<1>2. P \in SUBSET (1..Len(s)) /\ P = {k \in 1..Len(s) : s[k] \in T}
    BY <1>1
<1>3. At(s, P) = S \cap T
    BY <1>1, <1>2 DEF At
<1> QED
    BY <1>1, <1>2, <1>3, PickedIsList DEF IsList

\* A filter of the ids of the log.
LEMMA IdsList ==
    ASSUME Len(log) \in Nat, DOMAIN log = 1..Len(log), NEW S \in SUBSET (1..Len(log))
    PROVE  IsList(Picked(Ids, S), S)
<1>1. PICK m \in Nat : m = Len(log)
    OBVIOUS
<1>2. PICK s : s = Ids
    OBVIOUS
<1>3. s = [i \in 1..m |-> i]
    BY <1>1, <1>2 DEF Ids
<1>4. s \in Seq(Nat) /\ Len(s) = m /\ \A i \in 1..m : s[i] = i
    BY <1>3
<1>5. Ordered(s)
    BY <1>4 DEF Ordered
<1>6. At(s, S) = S
    BY <1>1, <1>4 DEF At
<1> QED
    BY <1>1, <1>2, <1>4, <1>5, <1>6, PickedIsList

-----------------------------------------------------------------------------
(* The pairs of delegate action and observation that the stack finds.      *)

\* No delegation begins or ends between these two events.
Calm(a, b) == \A j \in (a + 1)..(b - 1) : log[j] \notin {"delegate", "result"}

\* The delegations from an event on.
Ranges(from) ==
    {r \in (from..Len(log)) \X (1..Len(log)) :
        /\ r[1] < r[2] /\ log[r[1]] = "delegate" /\ log[r[2]] = "result"
        /\ Calm(r[1], r[2])}

\* Every result ends the delegation that began last.
LogInv ==
    /\ log \in Seq(Kinds)
    /\ \A o \in 1..Len(log) : log[o] = "result" =>
          \E a \in 1..(o - 1) : log[a] = "delegate" /\ Calm(a, o)

\* What the store's filtered search yields.
Kept(from) == {i \in 1..Len(log) : i >= from /\ log[i] # "dropped"}

Stacks == [open : Seq(Nat), ranges : SUBSET (Nat \X Nat)]

\* What the loop over the events has found when it has come to event n.
Scanned(acc, n, from) ==
    /\ acc \in Stacks
    /\ acc.ranges = {r \in Ranges(from) : r[2] <= n}
    /\ \A a \in from..n : log[a] = "delegate" /\ Calm(a, n + 1)
          => acc.open # <<>> /\ Last(acc.open) = a
    /\ (\A a \in from..n : log[a] # "delegate") => acc.open = <<>>

LEMMA PairType ==
    ASSUME NEW acc \in Stacks, NEW i \in Nat
    PROVE  Pair(acc, i) \in Stacks
<1>1. acc.open \in Seq(Nat) /\ acc.ranges \in SUBSET (Nat \X Nat)
    BY DEF Stacks
<1>2. CASE log[i] = "delegate"
    <2>1. Append(acc.open, i) \in Seq(Nat)
        BY <1>1
    <2>2. Pair(acc, i) = [acc EXCEPT !.open = Append(acc.open, i)]
        BY <1>2 DEF Pair
    <2> QED
        BY <2>1, <2>2 DEF Stacks
<1>3. CASE log[i] = "result" /\ acc.open # <<>>
    <2>1. Front(acc.open) \in Seq(Nat) /\ Last(acc.open) \in Nat
        <3>1. Len(acc.open) \in Nat /\ Len(acc.open) >= 1
            BY <1>1, <1>3
        <3> QED
            BY <1>1, <3>1 DEF Front, Last
    <2>2. Pair(acc, i) = [open |-> Front(acc.open),
                          ranges |-> acc.ranges \cup {<<Last(acc.open), i>>}]
        BY <1>3 DEF Pair
    <2>3. <<Last(acc.open), i>> \in Nat \X Nat
        BY <2>1
    <2>4. acc.ranges \cup {<<Last(acc.open), i>>} \in SUBSET (Nat \X Nat)
        BY <1>1, <2>3
    <2> QED
        BY <2>1, <2>2, <2>4 DEF Stacks
<1>4. CASE log[i] # "delegate" /\ ~(log[i] = "result" /\ acc.open # <<>>)
    BY <1>4 DEF Pair
<1> QED
    BY <1>2, <1>3, <1>4

LEMMA ScanStep ==
    ASSUME LogInv, NEW from \in Nat \ {0}, NEW n \in Nat, n >= from - 1,
           NEW acc, Scanned(acc, n, from),
           NEW i \in Kept(from), n < i, \A j \in n + 1..i - 1 : log[j] = "dropped"
    PROVE  Scanned(Pair(acc, i), i, from)
<1>1. /\ Len(log) \in Nat /\ i \in 1..Len(log) /\ i >= from
      /\ log[i] \in {"kept", "delegate", "result"}
    BY DEF LogInv, Kept, Kinds
<1>2. /\ acc \in Stacks /\ acc.open \in Seq(Nat)
      /\ acc.ranges = {r \in Ranges(from) : r[2] <= n}
      /\ \A a \in from..n : log[a] = "delegate" /\ Calm(a, n + 1)
            => acc.open # <<>> /\ Last(acc.open) = a
      /\ (\A a \in from..n : log[a] # "delegate") => acc.open = <<>>
    BY DEF Scanned, Stacks
<1>3. PICK new : new = Pair(acc, i)
    OBVIOUS
<1>4. new \in Stacks
    BY <1>1, <1>2, <1>3, PairType
<1>5. \A a \in from..i : a \in from..n \/ a = i \/ log[a] = "dropped"
    BY <1>1
<1>6. ASSUME NEW a \in from..i, log[a] = "delegate", Calm(a, i + 1), a # i
      PROVE  a \in from..n /\ Calm(a, n + 1)
    BY <1>1, <1>5, <1>6 DEF Calm
<1>7. ASSUME NEW r \in Ranges(from), r[2] <= i
      PROVE  r[2] <= n \/ (r[2] = i /\ log[i] = "result")
    <2>1. r[2] \in 1..Len(log) /\ log[r[2]] = "result"
        BY DEF Ranges
    <2>2. r[2] \notin n + 1..i - 1
        BY <2>1
    <2> QED
        BY <1>1, <1>7, <2>1, <2>2
<1>8. CASE log[i] = "delegate"
    <2>1. new = [acc EXCEPT !.open = Append(acc.open, i)]
        BY <1>3, <1>8 DEF Pair
    <2>2. new.ranges = acc.ranges /\ new.open = Append(acc.open, i)
        BY <1>2, <2>1 DEF Stacks
    <2>3. new.open # <<>> /\ Last(new.open) = i
        <3>1. Len(new.open) = Len(acc.open) + 1 /\ new.open[Len(acc.open) + 1] = i
            BY <1>2, <2>2
        <3>2. Len(acc.open) \in Nat
            BY <1>2
        <3> QED
            BY <3>1, <3>2 DEF Last
    <2>4. {r \in Ranges(from) : r[2] <= i} = {r \in Ranges(from) : r[2] <= n}
        <3>1. \A r \in Ranges(from) : r[2] \in Nat
            BY DEF Ranges
        <3> QED
            BY <1>1, <1>7, <1>8, <3>1
    <2>5. ASSUME NEW a \in from..i, log[a] = "delegate", Calm(a, i + 1) PROVE a = i
        <3> SUFFICES ASSUME a # i PROVE FALSE
            OBVIOUS
        <3>1. i \in (a + 1)..((i + 1) - 1)
            BY <1>1
        <3> QED
            BY <1>8, <2>5, <3>1 DEF Calm
    <2>6. i \in from..i
        BY <1>1
    <2> QED
        BY <1>2, <1>3, <1>4, <1>8, <2>2, <2>3, <2>4, <2>5, <2>6 DEF Scanned
<1>9. CASE log[i] = "result"
    <2>1. PICK a \in 1..(i - 1) : log[a] = "delegate" /\ Calm(a, i)
        BY <1>1, <1>9 DEF LogInv
    <2>2. ASSUME NEW r \in Ranges(from), r[2] = i PROVE r[1] = a
        <3>1. /\ r[1] \in from..Len(log) /\ r[1] < i
              /\ log[r[1]] = "delegate" /\ Calm(r[1], i)
            BY <2>2 DEF Ranges
        <3>2. ~(r[1] < a)
            BY <1>1, <2>1, <3>1 DEF Calm
        <3>3. ~(a < r[1])
            BY <1>1, <2>1, <3>1 DEF Calm
        <3> QED
            BY <1>1, <2>1, <3>1, <3>2, <3>3
    <2>3. ASSUME NEW b \in from..i, log[b] = "delegate", Calm(b, i + 1) PROVE FALSE
        <3>1. b # i
            BY <1>9, <2>3
        <3>2. i \in (b + 1)..((i + 1) - 1)
            BY <1>1, <3>1
        <3> QED
            BY <1>9, <2>3, <3>2 DEF Calm
    <2>4. \A r \in Ranges(from) : r[2] \in Nat
        BY DEF Ranges
    <2>5. CASE a >= from
        <3>1. a \in from..n /\ Calm(a, n + 1)
            BY <1>1, <2>1, <2>5 DEF Calm
        <3>2. acc.open # <<>> /\ Last(acc.open) = a
            BY <1>2, <2>1, <3>1
        <3>3. new = [open |-> Front(acc.open), ranges |-> acc.ranges \cup {<<a, i>>}]
            BY <1>3, <1>9, <3>2 DEF Pair
        <3>4. <<a, i>> \in Ranges(from)
            BY <1>1, <1>9, <2>1, <2>5 DEF Ranges
        <3>5. new.ranges = {r \in Ranges(from) : r[2] <= i}
            <4>1. \A r \in Ranges(from) : r = <<r[1], r[2]>>
                BY DEF Ranges
            <4>2. \A r \in Ranges(from) : r[2] = i => r = <<a, i>>
                BY <2>2, <4>1
            <4>3. \A r \in acc.ranges \cup {<<a, i>>} : r \in Ranges(from) /\ r[2] <= i
                <5>1. \A r \in acc.ranges : r \in Ranges(from) /\ r[2] <= i
                    BY <1>1, <1>2, <2>4
                <5>2. <<a, i>>[2] <= i
                    BY <1>1
                <5> QED
                    BY <3>4, <5>1, <5>2
            <4>4. \A r \in Ranges(from) : r[2] <= i => r \in acc.ranges \cup {<<a, i>>}
                BY <1>2, <1>7, <4>2
            <4> QED
                BY <3>3, <4>3, <4>4
        <3>6. a \in from..i
            BY <1>1, <2>5
        <3> QED
            BY <1>3, <1>4, <2>1, <2>3, <3>5, <3>6 DEF Scanned
    <2>6. CASE ~(a >= from)
        <3>1. \A b \in from..i : log[b] # "delegate"
            <4>1. ASSUME NEW b \in from..i, b # i PROVE b \in (a + 1)..(i - 1)
                BY <1>1, <2>6, <4>1
            <4> QED
                BY <1>9, <2>1, <4>1 DEF Calm
        <3>2. acc.open = <<>>
            BY <1>1, <1>2, <3>1
        <3>3. new = acc
            BY <1>3, <1>9, <3>2 DEF Pair
        <3>4. {r \in Ranges(from) : r[2] <= i} = {r \in Ranges(from) : r[2] <= n}
            <4>1. \A r \in Ranges(from) : r[2] # i
                BY <1>1, <2>2, <2>6 DEF Ranges
            <4> QED
                BY <1>1, <1>7, <2>4, <4>1
        <3> QED
            BY <1>2, <1>3, <3>1, <3>2, <3>3, <3>4 DEF Scanned
    <2> QED
        BY <2>5, <2>6
<1>10. CASE log[i] = "kept"
    <2>1. new = acc
        BY <1>3, <1>10 DEF Pair
    <2>2. {r \in Ranges(from) : r[2] <= i} = {r \in Ranges(from) : r[2] <= n}
        <3>1. \A r \in Ranges(from) : r[2] \in Nat
            BY DEF Ranges
        <3> QED
            BY <1>1, <1>7, <1>10, <3>1
    <2>3. \A a \in from..i : log[a] = "delegate" /\ Calm(a, i + 1)
              => acc.open # <<>> /\ Last(acc.open) = a
        BY <1>2, <1>6, <1>10
    <2>4. (\A a \in from..i : log[a] # "delegate") => acc.open = <<>>
        BY <1>1, <1>2
    <2> QED
        BY <1>2, <1>3, <2>1, <2>2, <2>3, <2>4 DEF Scanned
<1> QED
    BY <1>1, <1>8, <1>9, <1>10

NoneFound == [open |-> <<>>, ranges |-> {}]

IsScan(f, events, m) ==
    f = [n \in 0..m |-> IF n = 0 THEN [open |-> <<>>, ranges |-> {}]
                        ELSE Pair(f[n - 1], events[n])]

ScanStepOf(events, m) ==
    [x \in (1..m) \X Stacks |-> Pair(x[2], events[x[1]])]

LEMMA ScanExists ==
    ASSUME NEW events \in Seq(Nat)
    PROVE  \E f : IsScan(f, events, Len(events))
<1>1. PICK m \in Nat : m = Len(events)
    OBVIOUS
<1>2. PICK step : step = ScanStepOf(events, m)
    OBVIOUS
<1>3. step \in [(1..m) \X Stacks -> Stacks]
    <2>1. ASSUME NEW x \in (1..m) \X Stacks PROVE Pair(x[2], events[x[1]]) \in Stacks
        <3>1. events[x[1]] \in Nat /\ x[2] \in Stacks
            BY <1>1
        <3> QED
            BY <3>1, PairType
    <2> QED
        BY <1>2, <2>1 DEF ScanStepOf
<1>4. PICK b : b = NoneFound
    OBVIOUS
<1>5. b \in Stacks
    BY <1>4 DEF NoneFound, Stacks
<1>6. PICK f \in [0..m -> Stacks] : Follows(f, step, b, m)
    BY <1>3, <1>5, RecursionExists
<1>7. f[0] = b /\ \A n \in 1..m : f[n] = step[<<n, f[n - 1]>>]
    <2>1. Goes(f, step, b, m)
        BY <1>6, FollowsFacts, Zenon
    <2> QED
        BY <2>1 DEF Goes
<1>8. ASSUME NEW n \in 0..m
      PROVE  f[n] = IF n = 0 THEN NoneFound ELSE Pair(f[n - 1], events[n])
    <2>1. CASE n = 0
        BY <1>4, <1>7, <2>1
    <2>2. CASE n # 0
        <3>1. n \in 1..m /\ n - 1 \in 0..m
            BY <2>2
        <3>2. PICK g \in Stacks : g = f[n - 1]
            BY <3>1
        <3>3. <<n, g>> \in (1..m) \X Stacks
            BY <3>1
        <3>4. step[<<n, g>>] = Pair(g, events[n])
            BY <1>2, <3>3 DEF ScanStepOf
        <3> QED
            BY <1>7, <2>2, <3>1, <3>2, <3>4
    <2> QED
        BY <2>1, <2>2
<1>9. f = [n \in 0..m |-> f[n]]
    OBVIOUS
<1>10. IsScan(f, events, m)
    BY <1>8, <1>9 DEF IsScan, NoneFound
<1> QED
    BY <1>1, <1>10

LEMMA ScanFacts ==
    ASSUME NEW m \in Nat, NEW events, NEW f, IsScan(f, events, m)
    PROVE  f[0] = NoneFound /\ \A n \in 1..m : f[n] = Pair(f[n - 1], events[n])
<1>1. \A n \in 0..m : f[n] = IF n = 0 THEN NoneFound ELSE Pair(f[n - 1], events[n])
    <2> DEFINE g == [n \in 0..m |-> IF n = 0 THEN NoneFound ELSE Pair(f[n - 1], events[n])]
    <2>1. f = g
        BY Zenon DEF IsScan, NoneFound
    <2>2. \A n \in 0..m : g[n] = IF n = 0 THEN NoneFound ELSE Pair(f[n - 1], events[n])
        OBVIOUS
    <2> HIDE DEF g
    <2> QED
        BY <2>1, <2>2
<1>2. 0 \in 0..m /\ \A n \in 1..m : n \in 0..m /\ n # 0
    OBVIOUS
<1> QED
    BY <1>1, <1>2, Zenon

LEMMA NothingScanned ==
    ASSUME LogInv, NEW from \in Nat \ {0}
    PROVE  Scanned(NoneFound, from - 1, from)
<1>1. Len(log) \in Nat
    BY DEF LogInv
<1>2. NoneFound \in Stacks /\ NoneFound.ranges = {} /\ NoneFound.open = <<>>
    BY DEF NoneFound, Stacks
<1>3. {r \in Ranges(from) : r[2] <= from - 1} = {}
    BY <1>1 DEF Ranges
<1>4. \A a \in from..from - 1 : FALSE
    OBVIOUS
<1> QED
    BY <1>2, <1>3, <1>4 DEF Scanned

LEMMA RangesFound ==
    ASSUME LogInv, NEW from \in Nat \ {0}, NEW events, IsList(events, Kept(from))
    PROVE  DelegateRanges(events) = Ranges(from)
<1>1. /\ events \in Seq(Nat) /\ Len(events) \in Nat
      /\ \A i \in 1..Len(events) : events[i] \in Kept(from) /\ events[i] \in Nat
      /\ \A y \in Kept(from) : \E i \in 1..Len(events) : events[i] = y
    BY MemberOf
<1>2. \A i, j \in 1..Len(events) : i < j => events[i] < events[j]
    BY DEF IsList, Ordered
<1>3. PICK m \in Nat : m = Len(events)
    BY <1>1
<1>4. PICK f : f = CHOOSE g : IsScan(g, events, m)
    OBVIOUS
<1>5. IsScan(f, events, m)
    BY <1>1, <1>3, <1>4, ScanExists, Zenon
<1>6. f[0] = NoneFound /\ \A n \in 1..m : f[n] = Pair(f[n - 1], events[n])
    BY <1>5, ScanFacts
<1>7. DelegateRanges(events) = f[m].ranges
    BY <1>3, <1>4, Zenon DEF DelegateRanges, IsScan
<1> DEFINE to == [n \in 0..m |-> IF n = 0 THEN from - 1 ELSE events[n]]
<1>8. /\ to[0] = from - 1
      /\ \A n \in 1..m : to[n] = events[n] /\ to[n] \in Nat /\ to[n] >= from
      /\ \A n \in 0..m : to[n] \in Nat /\ to[n] >= from - 1
    <2>1. \A n \in 1..m : events[n] \in Nat /\ events[n] >= from
        BY <1>1, <1>3 DEF Kept
    <2> QED
        BY <2>1
<1> HIDE DEF to
<1> DEFINE U == {n \in 0..m : Scanned(f[n], to[n], from)}
<1>9. 0 \in U
    BY <1>6, <1>8, NothingScanned
<1>10. ASSUME NEW k \in 0..m - 1, k \in U PROVE k + 1 \in U
    <2>1. PICK n \in 1..m : n = k + 1 /\ n - 1 = k
        OBVIOUS
    <2>2. PICK i : i = events[n]
        OBVIOUS
    <2>3. i \in Kept(from) /\ i \in Nat
        BY <1>1, <1>3, <2>2
    <2>4. PICK q \in Nat : q = to[k] /\ q >= from - 1
        BY <1>8
    <2>5. q < i
        <3>1. CASE k = 0
            BY <1>8, <2>3, <2>4, <3>1 DEF Kept
        <3>2. CASE k # 0
            <4>1. k \in 1..m /\ k < n
                BY <2>1, <3>2
            <4> QED
                BY <1>2, <1>3, <1>8, <2>2, <2>4, <4>1
        <3> QED
            BY <3>1, <3>2
    <2>6. ASSUME NEW j \in q + 1..i - 1, log[j] # "dropped" PROVE FALSE
        <3>1. j \in Kept(from) /\ j \in Nat
            BY <2>3, <2>4, <2>6 DEF Kept
        <3>2. PICK p \in 1..m : events[p] = j
            BY <1>1, <1>3, <3>1
        <3>3. CASE p < n
            <4>1. p \in 1..k /\ k \in 1..m
                BY <2>1, <3>3
            <4>2. p = k \/ p < k
                BY <4>1
            <4>3. q = events[k]
                BY <1>8, <2>4, <4>1
            <4>4. p < k => events[p] < events[k]
                BY <1>2, <1>3, <3>2, <4>1
            <4>5. events[p] <= q
                BY <2>4, <3>1, <3>2, <4>2, <4>3, <4>4
            <4> QED
                BY <2>4, <2>6, <3>1, <3>2, <4>5
        <3>4. CASE p = n
            BY <2>2, <2>3, <2>6, <3>2, <3>4
        <3>5. CASE n < p
            <4>1. i < j
                BY <1>2, <1>3, <2>2, <3>2, <3>5
            <4> QED
                BY <2>3, <2>6, <3>1, <4>1
        <3> QED
            BY <3>3, <3>4, <3>5
    <2>7. Scanned(f[k], q, from)
        BY <1>10, <2>4
    <2>8. Scanned(Pair(f[k], i), i, from)
        BY <2>3, <2>4, <2>5, <2>6, <2>7, ScanStep
    <2>9. f[n] = Pair(f[k], i) /\ to[n] = i /\ n \in 0..m
        BY <1>6, <1>8, <2>1, <2>2
    <2> QED
        BY <2>1, <2>8, <2>9
<1>11. Scanned(f[m], to[m], from)
    <2>1. 0..m \subseteq U
        <3> HIDE DEF U
        <3> QED
            BY <1>9, <1>10, IntervalInduction
    <2>2. m \in U
        BY <2>1
    <2> QED
        BY <2>2
<1>12. ASSUME NEW r \in Ranges(from) PROVE r[2] <= to[m]
    <2>1. r[2] \in Kept(from) /\ r[2] \in Nat
        <3>1. /\ r[1] \in from..Len(log) /\ r[2] \in 1..Len(log)
              /\ r[1] < r[2] /\ log[r[2]] = "result"
            BY DEF Ranges
        <3> QED
            BY <3>1 DEF Kept, LogInv
    <2>2. PICK p \in 1..m : events[p] = r[2]
        BY <1>1, <1>3, <2>1
    <2>3. m \in 1..m /\ (p = m \/ p < m)
        BY <2>2
    <2>4. to[m] = events[m]
        BY <1>8, <2>3
    <2> QED
        BY <1>1, <1>2, <1>3, <2>1, <2>2, <2>3, <2>4
<1>13. f[m].ranges = {r \in Ranges(from) : r[2] <= to[m]}
    BY <1>11 DEF Scanned
<1> QED
    BY <1>7, <1>12, <1>13

-----------------------------------------------------------------------------
(* The delegations do not overlap, and are gone through in their order.    *)

LEMMA RangeFacts ==
    ASSUME LogInv, NEW from \in Nat \ {0}, NEW r \in Ranges(from)
    PROVE  /\ r = <<r[1], r[2]>> /\ r[1] \in Kept(from) /\ r[2] \in Kept(from)
           /\ r[1] \in Nat /\ r[2] \in Nat /\ r[1] < r[2]
           /\ r[1] \in from..Len(log) /\ r[2] \in 1..Len(log)
           /\ log[r[1]] = "delegate" /\ log[r[2]] = "result" /\ Calm(r[1], r[2])
<1>1. /\ r = <<r[1], r[2]>> /\ r[1] \in from..Len(log) /\ r[2] \in 1..Len(log)
      /\ r[1] < r[2] /\ log[r[1]] = "delegate" /\ log[r[2]] = "result"
      /\ Calm(r[1], r[2])
    BY DEF Ranges
<1>2. Len(log) \in Nat
    BY DEF LogInv
<1> QED
    BY <1>1, <1>2 DEF Kept

\* Of two delegations, the one that begins first ends before the other begins.
LEMMA NoOverlap ==
    ASSUME LogInv, NEW from \in Nat \ {0}, NEW r \in Ranges(from), NEW s \in Ranges(from)
    PROVE  /\ r[1] < s[1] => r[2] < s[1]
           /\ r[1] = s[1] => r = s
<1>1. /\ r = <<r[1], r[2]>> /\ r[1] \in Nat /\ r[2] \in Nat /\ r[1] < r[2]
      /\ log[r[1]] = "delegate" /\ log[r[2]] = "result" /\ Calm(r[1], r[2])
    BY RangeFacts
<1>2. /\ s = <<s[1], s[2]>> /\ s[1] \in Nat /\ s[2] \in Nat /\ s[1] < s[2]
      /\ log[s[1]] = "delegate" /\ log[s[2]] = "result" /\ Calm(s[1], s[2])
    BY RangeFacts
<1>3. ASSUME r[1] < s[1], ~(r[2] < s[1]) PROVE FALSE
    <2>1. s[1] # r[2]
        BY <1>1, <1>2
    <2>2. s[1] \in (r[1] + 1)..(r[2] - 1)
        BY <1>1, <1>2, <1>3, <2>1
    <2> QED
        BY <1>1, <1>2, <2>2 DEF Calm
<1>4. ASSUME r[1] = s[1] PROVE r[2] = s[2]
    <2>1. ~(r[2] < s[2])
        <3>1. r[2] < s[2] => r[2] \in (s[1] + 1)..(s[2] - 1)
            BY <1>1, <1>2, <1>4
        <3> QED
            BY <1>1, <1>2, <3>1 DEF Calm
    <2>2. ~(s[2] < r[2])
        <3>1. s[2] < r[2] => s[2] \in (r[1] + 1)..(r[2] - 1)
            BY <1>1, <1>2, <1>4
        <3> QED
            BY <1>1, <1>2, <3>1 DEF Calm
    <2> QED
        BY <1>1, <1>2, <2>1, <2>2
<1> QED
    BY <1>1, <1>2, <1>3, <1>4

\* c are the delegations from an event on, one after the other.
Chain(c, from) ==
    /\ c \in Seq(Ranges(from))
    /\ \A k, l \in 1..Len(c) : k < l => c[k][2] < c[l][1]
    /\ \A r \in Ranges(from) : \E k \in 1..Len(c) : c[k] = r

LEMMA SortedIsChain ==
    ASSUME LogInv, NEW from \in Nat \ {0}
    PROVE  Chain(Sorted(Ranges(from)), from)
<1>1. Len(log) \in Nat /\ DOMAIN log = 1..Len(log)
    BY DEF LogInv
<1>2. PICK B : B = {r[1] : r \in Ranges(from)}
    OBVIOUS
<1>3. B \in SUBSET (1..Len(log))
    BY <1>1, <1>2, RangeFacts
<1>4. PICK starts : starts = Picked(Ids, B)
    OBVIOUS
<1>5. IsList(starts, B)
    BY <1>1, <1>3, <1>4, IdsList
<1>6. /\ Len(starts) \in Nat /\ DOMAIN starts = 1..Len(starts)
      /\ \A i \in 1..Len(starts) : starts[i] \in B
      /\ \A y \in B : \E i \in 1..Len(starts) : starts[i] = y
    BY <1>5, MemberOf
<1>7. PICK m \in Nat : m = Len(starts)
    BY <1>6
<1>8. PICK c : c = Sorted(Ranges(from))
    OBVIOUS
<1>9. c = [k \in 1..m |-> CHOOSE r \in Ranges(from) : r[1] = starts[k]]
    BY <1>2, <1>4, <1>6, <1>7, <1>8 DEF Sorted
<1>10. ASSUME NEW k \in 1..m PROVE c[k] \in Ranges(from) /\ c[k][1] = starts[k]
    <2>1. starts[k] \in B
        BY <1>6, <1>7
    <2>2. \E r \in Ranges(from) : r[1] = starts[k]
        BY <1>2, <2>1
    <2>3. c[k] = CHOOSE r \in Ranges(from) : r[1] = starts[k]
        BY <1>9
    <2> QED
        BY <2>2, <2>3
<1>11. c \in Seq(Ranges(from)) /\ Len(c) = m
    BY <1>9, <1>10
<1>12. ASSUME NEW k \in 1..m, NEW l \in 1..m, k < l PROVE c[k][2] < c[l][1]
    <2>1. starts[k] < starts[l]
        BY <1>5, <1>7, <1>12 DEF IsList, Ordered
    <2>2. c[k][1] < c[l][1] /\ c[k] \in Ranges(from) /\ c[l] \in Ranges(from)
        BY <1>10, <2>1
    <2> QED
        BY <2>2, NoOverlap
<1>13. ASSUME NEW r \in Ranges(from) PROVE \E k \in 1..m : c[k] = r
    <2>1. PICK k \in 1..m : starts[k] = r[1]
        BY <1>2, <1>6, <1>7
    <2>2. c[k] \in Ranges(from) /\ c[k][1] = r[1]
        BY <1>10, <2>1
    <2> QED
        BY <2>2, NoOverlap
<1> QED
    BY <1>8, <1>11, <1>12, <1>13 DEF Chain

-----------------------------------------------------------------------------
(* What remains without the delegates' events.                             *)

Inside(i, from) == \E r \in Ranges(from) : r[1] < i /\ i < r[2]

\* The loop over the ranges has come to event n.
Collapsed(acc, n, from) ==
    /\ IsList(acc.out, {i \in Kept(from) : i <= n /\ ~Inside(i, from)})
    /\ IsList(acc.rest, {i \in Kept(from) : i > n})

LEMMA CollapseStep ==
    ASSUME LogInv, NEW from \in Nat \ {0}, NEW events, IsList(events, Kept(from)),
           NEW n \in Nat, NEW acc, Collapsed(acc, n, from),
           NEW r \in Ranges(from), n < r[1],
           \A s \in Ranges(from) : s[2] <= n \/ r[1] <= s[1]
    PROVE  Collapsed(Collapse(acc, events, r), r[2], from)
<1>1. /\ r[1] \in Kept(from) /\ r[2] \in Kept(from)
      /\ r[1] \in Nat /\ r[2] \in Nat /\ r[1] < r[2]
      /\ log[r[1]] = "delegate" /\ log[r[2]] = "result" /\ Calm(r[1], r[2])
    BY RangeFacts
<1>2. \A s \in Ranges(from) : s[1] \in Nat /\ s[2] \in Nat /\ s[1] < s[2] /\ Calm(s[1], s[2])
    BY RangeFacts
<1>3. \A i \in Kept(from) : i \in Nat
    BY DEF Kept
<1> DEFINE Out == {i \in Kept(from) : i <= n /\ ~Inside(i, from)}
           Rest == {i \in Kept(from) : i > n}
           Before == {i \in Nat : i < r[1]}
           Ends == {r[1], r[2]}
           Behind == {i \in Nat : i > r[2]}
<1>4. IsList(acc.out, Out) /\ IsList(acc.rest, Rest)
    BY DEF Collapsed
<1> DEFINE before == Picked(acc.rest, {k \in DOMAIN acc.rest : acc.rest[k] < r[1]})
           ends == Picked(events, {k \in DOMAIN events : events[k] \in {r[1], r[2]}})
<1>5. IsList(before, Rest \cap Before)
    <2>1. \A k \in DOMAIN acc.rest : acc.rest[k] \in Nat
        BY <1>4 DEF IsList
    <2>2. {k \in DOMAIN acc.rest : acc.rest[k] < r[1]}
            = {k \in DOMAIN acc.rest : acc.rest[k] \in Before}
        BY <2>1
    <2> QED
        BY <1>4, <2>2, FilteredList
<1>6. IsList(ends, Ends)
    <2>1. IsList(ends, Kept(from) \cap Ends)
        BY FilteredList
    <2>2. Kept(from) \cap Ends = Ends
        BY <1>1
    <2> QED
        BY <2>1, <2>2
<1>7. IsList(After(events, r), {i \in Kept(from) : i > r[2]})
    <2>1. \A k \in DOMAIN events : events[k] \in Nat
        BY DEF IsList
    <2>2. {k \in DOMAIN events : events[k] > r[2]}
            = {k \in DOMAIN events : events[k] \in Behind}
        BY <2>1
    <2>3. IsList(After(events, r), Kept(from) \cap Behind)
        BY <2>2, FilteredList DEF After
    <2>4. Kept(from) \cap Behind = {i \in Kept(from) : i > r[2]}
        BY <1>3
    <2> QED
        BY <2>3, <2>4
<1> HIDE DEF before, ends
<1>8. IsList(acc.out \o before, Out \cup (Rest \cap Before))
    <2>1. \A x \in Out : \A y \in Rest \cap Before : x < y
        BY <1>3
    <2> HIDE DEF Out, Rest, Before
    <2> QED
        BY <1>4, <1>5, <2>1, JoinedLists
<1>9. IsList((acc.out \o before) \o ends, (Out \cup (Rest \cap Before)) \cup Ends)
    <2>1. \A x \in Out \cup (Rest \cap Before) : \A y \in Ends : x < y
        BY <1>1, <1>3
    <2> HIDE DEF Out, Rest, Before, Ends
    <2> QED
        BY <1>6, <1>8, <2>1, JoinedLists
<1>10. (Out \cup (Rest \cap Before)) \cup Ends
         = {i \in Kept(from) : i <= r[2] /\ ~Inside(i, from)}
    <2>1. ASSUME NEW i \in Kept(from), n < i, i <= r[1] PROVE ~Inside(i, from)
        BY <1>1, <1>2, <1>3, <2>1 DEF Inside
    <2>2. ~Inside(r[2], from)
        <3> SUFFICES ASSUME NEW s \in Ranges(from), s[1] < r[2], r[2] < s[2] PROVE FALSE
            BY DEF Inside
        <3>1. r[2] \in (s[1] + 1)..(s[2] - 1)
            BY <1>1, <1>2
        <3> QED
            BY <1>1, <1>2, <3>1 DEF Calm
    <2>3. ASSUME NEW i \in Kept(from), r[1] < i, i < r[2] PROVE Inside(i, from)
        BY <2>3 DEF Inside
    <2>4. ASSUME NEW i \in Kept(from), i <= r[2], ~Inside(i, from)
          PROVE  i \in (Out \cup (Rest \cap Before)) \cup Ends
        BY <1>1, <1>3, <2>3, <2>4
    <2>5. ASSUME NEW i \in (Out \cup (Rest \cap Before)) \cup Ends
          PROVE  i \in Kept(from) /\ i <= r[2] /\ ~Inside(i, from)
        <3>1. CASE i \in Out
            BY <1>1, <1>3, <3>1
        <3>2. CASE i \in Rest \cap Before
            BY <1>1, <1>3, <2>1, <3>2
        <3>3. CASE i = r[1]
            BY <1>1, <2>1, <3>3
        <3>4. CASE i = r[2]
            BY <1>1, <2>2, <3>4
        <3> QED
            BY <2>5, <3>1, <3>2, <3>3, <3>4
    <2> QED
        BY <2>4, <2>5
<1>11. PICK new : new = Collapse(acc, events, r)
    OBVIOUS
<1>12. new.out = (acc.out \o before) \o ends /\ new.rest = After(events, r)
    BY <1>11 DEF Collapse, before, ends
<1> QED
    BY <1>7, <1>9, <1>10, <1>11, <1>12 DEF Collapsed


Halves == [out : Seq(Nat), rest : Seq(Nat)]

NothingGone(events) == [out |-> <<>>, rest |-> events]

LEMMA CollapseType ==
    ASSUME NEW acc \in Halves, NEW events, NEW S, IsList(events, S), NEW range
    PROVE  Collapse(acc, events, range) \in Halves
<1>1. acc.out \in Seq(Nat) /\ acc.rest \in Seq(Nat) /\ events \in Seq(Nat)
    BY MemberOf DEF Halves
<1>2. PICK new : new = Collapse(acc, events, range)
    OBVIOUS
<1>3. PICK p : p = Picked(acc.rest, {k \in DOMAIN acc.rest : acc.rest[k] < range[1]})
    OBVIOUS
<1>4. PICK q : q = Picked(events, {k \in DOMAIN events : events[k] \in {range[1], range[2]}})
    OBVIOUS
<1>5. p \in Seq(Nat)
    BY <1>1, <1>3, PickedType
<1>6. q \in Seq(Nat)
    BY <1>1, <1>4, PickedType
<1>7. After(events, range) \in Seq(Nat)
    BY <1>1, PickedType DEF After
<1>8. new = [out |-> (acc.out \o p) \o q, rest |-> After(events, range)]
    BY <1>2, <1>3, <1>4 DEF Collapse
<1>9. (acc.out \o p) \o q \in Seq(Nat)
    BY <1>1, <1>5, <1>6
<1> QED
    BY <1>2, <1>7, <1>8, <1>9 DEF Halves

IsCollapsing(f, events, c, m) ==
    f = [k \in 0..m |-> IF k = 0 THEN [out |-> <<>>, rest |-> events]
                        ELSE Collapse(f[k - 1], events, c[k])]

CollapseStepOf(events, c, m) ==
    [x \in (1..m) \X Halves |-> Collapse(x[2], events, c[x[1]])]

LEMMA CollapsingExists ==
    ASSUME NEW events, NEW S, IsList(events, S), NEW c, NEW m \in Nat
    PROVE  \E f : IsCollapsing(f, events, c, m)
<1>1. events \in Seq(Nat)
    BY MemberOf
<1>2. PICK step : step = CollapseStepOf(events, c, m)
    OBVIOUS
<1>3. step \in [(1..m) \X Halves -> Halves]
    <2>1. ASSUME NEW x \in (1..m) \X Halves PROVE Collapse(x[2], events, c[x[1]]) \in Halves
        <3>1. x[2] \in Halves
            OBVIOUS
        <3> QED
            BY <3>1, CollapseType
    <2> QED
        BY <1>2, <2>1 DEF CollapseStepOf
<1>4. PICK b : b = NothingGone(events)
    OBVIOUS
<1>5. b \in Halves
    BY <1>1, <1>4 DEF NothingGone, Halves
<1>6. PICK f \in [0..m -> Halves] : Follows(f, step, b, m)
    BY <1>3, <1>5, RecursionExists
<1>7. f[0] = b /\ \A n \in 1..m : f[n] = step[<<n, f[n - 1]>>]
    <2>1. Goes(f, step, b, m)
        BY <1>6, FollowsFacts, Zenon
    <2> QED
        BY <2>1 DEF Goes
<1>8. ASSUME NEW n \in 0..m
      PROVE  f[n] = IF n = 0 THEN NothingGone(events) ELSE Collapse(f[n - 1], events, c[n])
    <2>1. CASE n = 0
        BY <1>4, <1>7, <2>1
    <2>2. CASE n # 0
        <3>1. n \in 1..m /\ n - 1 \in 0..m
            BY <2>2
        <3>2. PICK g \in Halves : g = f[n - 1]
            BY <3>1
        <3>3. <<n, g>> \in (1..m) \X Halves
            BY <3>1
        <3>4. step[<<n, g>>] = Collapse(g, events, c[n])
            BY <1>2, <3>3 DEF CollapseStepOf
        <3> QED
            BY <1>7, <2>2, <3>1, <3>2, <3>4
    <2> QED
        BY <2>1, <2>2
<1>9. f = [n \in 0..m |-> f[n]]
    OBVIOUS
<1>10. IsCollapsing(f, events, c, m)
    BY <1>8, <1>9 DEF IsCollapsing, NothingGone
<1> QED
    BY <1>10

LEMMA CollapsingFacts ==
    ASSUME NEW m \in Nat, NEW events, NEW c, NEW f, IsCollapsing(f, events, c, m)
    PROVE  /\ f[0] = NothingGone(events)
           /\ \A n \in 1..m : f[n] = Collapse(f[n - 1], events, c[n])
<1>1. \A n \in 0..m : f[n] = IF n = 0 THEN NothingGone(events)
                             ELSE Collapse(f[n - 1], events, c[n])
    <2> DEFINE g == [n \in 0..m |-> IF n = 0 THEN NothingGone(events)
                                    ELSE Collapse(f[n - 1], events, c[n])]
    <2>1. f = g
        BY Zenon DEF IsCollapsing, NothingGone
    <2>2. \A n \in 0..m : g[n] = IF n = 0 THEN NothingGone(events)
                                 ELSE Collapse(f[n - 1], events, c[n])
        OBVIOUS
    <2> HIDE DEF g
    <2> QED
        BY <2>1, <2>2
<1>2. 0 \in 0..m /\ \A n \in 1..m : n \in 0..m /\ n # 0
    OBVIOUS
<1> QED
    BY <1>1, <1>2, Zenon

\* What is left of the events that a list from the store yields.
LEMMA FilteredIsList ==
    ASSUME LogInv, NEW from \in Nat \ {0}, NEW events, IsList(events, Kept(from))
    PROVE  IsList(Filtered(events), {i \in Kept(from) : ~Inside(i, from)})
<1>1. PICK c : c = Sorted(DelegateRanges(events))
    OBVIOUS
<1>2. Chain(c, from)
    <2>1. DelegateRanges(events) = Ranges(from)
        BY RangesFound
    <2> QED
        BY <1>1, <2>1, SortedIsChain
<1>3. PICK m \in Nat : m = Len(c)
    BY <1>2 DEF Chain
<1>4. /\ \A k \in 1..m : c[k] \in Ranges(from)
      /\ \A k, l \in 1..m : k < l => c[k][2] < c[l][1]
      /\ \A r \in Ranges(from) : \E k \in 1..m : c[k] = r
    BY <1>2, <1>3 DEF Chain
<1>5. PICK f : f = CHOOSE g : IsCollapsing(g, events, c, m)
    OBVIOUS
<1>6. IsCollapsing(f, events, c, m)
    BY <1>5, CollapsingExists, Zenon
<1>7. /\ f[0] = NothingGone(events)
      /\ \A n \in 1..m : f[n] = Collapse(f[n - 1], events, c[n])
    BY <1>6, CollapsingFacts
<1>8. Filtered(events) = f[m].out \o f[m].rest
    BY <1>1, <1>3, <1>5, Zenon DEF Filtered, IsCollapsing
<1> DEFINE to == [k \in 0..m |-> IF k = 0 THEN 0 ELSE c[k][2]]
<1>9. to[0] = 0 /\ \A k \in 1..m : to[k] = c[k][2]
    OBVIOUS
<1>10. ASSUME NEW k \in 0..m PROVE to[k] \in Nat
    <2>1. CASE k = 0
        BY <1>9, <2>1
    <2>2. CASE k # 0
        <3>1. k \in 1..m
            BY <2>2
        <3>2. c[k] \in Ranges(from)
            BY <1>4, <3>1
        <3>3. c[k][2] \in Nat
            BY <3>2, RangeFacts
        <3> QED
            BY <1>9, <3>1, <3>3
    <2> QED
        BY <2>1, <2>2
<1> HIDE DEF to
<1> DEFINE U == {k \in 0..m : Collapsed(f[k], to[k], from)}
<1>11. 0 \in U
    <2>1. f[0].out = <<>> /\ f[0].rest = events
        BY <1>7 DEF NothingGone
    <2>2. \A i \in Kept(from) : i \in Nat /\ i > 0
        BY DEF Kept
    <2>3. {i \in Kept(from) : i <= 0 /\ ~Inside(i, from)} = {}
        BY <2>2
    <2>4. {i \in Kept(from) : i > 0} = Kept(from)
        BY <2>2
    <2>5. Collapsed(f[0], 0, from)
        BY <2>1, <2>3, <2>4, EmptyList DEF Collapsed
    <2> QED
        BY <1>9, <2>5
<1>12. ASSUME NEW k \in 0..m - 1, k \in U PROVE k + 1 \in U
    <2>1. PICK n \in 1..m : n = k + 1 /\ n - 1 = k
        OBVIOUS
    <2>2. PICK q \in Nat : q = to[k]
        BY <1>10
    <2>3. PICK r \in Ranges(from) : r = c[n]
        BY <1>4
    <2>4. r[1] \in Nat /\ r[1] > 0
        BY RangeFacts
    <2>5. q < r[1]
        <3>1. CASE k = 0
            BY <1>9, <2>2, <2>4, <3>1
        <3>2. CASE k # 0
            <4>1. k \in 1..m /\ k < n
                BY <2>1, <3>2
            <4> QED
                BY <1>4, <1>9, <2>2, <2>3, <4>1
        <3> QED
            BY <3>1, <3>2
    <2>6. ASSUME NEW s \in Ranges(from) PROVE s[2] <= q \/ r[1] <= s[1]
        <3>1. PICK l \in 1..m : c[l] = s
            BY <1>4
        <3>2. s[1] \in Nat /\ s[2] \in Nat /\ r[2] \in Nat /\ r[1] < r[2]
            BY RangeFacts
        <3>3. CASE l < n
            <4>1. k \in 1..m /\ (l = k \/ l < k)
                BY <2>1, <3>3
            <4>2. q = c[k][2] /\ c[k] \in Ranges(from)
                BY <1>4, <1>9, <2>2, <4>1
            <4>3. c[k][1] \in Nat /\ c[k][1] < c[k][2] /\ c[k][2] \in Nat
                BY <4>2, RangeFacts
            <4>4. l < k => s[2] < c[k][1]
                BY <1>4, <3>1, <4>1
            <4> QED
                BY <3>1, <3>2, <4>1, <4>2, <4>3, <4>4
        <3>4. CASE l = n
            BY <2>3, <2>4, <3>1, <3>4
        <3>5. CASE n < l
            <4>1. r[2] < s[1]
                BY <1>4, <2>3, <3>1, <3>5
            <4> QED
                BY <2>4, <3>2, <4>1
        <3> QED
            BY <3>3, <3>4, <3>5
    <2>7. Collapsed(f[k], q, from)
        BY <1>12, <2>2
    <2>8. Collapsed(Collapse(f[k], events, r), r[2], from)
        BY <2>5, <2>6, <2>7, CollapseStep
    <2>9. f[n] = Collapse(f[k], events, r) /\ to[n] = r[2] /\ n \in 0..m
        BY <1>7, <1>9, <2>1, <2>3
    <2> QED
        BY <2>1, <2>8, <2>9
<1>13. Collapsed(f[m], to[m], from)
    <2>1. 0..m \subseteq U
        <3> HIDE DEF U
        <3> QED
            BY <1>11, <1>12, IntervalInduction
    <2>2. m \in U
        BY <2>1
    <2> QED
        BY <2>2
<1>14. PICK q \in Nat : q = to[m]
    BY <1>10
<1>15. ASSUME NEW r \in Ranges(from) PROVE r[2] <= q /\ r[2] \in Nat
    <2>1. PICK k \in 1..m : c[k] = r
        BY <1>4
    <2>2. m \in 1..m /\ (k = m \/ k < m)
        BY <2>1
    <2>3. q = c[m][2] /\ c[m] \in Ranges(from)
        BY <1>4, <1>9, <1>14, <2>2
    <2>4. c[m][1] \in Nat /\ c[m][1] < c[m][2] /\ c[m][2] \in Nat /\ r[2] \in Nat
        BY <2>3, RangeFacts
    <2>5. k < m => r[2] < c[m][1]
        BY <1>4, <2>1, <2>2
    <2> QED
        BY <2>1, <2>2, <2>3, <2>4, <2>5
<1> DEFINE Out == {i \in Kept(from) : i <= q /\ ~Inside(i, from)}
           Rest == {i \in Kept(from) : i > q}
<1>16. IsList(f[m].out, Out) /\ IsList(f[m].rest, Rest)
    BY <1>13, <1>14 DEF Collapsed
<1>17. \A i \in Kept(from) : i \in Nat
    BY DEF Kept
<1>18. \A x \in Out : \A y \in Rest : x < y
    BY <1>17
<1>19. Out \cup Rest = {i \in Kept(from) : ~Inside(i, from)}
    <2>1. ASSUME NEW i \in Rest PROVE ~Inside(i, from)
        BY <1>15, <1>17 DEF Inside
    <2> QED
        BY <1>17, <2>1
<1>20. IsList(f[m].out \o f[m].rest, Out \cup Rest)
    <2> HIDE DEF Out, Rest
    <2> QED
        BY <1>16, <1>18, JoinedLists
<1> QED
    BY <1>8, <1>19, <1>20

\* What the store yields is the list of the events it keeps from there on.
LEMMA StoredIsList ==
    ASSUME LogInv, NEW from \in Nat \ {0}
    PROVE  IsList(Stored(from), Kept(from))
<1>1. Len(log) \in Nat /\ DOMAIN log = 1..Len(log)
    BY DEF LogInv
<1>2. {i \in DOMAIN log : i >= from /\ log[i] # "dropped"} = Kept(from)
    BY <1>1 DEF Kept
<1>3. Kept(from) \in SUBSET (1..Len(log))
    BY DEF Kept
<1>4. IsList(Picked(Ids, Kept(from)), Kept(from))
    BY <1>1, <1>3, IdsList
<1> QED
    BY <1>2, <1>4 DEF Stored

\* Where the next restart begins is an event, or where this one began.
LEMMA NewStartType ==
    ASSUME LogInv, NEW from \in Nat \ {0}
    PROVE  NewStart(from) \in Nat \ {0}
<1>1. DelegateRanges(Stored(from)) = Ranges(from)
    BY StoredIsList, RangesFound
<1>2. CASE Ranges(from) = {}
    BY <1>1, <1>2 DEF NewStart
<1>3. CASE Ranges(from) # {}
    <2>1. PICK c : c = Sorted(Ranges(from))
        OBVIOUS
    <2>2. Chain(c, from)
        BY <2>1, SortedIsChain
    <2>3. PICK r \in Ranges(from) : TRUE
        BY <1>3
    <2>4. Len(c) \in Nat /\ Len(c) >= 1 /\ c[Len(c)] \in Ranges(from)
        <3>1. PICK k \in 1..Len(c) : c[k] = r
            BY <2>2 DEF Chain
        <3> QED
            BY <2>2, <3>1 DEF Chain
    <2>5. Last(c) = c[Len(c)]
        BY DEF Last
    <2>6. c[Len(c)][1] \in Nat \ {0}
        BY <2>4, RangeFacts
    <2>7. NewStart(from) = Last(c)[1]
        BY <1>1, <1>3, <2>1 DEF NewStart
    <2> QED
        BY <2>5, <2>6, <2>7
<1> QED
    BY <1>2, <1>3

-----------------------------------------------------------------------------
(* The inductive invariant.                                                *)

\* The active delegate is the last delegation that began, and has not ended.
DelegateInv ==
    \/ delegate = 0
    \/ /\ delegate \in 1..Len(log) /\ log[delegate] = "delegate"
       /\ Calm(delegate, Len(log) + 1)

\* Nor does a delegation begin or end after the one that the root has yet to hear of.
WaitingInv ==
    \A a \in unheard : log[a] = "delegate" => delegate = 0 /\ Calm(a, Len(log) + 1)

\* What was published before a result and was not heard then is late.
LateInv ==
    /\ unheard \subseteq 1..Len(log) /\ late \subseteq 1..Len(log)
    /\ \A i \in unheard : Inside(i, 1) => i \in late
    /\ \A i \in late : \E o \in (i + 1)..Len(log) : log[o] = "result"

\* As long as nothing is overtaken, what was heard comes before what was not.
PrefixInv ==
    /\ overtaken \in BOOLEAN
    /\ ~overtaken => \A i \in (1..Len(log)) \ unheard : \A j \in unheard : i < j
    /\ ~overtaken => delegate \notin unheard

HistoryListed ==
    /\ history \in Seq(1..Len(log))
    /\ \A i \in 1..Len(history) : history[i] \notin unheard
    /\ \A i, j \in 1..Len(history) : i # j => history[i] # history[j]
    /\ ~overtaken => Ordered(history)

Starts ==
    /\ startId \in Nat \ {0} /\ savedStart \in Nat \ {0} /\ restarts \in 0..MaxRestarts
    /\ restarts = 0 => startId = 1 /\ savedStart = 1

\* The events that the root has heard as its own and the filter includes.
Own == {i \in (1..Len(log)) \ unheard :
           log[i] # "dropped" /\ (OfDelegate(i) => i \in late)}

\* The first restart reads the log from its beginning, and a later one need not.
Complete == restarts <= 1 /\ ~overtaken => IsList(history, Own)

IInv == /\ LogInv /\ DelegateInv /\ WaitingInv /\ LateInv /\ PrefixInv
        /\ HistoryListed /\ Starts /\ Complete

LEMMA InitIInv == Init => IInv
<1> SUFFICES ASSUME Init PROVE IInv
    OBVIOUS
<1>1. log = <<>> /\ history = <<>> /\ delegate = 0 /\ unheard = {} /\ late = {} /\ overtaken = FALSE
    BY DEF Init
<1>2. log \in Seq(Kinds) /\ Len(log) = 0 /\ history \in Seq(1..Len(log)) /\ Len(history) = 0
    BY <1>1
<1>3. LogInv /\ DelegateInv /\ WaitingInv /\ LateInv
    BY <1>1, <1>2 DEF LogInv, DelegateInv, WaitingInv, LateInv
<1>4. PrefixInv /\ HistoryListed
    <2>1. overtaken \in BOOLEAN /\ delegate \notin unheard /\ \A j \in unheard : FALSE
        BY <1>1, Zenon
    <2>2. PrefixInv
        BY <2>1, Zenon DEF PrefixInv
    <2>3. \A i \in 1..Len(history) : FALSE
        BY <1>2
    <2>4. Ordered(history)
        BY <2>3 DEF Ordered
    <2>5. HistoryListed
        BY <1>2, <2>3, <2>4 DEF HistoryListed
    <2> QED
        BY <2>2, <2>5
<1>5. Starts
    BY ConstantsAssumption DEF Init, Starts
<1>6. Complete
    <2>1. Own = {}
        BY <1>2 DEF Own
    <2> QED
        BY <1>1, <2>1, EmptyList DEF Complete
<1> QED
    BY <1>3, <1>4, <1>5, <1>6 DEF IInv

\* What an event at the end of the log leaves as it was.
LEMMA LogGrows ==
    ASSUME LogInv, NEW kind \in Kinds, log' = Append(log, kind)
    PROVE  /\ log' \in Seq(Kinds) /\ Len(log) \in Nat /\ Len(log') = Len(log) + 1
           /\ log'[Len(log) + 1] = kind
           /\ \A i \in 1..Len(log) : log'[i] = log[i]
           /\ \A a \in Nat : \A b \in 1..Len(log) + 1 : Calm(a, b)' <=> Calm(a, b)
<1>1. log \in Seq(Kinds) /\ Len(log) \in Nat
    BY DEF LogInv
<1>2. /\ log' \in Seq(Kinds) /\ Len(log') = Len(log) + 1
      /\ log'[Len(log) + 1] = kind /\ \A i \in 1..Len(log) : log'[i] = log[i]
    BY <1>1
<1>3. ASSUME NEW a \in Nat, NEW b \in 1..Len(log) + 1 PROVE Calm(a, b)' <=> Calm(a, b)
    <2>1. \A j \in (a + 1)..(b - 1) : log'[j] = log[j]
        BY <1>1, <1>2
    <2> QED
        BY <2>1 DEF Calm
<1> QED
    BY <1>1, <1>2, <1>3

LEMMA LogInvGrows ==
    ASSUME LogInv, NEW kind \in Kinds, log' = Append(log, kind),
           kind = "result" => DelegateInv /\ delegate # 0
    PROVE  LogInv'
<1>1. /\ log' \in Seq(Kinds) /\ Len(log) \in Nat /\ Len(log') = Len(log) + 1
      /\ log'[Len(log) + 1] = kind /\ \A i \in 1..Len(log) : log'[i] = log[i]
      /\ \A a \in Nat : \A b \in 1..Len(log) + 1 : Calm(a, b)' <=> Calm(a, b)
    BY LogGrows
<1>2. ASSUME NEW o \in 1..Len(log'), log'[o] = "result"
      PROVE  \E a \in 1..(o - 1) : log'[a] = "delegate" /\ Calm(a, o)'
    <2>1. CASE o \in 1..Len(log)
        <3>1. PICK a \in 1..(o - 1) : log[a] = "delegate" /\ Calm(a, o)
            BY <1>1, <1>2, <2>1 DEF LogInv
        <3>2. a \in 1..Len(log) /\ a \in Nat /\ o \in 1..Len(log) + 1
            BY <1>1, <2>1
        <3> QED
            BY <1>1, <3>1, <3>2
    <2>2. CASE o = Len(log) + 1
        <3>1. /\ delegate \in 1..Len(log) /\ log[delegate] = "delegate"
              /\ Calm(delegate, Len(log) + 1)
            BY <1>1, <1>2, <2>2 DEF DelegateInv
        <3>2. delegate \in Nat /\ o \in 1..Len(log) + 1 /\ delegate \in 1..(o - 1)
            BY <1>1, <2>2, <3>1
        <3> QED
            BY <1>1, <2>2, <3>1, <3>2
    <2> QED
        BY <1>1, <2>1, <2>2
<1> QED
    BY <1>1, <1>2 DEF LogInv

\* An event that was heard comes to the end of the history.
LEMMA HistoryGrows ==
    ASSUME HistoryListed, NEW n \in Nat, n = Len(log), Len(log') = n,
           NEW i \in unheard, i \in 1..n, unheard' = unheard \ {i},
           history' \in {history, Append(history, i)},
           ~overtaken' => ~overtaken /\ \A j \in (1..n) \ unheard : j < i
    PROVE  HistoryListed'
<1>1. PICK m \in Nat : m = Len(history)
    BY DEF HistoryListed
<1>2. PICK s : s = history
    OBVIOUS
<1>3. /\ s \in Seq(1..n) /\ Len(s) = m
      /\ \A k \in 1..m : s[k] \in 1..n /\ s[k] \notin unheard
      /\ \A k, l \in 1..m : k # l => s[k] # s[l]
      /\ ~overtaken => \A k, l \in 1..m : k < l => s[k] < s[l]
    BY <1>1, <1>2 DEF HistoryListed, Ordered
<1>4. CASE history' = history
    BY <1>1, <1>2, <1>3, <1>4 DEF HistoryListed, Ordered
<1>5. CASE history' = Append(history, i)
    <2>1. PICK t : t = Append(s, i)
        OBVIOUS
    <2>2. /\ t \in Seq(1..n) /\ Len(t) = m + 1 /\ t[m + 1] = i
          /\ \A k \in 1..m : t[k] = s[k]
        BY <1>3, <2>1
    <2>3. \A k \in 1..m + 1 : k \in 1..m \/ k = m + 1
        OBVIOUS
    <2>4. \A k \in 1..m + 1 : t[k] \notin unheard'
        BY <1>3, <2>2, <2>3
    <2>5. \A k, l \in 1..m + 1 : k # l => t[k] # t[l]
        BY <1>3, <2>2, <2>3
    <2>6. ASSUME ~overtaken', NEW k \in 1..m + 1, NEW l \in 1..m + 1, k < l
          PROVE  t[k] < t[l]
        <3>1. k \in 1..m /\ s[k] \in 1..n /\ s[k] \notin unheard
            BY <1>3, <2>6
        <3>2. CASE l \in 1..m
            BY <1>3, <2>2, <2>6, <3>1, <3>2
        <3>3. CASE l = m + 1
            BY <2>2, <2>6, <3>1, <3>3
        <3> QED
            BY <2>3, <3>2, <3>3
    <2>7. history' = t
        BY <1>2, <1>5, <2>1
    <2> QED
        BY <2>2, <2>4, <2>5, <2>6, <2>7 DEF HistoryListed, Ordered
<1> QED
    BY <1>4, <1>5

\* The history stays as it is while the log grows by an event that is not heard yet.
LEMMA HistoryKeeps ==
    ASSUME HistoryListed, NEW n \in Nat, n = Len(log), Len(log') = n + 1,
           unheard' \subseteq unheard \cup {n + 1}, history' = history,
           ~overtaken' => ~overtaken
    PROVE  HistoryListed'
<1>1. PICK m \in Nat : m = Len(history)
    BY DEF HistoryListed
<1>2. /\ history \in Seq(1..n) /\ \A k \in 1..m : history[k] \in 1..n
    BY <1>1 DEF HistoryListed
<1>3. history \in Seq(1..n + 1)
    <2>1. \A k \in 1..m : history[k] \in 1..n + 1
        BY <1>2
    <2>2. history = [k \in 1..m |-> history[k]]
        BY <1>1, <1>2
    <2> QED
        BY <1>1, <1>2, <2>1, <2>2
<1>4. \A k \in 1..m : history[k] \notin unheard'
    BY <1>1, <1>2 DEF HistoryListed
<1> QED
    BY <1>1, <1>3, <1>4 DEF HistoryListed, Ordered

\* A delegate's own event, with Calm.
LEMMA OfDelegateFacts ==
    ASSUME LogInv, NEW i \in 1..Len(log)
    PROVE  OfDelegate(i) <=>
             \E a \in 1..(i - 1) :
                /\ log[a] = "delegate" /\ Calm(a, i) /\ log[i] \notin {"delegate", "result"}
                /\ \/ delegate = a
                   \/ \E o \in (i + 1)..Len(log) : log[o] = "result" /\ Calm(a, o)
BY DEF OfDelegate, Calm

\* A step that logs an event of no result leaves the others to whom they belong.
LEMMA OthersKeep ==
    ASSUME LogInv, NEW kind \in Kinds \ {"result"}, log' = Append(log, kind),
           delegate' = delegate \/ (delegate = 0 /\ delegate' = Len(log) + 1),
           NEW i \in 1..Len(log)
    PROVE  OfDelegate(i)' <=> OfDelegate(i)
<1>1. PICK n \in Nat : n = Len(log) /\ Len(log') = n + 1
    BY LogGrows
<1>2. /\ log'[n + 1] # "result" /\ \A j \in 1..n : log'[j] = log[j]
      /\ \A a \in Nat : \A b \in 1..n + 1 : Calm(a, b)' <=> Calm(a, b)
    BY <1>1, LogGrows
<1>3. OfDelegate(i)' <=>
         \E a \in 1..(i - 1) :
            /\ log'[a] = "delegate" /\ Calm(a, i)' /\ log'[i] \notin {"delegate", "result"}
            /\ \/ delegate' = a
               \/ \E o \in (i + 1)..Len(log') : log'[o] = "result" /\ Calm(a, o)'
    BY DEF OfDelegate, Calm
<1>4. ASSUME NEW a \in 1..(i - 1)
      PROVE  /\ log'[a] = log[a] /\ (Calm(a, i)' <=> Calm(a, i)) /\ log'[i] = log[i]
             /\ delegate' = a <=> delegate = a
             /\ (\E o \in (i + 1)..n + 1 : log'[o] = "result" /\ Calm(a, o)')
                  <=> \E o \in (i + 1)..n : log[o] = "result" /\ Calm(a, o)
    <2>1. a \in Nat /\ a \in 1..n /\ i \in 1..n /\ i \in 1..n + 1 /\ a # 0
        BY <1>1
    <2>2. log'[a] = log[a] /\ (Calm(a, i)' <=> Calm(a, i)) /\ log'[i] = log[i]
        BY <1>2, <2>1
    <2>3. delegate' = a <=> delegate = a
        BY <1>1, <2>1
    <2>4. ASSUME NEW o \in (i + 1)..n
          PROVE  log'[o] = log[o] /\ (Calm(a, o)' <=> Calm(a, o)) /\ o \in (i + 1)..n + 1
        <3>1. o \in 1..n /\ o \in 1..n + 1 /\ o \in (i + 1)..n + 1
            BY <2>1
        <3> QED
            BY <1>2, <2>1, <3>1
    <2>5. \A o \in (i + 1)..n + 1 : o \in (i + 1)..n \/ o = n + 1
        BY <2>1
    <2>6. (\E o \in (i + 1)..n + 1 : log'[o] = "result" /\ Calm(a, o)')
            <=> \E o \in (i + 1)..n : log[o] = "result" /\ Calm(a, o)
        BY <1>2, <2>4, <2>5
    <2> QED
        BY <2>2, <2>3, <2>6
<1> QED
    BY <1>1, <1>3, <1>4, OfDelegateFacts

\* The end of a delegation is a result, which settles whose events were its own.
LEMMA OthersKeepAtTheEnd ==
    ASSUME LogInv, DelegateInv, delegate # 0, log' = Append(log, "result"), delegate' = 0,
           NEW i \in 1..Len(log)
    PROVE  OfDelegate(i)' <=> OfDelegate(i)
<1>1. PICK n \in Nat : n = Len(log) /\ Len(log') = n + 1
    BY LogGrows DEF Kinds
<1>2. /\ log'[n + 1] = "result" /\ \A j \in 1..n : log'[j] = log[j]
      /\ \A a \in Nat : \A b \in 1..n + 1 : Calm(a, b)' <=> Calm(a, b)
    BY <1>1, LogGrows DEF Kinds
<1>3. OfDelegate(i)' <=>
         \E a \in 1..(i - 1) :
            /\ log'[a] = "delegate" /\ Calm(a, i)' /\ log'[i] \notin {"delegate", "result"}
            /\ \/ delegate' = a
               \/ \E o \in (i + 1)..Len(log') : log'[o] = "result" /\ Calm(a, o)'
    BY DEF OfDelegate, Calm
<1>4. delegate \in 1..n /\ log[delegate] = "delegate" /\ Calm(delegate, n + 1)
    BY <1>1 DEF DelegateInv
<1>5. ASSUME NEW a \in 1..n, log[a] = "delegate"
      PROVE  Calm(a, n + 1) <=> delegate = a
    <2>1. ASSUME Calm(a, n + 1) PROVE delegate = a
        <3>1. ~(a < delegate)
            <4>1. a < delegate => delegate \in (a + 1)..((n + 1) - 1)
                BY <1>4
            <4> QED
                BY <1>4, <2>1, <4>1 DEF Calm
        <3>2. ~(delegate < a)
            <4>1. delegate < a => a \in (delegate + 1)..((n + 1) - 1)
                BY <1>4
            <4> QED
                BY <1>4, <1>5, <4>1 DEF Calm
        <3> QED
            BY <1>4, <3>1, <3>2
    <2> QED
        BY <1>4, <2>1
<1>6. ASSUME NEW a \in 1..(i - 1), log[a] = "delegate"
      PROVE  (\/ delegate' = a
              \/ \E o \in (i + 1)..n + 1 : log'[o] = "result" /\ Calm(a, o)')
               <=> \/ delegate = a
                   \/ \E o \in (i + 1)..n : log[o] = "result" /\ Calm(a, o)
    <2>1. a \in Nat /\ a \in 1..n /\ i \in 1..n /\ a # 0 /\ n + 1 \in (i + 1)..n + 1
        BY <1>1
    <2>2. Calm(a, n + 1)' <=> delegate = a
        BY <1>2, <1>5, <1>6, <2>1
    <2>3. ASSUME NEW o \in (i + 1)..n
          PROVE  log'[o] = log[o] /\ (Calm(a, o)' <=> Calm(a, o)) /\ o \in (i + 1)..n + 1
        <3>1. o \in 1..n /\ o \in 1..n + 1 /\ o \in (i + 1)..n + 1
            BY <2>1
        <3> QED
            BY <1>2, <2>1, <3>1
    <2>4. \A o \in (i + 1)..n + 1 : o \in (i + 1)..n \/ o = n + 1
        BY <2>1
    <2>5. (\E o \in (i + 1)..n + 1 : log'[o] = "result" /\ Calm(a, o)')
            <=> \/ Calm(a, n + 1)'
                \/ \E o \in (i + 1)..n : log[o] = "result" /\ Calm(a, o)
        BY <1>2, <2>1, <2>3, <2>4
    <2> QED
        BY <2>1, <2>2, <2>5
<1>7. ASSUME NEW a \in 1..(i - 1)
      PROVE  log'[a] = log[a] /\ (Calm(a, i)' <=> Calm(a, i)) /\ log'[i] = log[i]
    <2>1. a \in Nat /\ a \in 1..n /\ i \in 1..n /\ i \in 1..n + 1
        BY <1>1
    <2> QED
        BY <1>2, <2>1
<1> QED
    BY <1>1, <1>3, <1>6, <1>7, OfDelegateFacts

\* The last delegation that began owns what comes after it until it has ended, and
\* none of that is late: no result comes after it.
LEMMA ActiveOwns ==
    ASSUME LogInv, DelegateInv, LateInv, delegate # 0,
           NEW i \in 1..Len(log), delegate < i
    PROVE  OfDelegate(i) /\ i \notin late
<1>1. PICK n \in Nat : n = Len(log)
    BY DEF LogInv
<1>2. delegate \in 1..n /\ log[delegate] = "delegate" /\ Calm(delegate, n + 1)
    BY <1>1 DEF DelegateInv
<1>3. \A j \in (delegate + 1)..n : log[j] \notin {"delegate", "result"}
    <2>1. (n + 1) - 1 = n
        OBVIOUS
    <2> QED
        BY <1>2, <2>1 DEF Calm
<1>4. delegate \in 1..(i - 1) /\ i \in (delegate + 1)..n
    BY <1>1, <1>2
<1>5. \A j \in (delegate + 1)..(i - 1) : log[j] \notin {"delegate", "result"}
    BY <1>1, <1>3, <1>4
<1>6. OfDelegate(i)
    BY <1>2, <1>3, <1>4, <1>5 DEF OfDelegate
<1>7. i \notin late
    <2> SUFFICES ASSUME i \in late PROVE FALSE
        OBVIOUS
    <2>1. PICK o \in (i + 1)..n : log[o] = "result"
        BY <1>1 DEF LateInv
    <2>2. o \in (delegate + 1)..n
        BY <1>4, <2>1
    <2> QED
        BY <1>3, <2>1, <2>2
<1> QED
    BY <1>6, <1>7

\* Of the events before it the root's first unheard one comes last.
LEMMA HeardFacts ==
    ASSUME PrefixInv, LateInv, DelegateInv, LogInv, NEW i, Heard(i)
    PROVE  /\ i \in unheard /\ i \in 1..Len(log)
           /\ overtaken' \in BOOLEAN
           /\ ~overtaken' => /\ ~overtaken
                             /\ \A j \in (1..Len(log)) \ unheard : j < i
                             /\ \A j \in unheard \ {i} : i < j
                             /\ delegate # 0 => delegate < i
<1>1. PICK n \in Nat : n = Len(log)
    BY DEF LogInv
<1>2. i \in unheard /\ unheard \subseteq 1..n /\ overtaken \in BOOLEAN
    BY <1>1 DEF Heard, LateInv, PrefixInv
<1>3. overtaken' = (overtaken \/ \E j \in unheard : j < i)
    BY DEF Heard
<1>4. ASSUME ~overtaken' PROVE \A j \in unheard \ {i} : i < j
    <2>1. \A j \in unheard : ~(j < i)
        BY <1>3, <1>4, Zenon
    <2>2. \A j \in unheard \ {i} : j \in 1..n /\ i \in 1..n /\ j # i /\ ~(j < i)
        BY <1>2, <2>1, Zenon
    <2>3. \A j \in 1..n : j # i /\ ~(j < i) /\ i \in 1..n => i < j
        OBVIOUS
    <2> QED
        BY <2>2, <2>3, Zenon
<1>5. ASSUME ~overtaken' PROVE ~overtaken /\ \A j \in (1..n) \ unheard : j < i
    BY <1>1, <1>2, <1>3, <1>5 DEF PrefixInv
<1>6. ASSUME ~overtaken', delegate # 0 PROVE delegate < i
    <2>1. delegate \in (1..n) \ unheard
        BY <1>1, <1>5, <1>6 DEF DelegateInv, PrefixInv
    <2> QED
        BY <1>5, <1>6, <2>1
<1> QED
    BY <1>1, <1>2, <1>3, <1>4, <1>5, <1>6

\* The history follows what is heard, if it takes it when it is its own.
LEMMA CompleteGrows ==
    ASSUME Complete, restarts' = restarts, log' = log, late' = late,
           NEW n \in Nat, n = Len(log),
           NEW i \in unheard, i \in 1..n, unheard' = unheard \ {i},
           ~overtaken' => ~overtaken /\ \A j \in (1..n) \ unheard : j < i,
           ~overtaken' => \A j \in (1..n) \ unheard : OfDelegate(j)' <=> OfDelegate(j),
           ~overtaken' =>
               history' = IF log[i] # "dropped" /\ (OfDelegate(i)' => i \in late)
                          THEN Append(history, i) ELSE history
    PROVE  Complete'
<1> SUFFICES ASSUME restarts <= 1, ~overtaken' PROVE IsList(history', Own')
    BY DEF Complete, IsList, Ordered, Members
<1>1. PICK H : H = (1..n) \ unheard
    OBVIOUS
<1>2. (1..n) \ unheard' = H \cup {i} /\ i \notin H /\ \A j \in H : j < i /\ j \in 1..n
    BY <1>1
<1>3. Own' = {j \in H \cup {i} : log[j] # "dropped" /\ (OfDelegate(j)' => j \in late)}
    BY <1>2 DEF Own
<1>4. Own = {j \in H : log[j] # "dropped" /\ (OfDelegate(j) => j \in late)}
    BY <1>1 DEF Own
<1>5. IsList(history, Own)
    BY DEF Complete
<1>6. \A j \in H : OfDelegate(j)' <=> OfDelegate(j)
    BY <1>1
<1>7. CASE log[i] # "dropped" /\ (OfDelegate(i)' => i \in late)
    <2>1. Own' = Own \cup {i}
        <3> HIDE DEF Own
        <3>1. \A j \in H : (log[j] # "dropped" /\ (OfDelegate(j)' => j \in late))
                             <=> (log[j] # "dropped" /\ (OfDelegate(j) => j \in late))
            BY <1>6, Zenon
        <3>2. \A j \in H : j \in Own' <=> j \in Own
            BY <1>3, <1>4, <3>1, Zenon
        <3>3. i \in Own'
            BY <1>3, <1>7, Zenon
        <3>4. Own' \subseteq H \cup {i} /\ Own \subseteq H
            BY <1>3, <1>4, Zenon
        <3> QED
            BY <3>2, <3>3, <3>4
    <2>2. \A y \in Own : y < i
        BY <1>2, <1>4
    <2>3. IsList(Append(history, i), Own \cup {i})
        <3>1. i \in Nat
            OBVIOUS
        <3> QED
            BY <1>5, <2>2, <3>1, AppendList
    <2>4. history' = Append(history, i)
        BY <1>7
    <2> QED
        BY <2>1, <2>3, <2>4
<1>8. CASE ~(log[i] # "dropped" /\ (OfDelegate(i)' => i \in late))
    <2>1. Own' = Own
        <3> HIDE DEF Own
        <3> QED
            BY <1>2, <1>3, <1>4, <1>6, <1>8, Zenon
    <2>2. history' = history
        BY <1>8
    <2> QED
        BY <1>5, <2>1, <2>2
<1> QED
    BY <1>7, <1>8

\* A new event that is not heard yet changes nothing for the history.
LEMMA CompleteKeeps ==
    ASSUME Complete, restarts' = restarts, history' = history,
           ~overtaken' => ~overtaken /\ Own' = Own
    PROVE  Complete'
BY DEF Complete, IsList, Ordered, Members

\* What the log and the events to be heard keep when an event is heard.
LEMMA HearingKeeps ==
    ASSUME LogInv, DelegateInv, WaitingInv, LateInv, PrefixInv, Starts, NEW i, Heard(i),
           unheard' = unheard \ {i}, log' = log, late' = late,
           startId' = startId, savedStart' = savedStart, restarts' = restarts,
           delegate' = delegate \/ (delegate' = i /\ delegate = 0 /\ log[i] = "delegate")
    PROVE  LogInv' /\ DelegateInv' /\ WaitingInv' /\ LateInv' /\ PrefixInv' /\ Starts'
<1>1. PICK n \in Nat : n = Len(log)
    BY DEF LogInv
<1>2. /\ i \in unheard /\ i \in 1..n /\ overtaken' \in BOOLEAN
      /\ ~overtaken' => /\ ~overtaken
                        /\ \A j \in (1..n) \ unheard : j < i
                        /\ \A j \in unheard \ {i} : i < j
    BY <1>1, HeardFacts
<1>3. LogInv' /\ Starts'
    BY DEF LogInv, Calm, Starts
<1>4. \A a \in Nat : Calm(a, n + 1)' <=> Calm(a, n + 1)
    BY DEF Calm
<1>5. DelegateInv'
    <2>1. CASE delegate' = delegate
        BY <2>1 DEF DelegateInv, Calm
    <2>2. CASE delegate' = i /\ delegate = 0 /\ log[i] = "delegate"
        <3>1. Calm(i, n + 1)
            BY <1>1, <1>2, <2>2 DEF WaitingInv
        <3> QED
            BY <1>1, <1>2, <2>2, <3>1 DEF DelegateInv, Calm
    <2> QED
        BY <2>1, <2>2
<1>6. WaitingInv'
    <2> SUFFICES ASSUME NEW a \in unheard, a # i, log[a] = "delegate"
                 PROVE  delegate' = 0 /\ Calm(a, n + 1)
        BY <1>1 DEF WaitingInv, Calm
    <2>1. a \in 1..n /\ delegate = 0 /\ Calm(a, n + 1)
        BY <1>1 DEF WaitingInv, LateInv
    <2>2. ASSUME log[i] = "delegate" PROVE FALSE
        <3>1. Calm(i, n + 1)
            BY <1>1, <1>2, <2>2 DEF WaitingInv
        <3>2. i \in (a + 1)..((n + 1) - 1) \/ a \in (i + 1)..((n + 1) - 1)
            BY <1>2, <2>1
        <3> QED
            BY <2>1, <2>2, <3>1, <3>2 DEF Calm
    <2> QED
        BY <2>1, <2>2
<1>7. LateInv'
    BY DEF LateInv, Inside, Ranges, Calm
<1>8. PrefixInv'
    <2>1. ASSUME ~overtaken', NEW j \in (1..n) \ unheard', NEW k \in unheard' PROVE j < k
        <3>1. k \in unheard \ {i} /\ i < k /\ k \in 1..n
            BY <1>1, <1>2, <2>1 DEF LateInv
        <3>2. j = i \/ j \in (1..n) \ unheard
            BY <2>1
        <3> QED
            BY <1>2, <2>1, <3>1, <3>2
    <2>2. ASSUME ~overtaken' PROVE delegate' \notin unheard'
        BY <1>2, <2>2 DEF PrefixInv
    <2> QED
        BY <1>1, <1>2, <2>1, <2>2 DEF PrefixInv
<1> QED
    BY <1>3, <1>5, <1>6, <1>7, <1>8

\* In a session without a delegate its own events are those inside a delegation.
LEMMA InsideNow ==
    ASSUME LogInv, delegate = 0, NEW i \in 1..Len(log), OfDelegate(i)
    PROVE  Inside(i, 1)
<1>1. PICK n \in Nat : n = Len(log)
    BY DEF LogInv
<1>2. PICK a \in 1..(i - 1) :
         /\ log[a] = "delegate"
         /\ \E o \in (i + 1)..n : log[o] = "result" /\ Calm(a, o)
    BY <1>1 DEF OfDelegate, Calm
<1>3. PICK o \in (i + 1)..n : log[o] = "result" /\ Calm(a, o)
    BY <1>2
<1>4. <<a, o>> \in (1..n) \X (1..n) /\ a < o /\ a < i /\ i < o
    BY <1>1
<1>5. <<a, o>> \in Ranges(1)
    BY <1>1, <1>2, <1>3, <1>4 DEF Ranges
<1> QED
    BY <1>4, <1>5 DEF Inside

\* An event of no result at the end of the log, which is yet to be heard.
LEMMA LogsIInv ==
    ASSUME IInv, NEW kind \in Kinds \ {"result"}, Publish(kind),
           kind = "delegate" => delegate = 0 /\ \A i \in unheard : log[i] # "delegate"
    PROVE  IInv'
<1>1. LogInv /\ DelegateInv /\ WaitingInv /\ LateInv /\ PrefixInv /\ HistoryListed /\ Starts /\ Complete
    BY DEF IInv
<1>2. /\ log' = Append(log, kind) /\ unheard' = unheard \cup {Len(log')}
      /\ history' = history /\ delegate' = delegate /\ late' = late /\ overtaken' = overtaken
      /\ startId' = startId /\ savedStart' = savedStart /\ restarts' = restarts
    BY DEF Publish, Log, session
<1>3. PICK n \in Nat : n = Len(log) /\ Len(log') = n + 1
    BY <1>1, <1>2, LogGrows
<1>4. /\ log'[n + 1] = kind /\ \A i \in 1..n : log'[i] = log[i]
      /\ \A a \in Nat : \A b \in 1..n + 1 : Calm(a, b)' <=> Calm(a, b)
    BY <1>1, <1>2, <1>3, LogGrows
<1>5. LogInv'
    BY <1>1, <1>2, LogInvGrows
<1>6. ASSUME NEW a \in 1..n, Calm(a, n + 1), kind # "delegate"
      PROVE  \A j \in (a + 1)..((n + 1 + 1) - 1) : log'[j] \notin {"delegate", "result"}
    <2>1. \A j \in (a + 1)..((n + 1 + 1) - 1) :
             j = n + 1 \/ (j \in 1..n /\ j \in (a + 1)..((n + 1) - 1))
        OBVIOUS
    <2> QED
        BY <1>4, <1>6, <2>1 DEF Calm
<1>7. DelegateInv'
    <2>1. CASE delegate = 0
        BY <1>2, <2>1 DEF DelegateInv
    <2>2. CASE delegate # 0
        <3>1. delegate \in 1..n /\ log[delegate] = "delegate" /\ Calm(delegate, n + 1)
            BY <1>1, <1>3, <2>2 DEF DelegateInv
        <3>2. kind # "delegate"
            BY <2>2
        <3>3. \A j \in (delegate + 1)..((n + 1 + 1) - 1) : log'[j] \notin {"delegate", "result"}
            BY <1>6, <3>1, <3>2
        <3> QED
            BY <1>2, <1>3, <1>4, <3>1, <3>3 DEF DelegateInv, Calm
    <2> QED
        BY <2>1, <2>2
<1>8. WaitingInv'
    <2> SUFFICES ASSUME NEW a \in unheard', log'[a] = "delegate"
                 PROVE  delegate' = 0 /\ \A j \in (a + 1)..((n + 1 + 1) - 1) : log'[j] \notin {"delegate", "result"}
        BY <1>3 DEF WaitingInv, Calm
    <2>1. CASE a = n + 1
        <3>1. \A j \in (a + 1)..((n + 1 + 1) - 1) : FALSE
            BY <2>1
        <3>2. delegate' = 0
            BY <1>2, <1>4, <2>1
        <3> QED
            BY <3>1, <3>2
    <2>2. CASE a \in unheard
        <3>1. a \in 1..n /\ log[a] = "delegate" /\ delegate = 0 /\ Calm(a, n + 1) /\ kind # "delegate"
            BY <1>1, <1>3, <1>4, <2>2 DEF WaitingInv, LateInv
        <3> QED
            BY <1>2, <1>6, <3>1
    <2> QED
        BY <1>2, <1>3, <2>1, <2>2
<1>9. LateInv'
    <2>1. Ranges(1)' \subseteq Ranges(1)
        <3> SUFFICES ASSUME NEW r \in Ranges(1)' PROVE r \in Ranges(1)
            OBVIOUS
        <3>1. /\ r \in (1..n + 1) \X (1..n + 1) /\ r[1] < r[2]
              /\ log'[r[1]] = "delegate" /\ log'[r[2]] = "result" /\ Calm(r[1], r[2])'
            BY <1>3 DEF Ranges
        <3>2. r[2] # n + 1 /\ r[1] \in 1..n /\ r[2] \in 1..n /\ r[1] \in Nat /\ r[2] \in 1..n + 1
            BY <1>4, <3>1
        <3>3. log[r[1]] = "delegate" /\ log[r[2]] = "result" /\ Calm(r[1], r[2])
            BY <1>4, <3>1, <3>2
        <3> QED
            BY <1>3, <3>1, <3>2, <3>3 DEF Ranges
    <2>2. ASSUME NEW i \in unheard', Inside(i, 1)' PROVE i \in late'
        <3>1. PICK r \in Ranges(1) : r[1] < i /\ i < r[2] /\ r[2] \in 1..n
            BY <1>3, <2>1, <2>2 DEF Inside, Ranges
        <3>2. i # n + 1
            BY <3>1
        <3>3. i \in unheard /\ Inside(i, 1)
            BY <1>2, <1>3, <3>1, <3>2 DEF Inside
        <3> QED
            BY <1>1, <1>2, <3>3 DEF LateInv
    <2>3. ASSUME NEW i \in late' PROVE \E o \in (i + 1)..n + 1 : log'[o] = "result"
        <3>1. i \in 1..n
            BY <1>1, <1>2, <1>3 DEF LateInv
        <3>2. PICK o \in (i + 1)..n : log[o] = "result"
            BY <1>1, <1>2, <1>3, <2>3 DEF LateInv
        <3>3. o \in 1..n /\ o \in (i + 1)..n + 1
            BY <3>1
        <3> QED
            BY <1>4, <3>2, <3>3
    <2>4. unheard' \subseteq 1..n + 1 /\ late' \subseteq 1..n + 1
        <3>1. unheard \subseteq 1..n /\ late \subseteq 1..n
            BY <1>1, <1>3 DEF LateInv
        <3>2. \A j \in 1..n : j \in 1..n + 1
            OBVIOUS
        <3>3. n + 1 \in 1..n + 1
            OBVIOUS
        <3> QED
            BY <1>2, <1>3, <3>1, <3>2, <3>3, Zenon
    <2> QED
        BY <1>3, <2>2, <2>3, <2>4 DEF LateInv
<1>10. PrefixInv'
    <2>1. \A j \in (1..n + 1) \ unheard' : j \in (1..n) \ unheard
        BY <1>2, <1>3
    <2>2. unheard \subseteq 1..n /\ (delegate = 0 \/ delegate \in 1..n)
        BY <1>1, <1>3 DEF LateInv, DelegateInv
    <2>3. ~overtaken => \A j \in (1..n) \ unheard : \A k \in unheard' : j < k
        BY <1>1, <1>2, <1>3, <2>2 DEF PrefixInv
    <2>4. ~overtaken => delegate \notin unheard'
        BY <1>1, <1>2, <1>3, <2>2 DEF PrefixInv
    <2> QED
        BY <1>1, <1>2, <1>3, <2>1, <2>3, <2>4 DEF PrefixInv
<1>11. HistoryListed'
    BY <1>1, <1>2, <1>3, HistoryKeeps
<1>12. Starts'
    BY <1>1, <1>2 DEF Starts
<1>13. Complete'
    <2>1. \A i \in 1..n : OfDelegate(i)' <=> OfDelegate(i)
        BY <1>1, <1>2, <1>3, OthersKeep
    <2>2. (1..n + 1) \ unheard' = (1..n) \ unheard
        BY <1>2, <1>3
    <2>3. Own' = Own
        BY <1>2, <1>3, <1>4, <2>1, <2>2 DEF Own
    <2> QED
        BY <1>1, <1>2, <2>3, CompleteKeeps
<1> QED
    BY <1>5, <1>7, <1>8, <1>9, <1>10, <1>11, <1>12, <1>13 DEF IInv

LEMMA PublishIInv ==
    ASSUME IInv, NEW kind \in {"kept", "dropped"}, Publish(kind)
    PROVE  IInv'
BY LogsIInv DEF Kinds

LEMMA DelegateIInv ==
    ASSUME IInv, Delegate
    PROVE  IInv'
BY LogsIInv DEF Delegate, Kinds

LEMMA HearOwnIInv ==
    ASSUME IInv, NEW i, HearOwn(i)
    PROVE  IInv'
<1>1. LogInv /\ DelegateInv /\ WaitingInv /\ LateInv /\ PrefixInv /\ HistoryListed /\ Starts /\ Complete
    BY DEF IInv
<1>2. /\ Heard(i) /\ delegate = 0 /\ log[i] # "delegate" /\ unheard' = unheard \ {i}
      /\ history' = IF log[i] = "dropped" THEN history ELSE Append(history, i)
      /\ log' = log /\ delegate' = delegate /\ late' = late
      /\ startId' = startId /\ savedStart' = savedStart /\ restarts' = restarts
    BY DEF HearOwn, session
<1>3. PICK n \in Nat : n = Len(log)
    BY <1>1 DEF LogInv
<1>4. /\ i \in unheard /\ i \in 1..n
      /\ ~overtaken' => ~overtaken /\ \A j \in (1..n) \ unheard : j < i
    BY <1>1, <1>2, <1>3, HeardFacts
<1>5. LogInv' /\ DelegateInv' /\ WaitingInv' /\ LateInv' /\ PrefixInv' /\ Starts'
    BY <1>1, <1>2, HearingKeeps
<1>6. HistoryListed'
    BY <1>1, <1>2, <1>3, <1>4, HistoryGrows
<1>7. Complete'
    <2>1. \A j \in 1..n : OfDelegate(j)' <=> OfDelegate(j)
        BY <1>2 DEF OfDelegate
    <2>2. OfDelegate(i)' => i \in late
        <3> SUFFICES ASSUME OfDelegate(i) PROVE i \in late
            BY <1>4, <2>1
        <3>1. Inside(i, 1)
            BY <1>1, <1>2, <1>3, <1>4, InsideNow
        <3> QED
            BY <1>1, <1>4, <3>1 DEF LateInv
    <2> QED
        BY <1>1, <1>2, <1>3, <1>4, <2>1, <2>2, CompleteGrows
<1> QED
    BY <1>5, <1>6, <1>7 DEF IInv

LEMMA StartDelegateIInv ==
    ASSUME IInv, NEW i, StartDelegate(i)
    PROVE  IInv'
<1>1. LogInv /\ DelegateInv /\ WaitingInv /\ LateInv /\ PrefixInv /\ HistoryListed /\ Starts /\ Complete
    BY DEF IInv
<1>2. /\ Heard(i) /\ delegate = 0 /\ log[i] = "delegate" /\ unheard' = unheard \ {i}
      /\ history' = Append(history, i) /\ delegate' = i
      /\ log' = log /\ late' = late
      /\ startId' = startId /\ savedStart' = savedStart /\ restarts' = restarts
    BY DEF StartDelegate, session
<1>3. PICK n \in Nat : n = Len(log)
    BY <1>1 DEF LogInv
<1>4. /\ i \in unheard /\ i \in 1..n
      /\ ~overtaken' => ~overtaken /\ \A j \in (1..n) \ unheard : j < i
    BY <1>1, <1>2, <1>3, HeardFacts
<1>5. LogInv' /\ DelegateInv' /\ WaitingInv' /\ LateInv' /\ PrefixInv' /\ Starts'
    BY <1>1, <1>2, HearingKeeps
<1>6. HistoryListed'
    BY <1>1, <1>2, <1>3, <1>4, HistoryGrows
<1>7. Complete'
    <2>1. ASSUME NEW j \in 1..n, j < i PROVE OfDelegate(j)' <=> OfDelegate(j)
        <3>1. \A a \in 1..(j - 1) : delegate' # a /\ delegate # a
            BY <1>2, <1>4, <2>1
        <3> QED
            BY <1>2, <3>1 DEF OfDelegate
    <2>2. ~OfDelegate(i)'
        BY <1>2 DEF OfDelegate
    <2>3. ~overtaken' => \A j \in (1..n) \ unheard : OfDelegate(j)' <=> OfDelegate(j)
        BY <1>4, <2>1
    <2> QED
        BY <1>1, <1>2, <1>3, <1>4, <2>2, <2>3, CompleteGrows
<1> QED
    BY <1>5, <1>6, <1>7 DEF IInv

LEMMA ForwardIInv ==
    ASSUME IInv, NEW i, Forward(i)
    PROVE  IInv'
<1>1. LogInv /\ DelegateInv /\ WaitingInv /\ LateInv /\ PrefixInv /\ HistoryListed /\ Starts /\ Complete
    BY DEF IInv
<1>2. /\ Heard(i) /\ delegate # 0 /\ unheard' = unheard \ {i} /\ history' = history
      /\ log' = log /\ delegate' = delegate /\ late' = late
      /\ startId' = startId /\ savedStart' = savedStart /\ restarts' = restarts
    BY DEF Forward, session
<1>3. PICK n \in Nat : n = Len(log)
    BY <1>1 DEF LogInv
<1>4. /\ i \in unheard /\ i \in 1..n
      /\ ~overtaken' => /\ ~overtaken /\ delegate < i
                        /\ \A j \in (1..n) \ unheard : j < i
    BY <1>1, <1>2, <1>3, HeardFacts
<1>5. LogInv' /\ DelegateInv' /\ WaitingInv' /\ LateInv' /\ PrefixInv' /\ Starts'
    BY <1>1, <1>2, HearingKeeps
<1>6. HistoryListed'
    BY <1>1, <1>2, <1>3, <1>4, HistoryGrows
<1>7. Complete'
    <2>1. \A j \in 1..n : OfDelegate(j)' <=> OfDelegate(j)
        BY <1>2 DEF OfDelegate
    <2>2. ~overtaken' => OfDelegate(i)' /\ i \notin late
        BY <1>1, <1>2, <1>3, <1>4, <2>1, ActiveOwns
    <2> QED
        BY <1>1, <1>2, <1>3, <1>4, <2>1, <2>2, CompleteGrows
<1> QED
    BY <1>5, <1>6, <1>7 DEF IInv

LEMMA EndDelegateIInv ==
    ASSUME IInv, NEW i, EndDelegate(i)
    PROVE  IInv'
<1>1. LogInv /\ DelegateInv /\ WaitingInv /\ LateInv /\ PrefixInv /\ HistoryListed /\ Starts /\ Complete
    BY DEF IInv
<1>2. /\ Heard(i) /\ delegate # 0 /\ log' = Append(log, "result")
      /\ unheard' = (unheard \ {i}) \cup {Len(log')} /\ late' = late \cup (unheard \ {i})
      /\ history' = history /\ delegate' = 0
      /\ startId' = startId /\ savedStart' = savedStart /\ restarts' = restarts
    BY DEF EndDelegate, Log, session
<1>3. PICK n \in Nat : n = Len(log) /\ Len(log') = n + 1
    BY <1>1, <1>2, LogGrows DEF Kinds
<1>4. log'[n + 1] = "result" /\ \A j \in 1..n : log'[j] = log[j]
    BY <1>1, <1>2, <1>3, LogGrows DEF Kinds
<1>5. /\ i \in unheard /\ i \in 1..n /\ overtaken' \in BOOLEAN /\ unheard \subseteq 1..n
      /\ late \subseteq 1..n
      /\ ~overtaken' => /\ ~overtaken /\ delegate < i
                        /\ \A j \in (1..n) \ unheard : j < i
                        /\ \A j \in unheard \ {i} : i < j
    BY <1>1, <1>2, <1>3, HeardFacts DEF LateInv
<1>6. LogInv'
    BY <1>1, <1>2, LogInvGrows DEF Kinds
<1>7. DelegateInv'
    BY <1>2 DEF DelegateInv
<1>8. WaitingInv'
    <2>1. \A a \in unheard' : log'[a] # "delegate"
        BY <1>1, <1>2, <1>3, <1>4, <1>5 DEF WaitingInv
    <2> QED
        BY <2>1 DEF WaitingInv
<1>9. LateInv'
    <2>1. ASSUME NEW j \in unheard', Inside(j, 1)' PROVE j \in late'
        <3>1. PICK r \in Ranges(1)' : r[1] < j /\ j < r[2] /\ r[2] \in 1..n + 1
            BY <1>3, <2>1 DEF Inside, Ranges
        <3>2. j # n + 1
            BY <3>1
        <3> QED
            BY <1>2, <1>3, <3>2
    <2>2. ASSUME NEW j \in late' PROVE \E o \in (j + 1)..n + 1 : log'[o] = "result"
        <3>1. j \in 1..n
            BY <1>2, <1>5
        <3>2. n + 1 \in (j + 1)..n + 1
            BY <3>1
        <3> QED
            BY <1>4, <3>2
    <2>3. unheard' \subseteq 1..n + 1 /\ late' \subseteq 1..n + 1
        <3>1. \A j \in 1..n : j \in 1..n + 1
            OBVIOUS
        <3>2. n + 1 \in 1..n + 1
            OBVIOUS
        <3> QED
            BY <1>2, <1>3, <1>5, <3>1, <3>2, Zenon
    <2> QED
        BY <1>3, <2>1, <2>2, <2>3 DEF LateInv
<1>10. (1..n + 1) \ unheard' = ((1..n) \ unheard) \cup {i}
    BY <1>2, <1>3, <1>5
<1>11. PrefixInv'
    <2>1. ASSUME ~overtaken', NEW j \in (1..n + 1) \ unheard', NEW k \in unheard' PROVE j < k
        <3>1. j = i \/ j \in (1..n) \ unheard
            BY <1>10
        <3>2. j \in 1..n
            BY <1>5, <3>1
        <3>3. k = n + 1 \/ k \in unheard \ {i}
            BY <1>2, <1>3
        <3>4. CASE k = n + 1
            BY <3>2, <3>4
        <3>5. CASE k \in unheard \ {i}
            <4>1. i < k /\ k \in 1..n
                BY <1>5, <2>1, <3>5
            <4>2. j = i \/ j < i
                BY <1>5, <2>1, <3>1
            <4> QED
                BY <1>5, <3>2, <4>1, <4>2
        <3> QED
            BY <3>3, <3>4, <3>5
    <2>2. delegate' \notin unheard'
        BY <1>2, <1>3, <1>5
    <2> QED
        BY <1>3, <1>5, <2>1, <2>2 DEF PrefixInv
<1>12. HistoryListed'
    <2>1. unheard' \subseteq unheard \cup {n + 1}
        BY <1>2, <1>3
    <2> QED
        BY <1>1, <1>2, <1>3, <1>5, <2>1, HistoryKeeps
<1>13. Starts'
    BY <1>1, <1>2 DEF Starts
<1>14. Complete'
    <2> SUFFICES ASSUME ~overtaken' PROVE Own' = Own
        BY <1>1, <1>2, <1>5, CompleteKeeps
    <2>1. \A j \in 1..n : OfDelegate(j)' <=> OfDelegate(j)
        BY <1>1, <1>2, <1>3, OthersKeepAtTheEnd
    <2>2. OfDelegate(i) /\ i \notin late
        BY <1>1, <1>2, <1>3, <1>5, ActiveOwns
    <2>3. PICK H : H = (1..n) \ unheard
        OBVIOUS
    <2>4. \A j \in H \cup {i} : j \in 1..n /\ (j \in late' <=> j \in late)
        BY <1>2, <1>5, <2>3
    <2>5. Own' = {j \in H \cup {i} : log'[j] # "dropped" /\ (OfDelegate(j)' => j \in late')}
        BY <1>3, <1>10, <2>3 DEF Own
    <2>6. Own = {j \in H : log[j] # "dropped" /\ (OfDelegate(j) => j \in late)}
        BY <1>3, <2>3 DEF Own
    <2>7. \A j \in H \cup {i} : (log'[j] # "dropped" /\ (OfDelegate(j)' => j \in late'))
                                 <=> (log[j] # "dropped" /\ (OfDelegate(j) => j \in late))
        BY <1>4, <2>1, <2>4
    <2> HIDE DEF Own
    <2> QED
        BY <2>2, <2>5, <2>6, <2>7, Zenon
<1> QED
    BY <1>6, <1>7, <1>8, <1>9, <1>11, <1>12, <1>13, <1>14 DEF IInv

\* In a new process, without a live delegate, its own events are those inside a delegation.
LEMMA InsideOfDelegate ==
    ASSUME LogInv, log' = log, delegate' = 0, NEW i \in 1..Len(log)
    PROVE  OfDelegate(i)' <=> Inside(i, 1)
<1>1. PICK n \in Nat : n = Len(log)
    BY DEF LogInv
<1>2. OfDelegate(i)' <=>
         \E a \in 1..(i - 1) :
            /\ log[a] = "delegate" /\ Calm(a, i) /\ log[i] \notin {"delegate", "result"}
            /\ \E o \in (i + 1)..n : log[o] = "result" /\ Calm(a, o)
    BY <1>1 DEF OfDelegate, Calm
<1>3. ASSUME OfDelegate(i)' PROVE Inside(i, 1)
    <2>1. PICK a \in 1..(i - 1) :
             /\ log[a] = "delegate"
             /\ \E o \in (i + 1)..n : log[o] = "result" /\ Calm(a, o)
        BY <1>2, <1>3
    <2>2. PICK o \in (i + 1)..n : log[o] = "result" /\ Calm(a, o)
        BY <2>1
    <2>3. <<a, o>> \in (1..n) \X (1..n) /\ a < o /\ a < i /\ i < o
        BY <1>1
    <2>4. <<a, o>> \in Ranges(1)
        BY <1>1, <2>1, <2>2, <2>3 DEF Ranges
    <2> QED
        BY <2>3, <2>4 DEF Inside
<1>4. ASSUME Inside(i, 1) PROVE OfDelegate(i)'
    <2>1. PICK r \in Ranges(1) : r[1] < i /\ i < r[2]
        BY <1>4 DEF Inside
    <2>2. /\ r[1] \in 1..n /\ r[2] \in 1..n /\ log[r[1]] = "delegate"
          /\ log[r[2]] = "result" /\ Calm(r[1], r[2])
        BY <1>1 DEF Ranges
    <2>3. r[1] \in 1..(i - 1) /\ r[2] \in (i + 1)..n
        BY <1>1, <2>1, <2>2
    <2>4. i \in (r[1] + 1)..(r[2] - 1)
        BY <2>1, <2>2
    <2>5. log[i] \notin {"delegate", "result"}
        BY <2>2, <2>4 DEF Calm
    <2>6. Calm(r[1], i)
        BY <2>1, <2>2 DEF Calm
    <2> QED
        BY <1>2, <2>2, <2>3, <2>5, <2>6
<1> QED
    BY <1>3, <1>4

LEMMA RestartIInv ==
    ASSUME IInv, Restart
    PROVE  IInv'
<1>1. LogInv /\ Starts
    BY DEF IInv
<1>2. /\ log' = log /\ delegate' = 0 /\ savedStart' = savedStart
      /\ unheard' = {} /\ late' = {} /\ overtaken' = FALSE
      /\ restarts < MaxRestarts /\ restarts' = restarts + 1
      /\ history' = Filtered(Stored(savedStart)) /\ startId' = NewStart(savedStart)
    BY DEF Restart
<1>3. /\ savedStart \in Nat \ {0} /\ restarts \in 0..MaxRestarts
      /\ restarts = 0 => savedStart = 1
    BY <1>1 DEF Starts
<1>4. LogInv'
    BY <1>1, <1>2 DEF LogInv, Calm
<1>5. DelegateInv'
    BY <1>2 DEF DelegateInv
<1>6. PICK from \in Nat \ {0} : from = savedStart
    BY <1>3
<1>7. IsList(Stored(from), Kept(from))
    BY <1>1, StoredIsList
<1>8. IsList(history', {i \in Kept(from) : ~Inside(i, from)})
    BY <1>1, <1>2, <1>6, <1>7, FilteredIsList
<1>9. HistoryListed'
    <2>1. PICK h : h = history'
        OBVIOUS
    <2>2. /\ h \in Seq(Nat) /\ Len(h) \in Nat
          /\ \A i \in 1..Len(h) : h[i] \in {j \in Kept(from) : ~Inside(j, from)}
        BY <1>8, <2>1, MemberOf
    <2>3. PICK k \in Nat : k = Len(h)
        BY <2>2
    <2>4. \A i \in 1..k : h[i] \in 1..Len(log)
        BY <2>2, <2>3 DEF Kept
    <2>5. h \in Seq(1..Len(log)) /\ Ordered(h)
        <3>1. PICK D : D = 1..Len(log)
            OBVIOUS
        <3>2. h = [i \in 1..k |-> h[i]]
            BY <2>2, <2>3
        <3>3. [i \in 1..k |-> h[i]] \in Seq(D)
            BY <2>4, <3>1
        <3>4. h \in Seq(D)
            BY <3>2, <3>3, Zenon
        <3> QED
            BY <1>8, <2>1, <3>1, <3>4 DEF IsList
    <2>6. \A i, j \in 1..k : i # j => h[i] # h[j]
        <3>1. \A i, j \in 1..k : i < j => h[i] < h[j]
            BY <2>3, <2>5 DEF Ordered
        <3>2. \A i \in 1..k : h[i] \in Nat
            BY <2>2, <2>3
        <3> QED
            BY <3>1, <3>2
    <2> QED
        BY <1>2, <2>1, <2>3, <2>5, <2>6 DEF HistoryListed, Ordered
<1>10. Starts'
    <2>1. startId' \in Nat \ {0}
        BY <1>1, <1>2, <1>6, NewStartType
    <2>2. restarts' \in 0..MaxRestarts /\ restarts' # 0
        BY <1>2, <1>3, ConstantsAssumption
    <2> QED
        BY <1>2, <1>3, <2>1, <2>2 DEF Starts
<1>11. Complete'
    <2> SUFFICES ASSUME restarts' <= 1 PROVE IsList(history', Own')
        BY DEF Complete, IsList, Ordered, Members
    <2>1. from = 1
        BY <1>2, <1>3, <1>6
    <2>2. IsList(history', {i \in Kept(1) : ~Inside(i, 1)})
        BY <1>8, <2>1
    <2>3. ASSUME NEW i \in 1..Len(log) PROVE OfDelegate(i)' <=> Inside(i, 1)
        BY <1>1, <1>2, InsideOfDelegate
    <2>4. Own' = {i \in (1..Len(log)) : log[i] # "dropped" /\ ~OfDelegate(i)'}
        BY <1>2 DEF Own
    <2>5. \A i \in 1..Len(log) : i >= 1
        BY <1>1 DEF LogInv
    <2>6. Own' = {i \in Kept(1) : ~Inside(i, 1)}
        BY <2>3, <2>4, <2>5 DEF Kept
    <2> QED
        BY <2>2, <2>6
<1>12. WaitingInv' /\ LateInv' /\ PrefixInv'
    BY <1>2 DEF WaitingInv, LateInv, PrefixInv
<1> QED
    BY <1>4, <1>5, <1>9, <1>10, <1>11, <1>12 DEF IInv

LEMMA Unchanged ==
    ASSUME IInv, UNCHANGED <<log, unheard, history, delegate, restarts, late, overtaken>>, Starts'
    PROVE  IInv'
<1>1. LogInv' /\ DelegateInv' /\ WaitingInv' /\ HistoryListed' /\ PrefixInv'
    BY DEF IInv, LogInv, DelegateInv, WaitingInv, HistoryListed, PrefixInv, Calm, Ordered
<1>4. LateInv'
    BY DEF IInv, LateInv, Inside, Ranges, Calm
<1>2. Own' = Own
    BY DEF Own, OfDelegate
<1>3. Complete'
    BY <1>2 DEF IInv, Complete, IsList, Ordered, Members
<1> QED
    BY <1>1, <1>3, <1>4 DEF IInv

LEMMA NextIInv == IInv /\ [Next]_vars => IInv'
<1> SUFFICES ASSUME IInv, [Next]_vars PROVE IInv'
    OBVIOUS
<1>1. ASSUME NEW kind \in {"kept", "dropped"}, Publish(kind) PROVE IInv'
    BY <1>1, PublishIInv
<1>2. CASE Delegate
    BY <1>2, DelegateIInv
<1>3. ASSUME NEW i \in 1..MaxEvents,
             HearOwn(i) \/ StartDelegate(i) \/ Forward(i) \/ EndDelegate(i)
      PROVE  IInv'
    BY <1>3, HearOwnIInv, StartDelegateIInv, ForwardIInv, EndDelegateIInv
<1>4. CASE Save
    <2>1. UNCHANGED <<log, unheard, history, delegate, restarts, late, overtaken>>
        BY <1>4 DEF Save
    <2>2. Starts'
        BY <1>4 DEF Save, IInv, Starts
    <2> QED
        BY <2>1, <2>2, Unchanged
<1>5. CASE Restart
    BY <1>5, RestartIInv
<1>6. CASE UNCHANGED vars
    <2>1. UNCHANGED <<log, unheard, history, delegate, restarts, late, overtaken>>
        BY <1>6 DEF vars, session
    <2>2. Starts'
        BY <1>6 DEF vars, session, IInv, Starts
    <2> QED
        BY <2>1, <2>2, Unchanged
<1> QED
    BY <1>1, <1>2, <1>3, <1>4, <1>5, <1>6 DEF Next

\* IInv holds in every reachable state.
THEOREM Inductive == Spec => []IInv
<1>1. Init => IInv
    BY InitIInv
<1>2. IInv /\ [Next]_vars => IInv'
    BY NextIInv
<1> QED
    BY <1>1, <1>2, PTL DEF Spec

-----------------------------------------------------------------------------
(* What it implies.                                                        *)

\* After any number of restarts the history has no event twice, none that was not
\* heard, and is in the order of the stream if it was heard in it: _init_history
\* (state_tracker.py:101-200) joins what lies before, between and after the
\* delegations that it found, and on_event (agent_controller.py:443-475) gives an
\* event to the root or to its delegate.
THEOREM TypeCorrect == Spec => []TypeOK
<1>1. IInv => TypeOK
    <2> SUFFICES ASSUME IInv PROVE TypeOK
        OBVIOUS
    <2>1. PICK n \in Nat : n = Len(log)
        BY DEF IInv, LogInv
    <2>2. log \in Seq(Kinds) /\ DOMAIN log = 1..n
        BY <2>1 DEF IInv, LogInv
    <2>3. PICK m \in Nat : m = Len(history)
        BY DEF IInv, HistoryListed
    <2>4. /\ history \in Seq(1..n) /\ DOMAIN history = 1..m
          /\ \A i \in 1..m : history[i] \in (1..n) \ unheard
          /\ \A i, j \in 1..m : i # j => history[i] # history[j]
          /\ ~overtaken => \A i, j \in 1..m : i < j => history[i] < history[j]
        BY <2>1, <2>3 DEF IInv, HistoryListed, Ordered
    <2>5. history \in Seq((1..n) \ unheard)
        <3>1. PICK S : S = (1..n) \ unheard
            OBVIOUS
        <3>2. history = [i \in 1..m |-> history[i]]
            BY <2>3, <2>4
        <3>3. [i \in 1..m |-> history[i]] \in Seq(S)
            BY <2>4, <3>1
        <3> QED
            BY <3>1, <3>2, <3>3, Zenon
    <2>6. delegate \in 0..n
        BY <2>1 DEF IInv, DelegateInv
    <2>7. startId \in Nat /\ savedStart \in Nat /\ restarts \in 0..MaxRestarts
        BY DEF IInv, Starts
    <2>8. unheard \subseteq 1..n /\ late \subseteq 1..n /\ overtaken \in BOOLEAN
        BY <2>1 DEF IInv, LateInv, PrefixInv
    <2> QED
        BY <2>1, <2>2, <2>4, <2>5, <2>6, <2>7, <2>8 DEF TypeOK
<1> QED
    BY <1>1, Inductive, PTL

\* Live and after the first restart the history is the conversation that the root
\* has heard, without its delegates' own events, whatever was delegated and wherever
\* the process ended: what the docstring of _init_history says
\* (state_tracker.py:104-113), but for what a live root hears late or out of order.
\* The assumption is needed: HistoryInit_twice finds a second restart that begins at
\* the last delegation.
THEOREM HistoryComplete ==
    ASSUME MaxRestarts <= 1
    PROVE  Spec => []HistoryIsComplete
<1>1. ASSUME IInv PROVE HistoryIsComplete
    <2> SUFFICES ASSUME ~overtaken
                 PROVE  history = Picked(Ids, {i \in DOMAIN log \ unheard :
                            log[i] # "dropped" /\ (OfDelegate(i) => i \in late)})
        BY DEF HistoryIsComplete
    <2>1. LogInv /\ Len(log) \in Nat /\ DOMAIN log = 1..Len(log)
        BY <1>1 DEF IInv, LogInv
    <2>2. restarts <= 1
        BY <1>1, ConstantsAssumption DEF IInv, Starts
    <2>3. IsList(history, Own)
        BY <1>1, <2>2 DEF IInv, Complete
    <2>4. Own \in SUBSET (1..Len(log))
        BY DEF Own
    <2>5. IsList(Picked(Ids, Own), Own)
        BY <2>1, <2>4, IdsList
    <2>6. history = Picked(Ids, Own)
        BY <2>3, <2>5, ListIsUnique
    <2>7. Own = {i \in DOMAIN log \ unheard :
                    log[i] # "dropped" /\ (OfDelegate(i) => i \in late)}
        BY <2>1 DEF Own
    <2> QED
        BY <2>6, <2>7
<1> QED
    BY <1>1, Inductive, PTL
=============================================================================
