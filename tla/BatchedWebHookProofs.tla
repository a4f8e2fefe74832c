------------------------ MODULE BatchedWebHookProofs ------------------------
(***************************************************************************)
(* Proofs about BatchedWebHook, for any threads, paths, sizes and bounds:  *)
(* types, that no change is left behind in a batch nobody will send, that  *)
(* the service has the last change when nothing is under way, and that the *)
(* size that is kept is the sum of the sizes in the batch.                 *)
(***************************************************************************)
EXTENDS BatchedWebHook, FiniteSetTheorems, WellFoundedInduction, TLAPS

\* flush() keeps the lock while it sends, and has emptied the batch before.
FlushedIsEmpty == flushTry > 0 => batch = EmptyBatch

IInv == TypeOK /\ FlushedIsEmpty /\ PendingIsScheduled

\* What a path can be mapped to.
State == Change \cup {Never}

Entry == [batch : Batches, tries : 0..Attempts - 1]

LEMMA EmptyIsBatch == EmptyBatch \in Batches
BY DEF EmptyBatch, Batches

LEMMA IdleIsDoing == Idle \in [path : Paths, change : State]
<1>1. (CHOOSE p \in Paths : TRUE) \in Paths
    BY WebHookAssumption
<1> QED
    BY <1>1 DEF Idle, State

LEMMA StateSize == \A c \in State : c.size \in Int
<1>1. \A n \in Sizes \cup {0} : n \in Int
    BY WebHookAssumption
<1>2. \A c \in Change : c.size \in Sizes \cup {0}
    BY DEF Change
<1>3. Never.size \in Int
    BY DEF Never
<1> QED
    BY <1>1, <1>2, <1>3 DEF State

\* A batch with one more change is a batch.
LEMMA PutIsBatch ==
    ASSUME NEW b \in Batches, NEW p \in Paths, NEW c \in State
    PROVE  [b EXCEPT ![p] = c] \in Batches
BY DEF Batches, State

\* What the service has after a batch.
LEMMA ProcessedIsTyped ==
    ASSUME remote \in [Paths -> State], NEW b \in Batches
    PROVE  Processed(b) \in [Paths -> State]
BY DEF Processed, Batches, State

\* Taking an entry out of the pool's queue leaves a queue.
LEMMA RemoveIsTyped ==
    ASSUME jobs \in Seq(Entry), NEW i \in DOMAIN jobs
    PROVE  Remove(i) \in Seq(Entry)
<1>1. Len(jobs) \in Nat /\ DOMAIN jobs = 1..Len(jobs)
    OBVIOUS
<1>2. \A k \in 1..Len(jobs) - 1 : jobs[IF k < i THEN k ELSE k + 1] \in Entry
    BY <1>1
<1>3. Remove(i) \in [1..Len(jobs) - 1 -> Entry]
    BY <1>2 DEF Remove
<1>4. Len(jobs) - 1 \in Nat
    BY <1>1
<1> QED
    BY <1>3, <1>4

LEMMA InitIInv == Init => IInv
<1> SUFFICES ASSUME Init PROVE IInv
    OBVIOUS
<1>1. [p \in Paths |-> Never] \in [Paths -> State]
    BY DEF State
<1>2. TypeOK
    <2>1. batch \in Batches /\ flushing \in Batches
        BY EmptyIsBatch DEF Init
    <2>2. doing \in [Writers -> [path : Paths, change : State]]
        BY IdleIsDoing DEF Init
    <2>3. jobs \in Seq([batch : Batches, tries : 0..Attempts - 1])
        BY DEF Init
    <2>4. local \in [Paths -> State] /\ remote \in [Paths -> State]
        BY <1>1 DEF Init
    <2>5. pc \in [Writers -> {"idle", "queue"}] /\ excused \subseteq Paths
        BY DEF Init
    <2>6. timer \in BOOLEAN
        BY DEF Init
    <2>7. /\ size \in Int /\ fired \in Nat
          /\ flushTry \in 0..Attempts
          /\ changes \in 0..MaxChanges /\ flushes \in 0..MaxFlushes
        BY WebHookAssumption DEF Init, Attempts
    <2> QED
        BY <2>1, <2>2, <2>3, <2>4, <2>5, <2>6, <2>7, Zenon DEF TypeOK, State
<1>3. FlushedIsEmpty /\ PendingIsScheduled
    BY DEF Init, FlushedIsEmpty, PendingIsScheduled
<1> QED
    BY <1>2, <1>3 DEF IInv

\* _enqueue_batch_from_lock: the batch goes to the end of the queue.
LEMMA EnqueueTyped ==
    ASSUME TypeOK, NEW b \in Batches, Enqueue(b)
    PROVE  /\ jobs' \in Seq(Entry) /\ batch' = EmptyBatch /\ batch' \in Batches
           /\ size' \in Int /\ timer' \in BOOLEAN /\ excused' \subseteq Paths
<1>1. [batch |-> b, tries |-> 0] \in Entry
    <2>1. 0 \in 0..Attempts - 1
        BY DEF Attempts
    <2> QED
        BY <2>1 DEF Entry
<1>2. jobs \in Seq(Entry)
    BY DEF TypeOK, Entry
<1>3. jobs' \in Seq(Entry)
    BY <1>1, <1>2 DEF Enqueue, Submitted
<1>4. Overlap(b) \subseteq Paths
    BY DEF Overlap, InBatch
<1>5. batch' = EmptyBatch /\ batch' \in Batches
    BY EmptyIsBatch DEF Enqueue
<1>6. size' \in Int
    BY DEF Enqueue
<1>7. timer' \in BOOLEAN
    BY DEF Enqueue
<1>8. excused' \subseteq Paths
    BY <1>4 DEF Enqueue, TypeOK
<1> QED
    BY <1>3, <1>5, <1>6, <1>7, <1>8, Zenon

-----------------------------------------------------------------------------
(* Types.                                                                  *)

LEMMA TypeStep == TypeOK /\ [Next]_vars => TypeOK'
<1> SUFFICES ASSUME TypeOK, [Next]_vars PROVE TypeOK'
    OBVIOUS
<1>1. ASSUME NEW w \in Writers, ChangeFile(w) PROVE TypeOK'
    <2>1. PICK p \in Paths, n \in Sizes \cup {0} :
              LET c == [num |-> changes', size |-> n] IN
              /\ local' = [local EXCEPT ![p] = c]
              /\ doing' = [doing EXCEPT ![w] = [path |-> p, change |-> c]]
              /\ excused' \in {excused, excused \cup {p}}
        BY <1>1 DEF ChangeFile
    <2>2. changes' \in 1..MaxChanges
        BY <1>1, WebHookAssumption DEF ChangeFile, TypeOK
    <2>3. [num |-> changes', size |-> n] \in State
        BY <2>2 DEF State, Change
    <2>4. local' \in [Paths -> State] /\ excused' \subseteq Paths
        BY <2>1, <2>3 DEF TypeOK, State
    <2>5. doing' \in [Writers -> [path : Paths, change : State]]
        BY <2>1, <2>3 DEF TypeOK, State
    <2>6. pc' \in [Writers -> {"idle", "queue"}]
        BY <1>1 DEF ChangeFile, TypeOK
    <2>7. changes' \in 0..MaxChanges
        BY <2>2
    <2> QED
        BY <1>1, <2>4, <2>5, <2>6, <2>7, Zenon DEF ChangeFile, TypeOK, State
<1>2. ASSUME NEW w \in Writers, Queue(w) PROVE TypeOK'
    <2>1. doing[w] \in [path : Paths, change : State]
        BY DEF TypeOK, State
    <2>2. doing[w].path \in Paths /\ doing[w].change \in State
        BY <2>1
    <2>3. [batch EXCEPT ![doing[w].path] = doing[w].change] \in Batches
        BY <2>2, PutIsBatch DEF TypeOK
    <2>4. pc' \in [Writers -> {"idle", "queue"}]
        BY <1>2 DEF Queue, QueueUpdate_Full, QueueUpdate_Wait, TypeOK
    <2>5. doing' \in [Writers -> [path : Paths, change : State]]
        BY <1>2, IdleIsDoing
           DEF Queue, QueueUpdate_Full, QueueUpdate_Wait, TypeOK, State
    <2>6. CASE QueueUpdate_Full(w)
        <3>1. Enqueue([batch EXCEPT ![doing[w].path] = doing[w].change])
            BY <2>6 DEF QueueUpdate_Full
        <3>2. /\ jobs' \in Seq(Entry) /\ batch' \in Batches /\ size' \in Int
              /\ timer' \in BOOLEAN /\ excused' \subseteq Paths
            BY <2>3, <3>1, EnqueueTyped
        <3> QED
            BY <2>4, <2>5, <2>6, <3>2, Zenon
               DEF QueueUpdate_Full, TypeOK, Entry, State
    <2>7. CASE QueueUpdate_Wait(w)
        <3>1. timer' \in BOOLEAN
            BY <2>7 DEF QueueUpdate_Wait, Rearm
        <3>2. batch[doing[w].path] \in State
            BY <2>2 DEF TypeOK, Batches, State
        <3>3. size' \in Int
            <4>1. size' = size - batch[doing[w].path].size + doing[w].change.size
                BY <2>7 DEF QueueUpdate_Wait, NewSize
            <4>2. batch[doing[w].path].size \in Int /\ doing[w].change.size \in Int
                BY <2>2, <3>2, StateSize
            <4> QED
                BY <4>1, <4>2 DEF TypeOK
        <3>4. batch' \in Batches
            BY <2>3, <2>7 DEF QueueUpdate_Wait
        <3> QED
            BY <2>4, <2>5, <2>7, <3>1, <3>3, <3>4, Zenon
               DEF QueueUpdate_Wait, TypeOK, State
    <2> QED
        BY <1>2, <2>6, <2>7 DEF Queue
<1>3. CASE TimerFires
    <2>1. fired' \in Nat
        BY <1>3 DEF TimerFires, TypeOK
    <2>2. timer' \in BOOLEAN
        BY <1>3 DEF TimerFires
    <2> QED
        BY <1>3, <2>1, <2>2, Zenon DEF TimerFires, TypeOK
<1>4. CASE TimerEnqueues
    <2>1. fired' \in Nat
        BY <1>4 DEF TimerEnqueues, TypeOK
    <2>2. /\ jobs' \in Seq(Entry) /\ batch' \in Batches /\ size' \in Int
          /\ timer' \in BOOLEAN /\ excused' \subseteq Paths
        BY <1>4, EnqueueTyped DEF TimerEnqueues, TypeOK
    <2> QED
        BY <1>4, <2>1, <2>2, Zenon DEF TimerEnqueues, TypeOK, Entry
<1>5. ASSUME NEW i \in 1..Workers, Send(i) PROVE TypeOK'
    <2>1. i \in DOMAIN jobs /\ jobs \in Seq(Entry)
        BY <1>5 DEF Send, SendSucceeds, SendFails, TypeOK, Entry
    <2>2. jobs[i] \in Entry
        BY <2>1
    <2>3. Processed(jobs[i].batch) \in [Paths -> State]
        BY <2>2, ProcessedIsTyped DEF Entry, TypeOK, State
    <2>4. remote' \in [Paths -> State]
        BY <1>5, <2>3 DEF Send, SendSucceeds, SendFails, TypeOK, State
    <2>5. Remove(i) \in Seq(Entry)
        BY <2>1, RemoveIsTyped
    <2>6. excused' \subseteq Paths
        BY <1>5 DEF Send, SendSucceeds, SendFails, InBatch, TypeOK
    <2>7. jobs' \in Seq(Entry)
        <3>1. CASE jobs' = Remove(i)
            BY <2>5, <3>1
        <3>2. CASE jobs' = [jobs EXCEPT ![i].tries = @ + 1]
                   /\ ~LastAttempt(jobs[i].tries)
            <4>1. jobs[i].tries + 1 \in 0..Attempts - 1
                BY <2>2, <3>2 DEF Entry, LastAttempt, Attempts
            <4>2. [jobs[i] EXCEPT !.tries = @ + 1] \in Entry
                BY <2>2, <4>1 DEF Entry
            <4>3. jobs' = [jobs EXCEPT ![i] = [jobs[i] EXCEPT !.tries = @ + 1]]
                BY <2>1, <2>2, <3>2 DEF Entry
            <4> QED
                BY <2>1, <4>2, <4>3
        <3> QED
            BY <1>5, <3>1, <3>2 DEF Send, SendSucceeds, SendFails
    <2> QED
        BY <1>5, <2>4, <2>6, <2>7, Zenon
           DEF Send, SendSucceeds, SendFails, TypeOK, State, Entry
<1>6. CASE Flush_Begin
    <2>1. flushes' \in 0..MaxFlushes
        BY <1>6, WebHookAssumption DEF Flush_Begin, TypeOK
    <2>2. batch' \in Batches /\ flushing' \in Batches
        BY <1>6, EmptyIsBatch DEF Flush_Begin, TypeOK
    <2>3. size' \in Int /\ flushTry' \in 0..Attempts
        BY <1>6 DEF Flush_Begin, TypeOK, Attempts
    <2>4. excused' \subseteq Paths
        BY <1>6 DEF Flush_Begin, Overlap, InBatch, TypeOK
    <2>5. timer' \in BOOLEAN
        BY <1>6, Zenon DEF Flush_Begin, TypeOK
    <2> QED
        BY <1>6, <2>1, <2>2, <2>3, <2>4, <2>5, Zenon DEF Flush_Begin, TypeOK
<1>7. CASE Flushing
    <2>1. Processed(flushing) \in [Paths -> State]
        BY ProcessedIsTyped DEF TypeOK, State
    <2>2. remote' \in [Paths -> State]
        BY <1>7, <2>1 DEF Flushing, Flush_End, Flush_Retry, TypeOK, State
    <2>3. excused' \subseteq Paths
        BY <1>7 DEF Flushing, Flush_End, Flush_Retry, InBatch, TypeOK
    <2>4. flushTry' \in 0..Attempts
        BY <1>7 DEF Flushing, Flush_End, Flush_Retry, Attempts
    <2>5. timer' \in BOOLEAN
        BY <1>7, Zenon DEF Flushing, Flush_End, Flush_Retry, TypeOK
    <2>6. flushing' \in Batches
        BY <1>7, EmptyIsBatch DEF Flushing, Flush_End, Flush_Retry, TypeOK
    <2> QED
        BY <1>7, <2>2, <2>3, <2>4, <2>5, <2>6, Zenon
           DEF Flushing, Flush_End, Flush_Retry, TypeOK, State
<1>8. CASE UNCHANGED vars
    BY <1>8, Zenon DEF vars, TypeOK
<1> QED
    BY <1>1, <1>2, <1>3, <1>4, <1>5, <1>6, <1>7, <1>8 DEF Next

\* _enqueue_batch_from_lock and the timer (batched_web_hook.py:163-177): types
\* are right, whatever the interleaving of writers, timers, pool and flush.
THEOREM TypeCorrect == Spec => []TypeOK
<1>1. Init => TypeOK
    BY InitIInv DEF IInv
<1> QED
    BY <1>1, TypeStep, PTL DEF Spec

-----------------------------------------------------------------------------
(* A batch is never left behind.                                           *)

LEMMA NextIInv == IInv /\ [Next]_vars => IInv'
<1> SUFFICES ASSUME IInv, [Next]_vars PROVE (FlushedIsEmpty /\ PendingIsScheduled)'
    BY TypeStep DEF IInv
<1> USE DEF FlushedIsEmpty, PendingIsScheduled
<1>0. fired \in Nat /\ flushTry \in 0..Attempts
    BY DEF IInv, TypeOK
<1>1. ASSUME NEW w \in Writers, ChangeFile(w)
      PROVE  (FlushedIsEmpty /\ PendingIsScheduled)'
    BY <1>1 DEF ChangeFile, IInv
<1>2. ASSUME NEW w \in Writers, QueueUpdate_Full(w)
      PROVE  (FlushedIsEmpty /\ PendingIsScheduled)'
    BY <1>2 DEF QueueUpdate_Full, Enqueue
<1>3. ASSUME NEW w \in Writers, QueueUpdate_Wait(w)
      PROVE  (FlushedIsEmpty /\ PendingIsScheduled)'
    BY <1>3 DEF QueueUpdate_Wait, Rearm, LockFree
<1>4. CASE TimerFires
    BY <1>0, <1>4 DEF TimerFires, IInv
<1>5. CASE TimerEnqueues
    BY <1>5 DEF TimerEnqueues, Enqueue
<1>6. ASSUME NEW i \in 1..Workers, Send(i)
      PROVE  (FlushedIsEmpty /\ PendingIsScheduled)'
    BY <1>6 DEF Send, SendSucceeds, SendFails, IInv
<1>7. CASE Flush_Begin
    BY <1>7 DEF Flush_Begin
<1>8. CASE Flushing
    BY <1>0, <1>8 DEF Flushing, Flush_End, Flush_Retry, Attempts, IInv
<1>9. CASE UNCHANGED vars
    BY <1>9 DEF vars, IInv
<1> QED
    BY <1>1, <1>2, <1>3, <1>4, <1>5, <1>6, <1>7, <1>8, <1>9 DEF Next, Queue

\* A change that was not sent yet has a timer that will send it, running or
\* waiting for the lock (batched_web_hook.py:163-177), for any number of
\* writers, changes, flushes and pool threads.
THEOREM NothingLeftBehind == Spec => []PendingIsScheduled
<1>1. IInv => PendingIsScheduled
    BY DEF IInv
<1> QED
    BY InitIInv, NextIInv, <1>1, PTL DEF Spec

-----------------------------------------------------------------------------
(* Where the last change of a path is.                                     *)

Queueing(w, p) == pc[w] = "queue" /\ doing[w].path = p

\* A change of p is on its way to the current batch, or in it.
Newer(p) == batch[p] # Never \/ \E w \in Writers : Queueing(w, p)

\* The last change of a path moves from its writer to the batch, from there to
\* one batch that is being sent, and from there to the service: the last of
\* these places that has a change of the path has the last one.
LastInBatch(p) ==
    /\ \A v, w \in Writers : Queueing(v, p) /\ Queueing(w, p) => v = w
    /\ \A w \in Writers : Queueing(w, p) => doing[w].change = local[p]
    /\ (\A w \in Writers : ~Queueing(w, p)) => batch[p] \in {Never, local[p]}

SentOnce(p) ==
    /\ \A i, j \in DOMAIN jobs :
          jobs[i].batch[p] # Never /\ jobs[j].batch[p] # Never => i = j
    /\ flushing[p] # Never => \A i \in DOMAIN jobs : jobs[i].batch[p] = Never

LastIsSent(p) ==
    ~Newer(p) =>
        /\ flushing[p] \in {Never, local[p]}
        /\ \A i \in DOMAIN jobs : jobs[i].batch[p] \in {Never, local[p]}
        /\ flushing[p] = Never /\ (\A i \in DOMAIN jobs : jobs[i].batch[p] = Never)
              => remote[p] = local[p]

Tracked(p) == LastInBatch(p) /\ SentOnce(p) /\ LastIsSent(p)

TrackInv ==
    /\ LockFree => flushing = EmptyBatch
    /\ \A w \in Writers : pc[w] = "queue" => doing[w].change # Never
    /\ \A p \in Paths \ excused : Tracked(p)

\* Batch b goes to the pool: it has the path's last change, unless a newer one
\* comes, and no other batch that is being sent has the path.
LEMMA EnqueueTracks ==
    ASSUME TypeOK, NEW b \in Batches, Enqueue(b), NEW p \in Paths \ excused',
           LastInBatch(p), SentOnce(p), LastIsSent(p),
           UNCHANGED <<local, flushing, remote>>,
           \A v, w \in Writers : Queueing(v, p)' /\ Queueing(w, p)' => v = w,
           \A w \in Writers : Queueing(w, p)' => doing'[w].change = local[p],
           (\A w \in Writers : ~Queueing(w, p)') => b[p] \in {Never, local[p]},
           b[p] = Never => (Newer(p) => \E w \in Writers : Queueing(w, p)')
    PROVE  Tracked(p)'
<1>1. /\ jobs \in Seq(Entry) /\ batch'[p] = Never /\ Len(jobs) \in Nat
      /\ DOMAIN jobs = 1..Len(jobs)
    BY DEF TypeOK, Entry, Enqueue, EmptyBatch
<1>2. LastInBatch(p)'
    BY <1>1 DEF LastInBatch
<1>3. CASE b[p] = Never
    <2>1. \A i \in DOMAIN jobs' : \/ i \in DOMAIN jobs /\ jobs'[i] = jobs[i]
                                  \/ i = Len(jobs) + 1 /\ jobs'[i].batch[p] = Never
        BY <1>1, <1>3 DEF Enqueue, Submitted
    <2>2. \A i \in DOMAIN jobs : i \in DOMAIN jobs' /\ jobs'[i] = jobs[i]
        BY <1>1 DEF Enqueue, Submitted
    <2>3. SentOnce(p)'
        BY <2>1 DEF SentOnce
    <2>4. LastIsSent(p)'
        <3> SUFFICES ASSUME ~Newer(p)'
                     PROVE  /\ flushing[p] \in {Never, local[p]}
                            /\ \A i \in DOMAIN jobs' :
                                  jobs'[i].batch[p] \in {Never, local[p]}
                            /\ flushing[p] = Never
                               /\ (\A i \in DOMAIN jobs' : jobs'[i].batch[p] = Never)
                                  => remote[p] = local[p]
            BY DEF LastIsSent
        <3>1. ~Newer(p)
            BY <1>3 DEF Newer
        <3> QED
            BY <2>1, <2>2, <3>1 DEF LastIsSent
    <2> QED
        BY <1>2, <2>3, <2>4 DEF Tracked
<1>4. CASE b[p] # Never
    <2>1. jobs' = Append(jobs, [batch |-> b, tries |-> 0])
        BY <1>4 DEF Enqueue, Submitted, EmptyBatch
    <2>2. flushing[p] = Never /\ \A i \in DOMAIN jobs : jobs[i].batch[p] = Never
        BY <1>4 DEF Enqueue, Overlap, InBatch
    <2>3. \A i \in DOMAIN jobs' : \/ i # Len(jobs) + 1 /\ jobs'[i].batch[p] = Never
                                  \/ i = Len(jobs) + 1 /\ jobs'[i].batch = b
        BY <1>1, <2>1, <2>2
    <2>4. Len(jobs) + 1 \in DOMAIN jobs'
        BY <1>1, <2>1
    <2>5. SentOnce(p)'
        BY <2>2, <2>3 DEF SentOnce
    <2>6. LastIsSent(p)'
        BY <1>4, <2>2, <2>3, <2>4 DEF LastIsSent, Newer
    <2> QED
        BY <1>2, <2>5, <2>6 DEF Tracked
<1> QED
    BY <1>3, <1>4

\* Taking one batch out of the pool's queue leaves the others.
LEMMA OthersRemain ==
    ASSUME jobs \in Seq(Entry), NEW i \in DOMAIN jobs, jobs' = Remove(i)
    PROVE  /\ \A k \in DOMAIN jobs' : \E j \in DOMAIN jobs \ {i} :
                 jobs'[k] = jobs[j]
           /\ \A k, l \in DOMAIN jobs' : k # l =>
                 \E j, m \in DOMAIN jobs \ {i} :
                    j # m /\ jobs'[k] = jobs[j] /\ jobs'[l] = jobs[m]
           /\ \A j \in DOMAIN jobs \ {i} : \E k \in DOMAIN jobs' : jobs'[k] = jobs[j]
<1> DEFINE from(k) == IF k < i THEN k ELSE k + 1
<1>0. PICK n \in Nat : n = Len(jobs) /\ DOMAIN jobs = 1..n
    OBVIOUS
<1>1. DOMAIN jobs' = 1..n - 1 /\ \A k \in 1..n - 1 : jobs'[k] = jobs[from(k)]
    BY <1>0 DEF Remove
<1>2. \A k \in 1..n - 1 : from(k) \in (1..n) \ {i}
    BY <1>0
<1>3. \A k, l \in 1..n - 1 : k # l => from(k) # from(l)
    BY <1>0
<1>4. ASSUME NEW j \in (1..n) \ {i}
      PROVE  \E k \in 1..n - 1 : from(k) = j
    <2>1. CASE j < i
        <3>1. j \in 1..n - 1 /\ from(j) = j
            BY <1>0, <2>1
        <3> QED
            BY <3>1
    <2>2. CASE ~(j < i)
        <3>1. j - 1 \in 1..n - 1 /\ from(j - 1) = j
            BY <1>0, <2>2
        <3> QED
            BY <3>1
    <2> QED
        BY <2>1, <2>2
<1> HIDE DEF from
<1>5. \A k \in DOMAIN jobs' : \E j \in DOMAIN jobs \ {i} : jobs'[k] = jobs[j]
    BY <1>0, <1>1, <1>2
<1>6. ASSUME NEW k \in DOMAIN jobs', NEW l \in DOMAIN jobs', k # l
      PROVE  \E j, m \in DOMAIN jobs \ {i} :
                j # m /\ jobs'[k] = jobs[j] /\ jobs'[l] = jobs[m]
    BY <1>0, <1>1, <1>2, <1>3, <1>6
<1>7. \A j \in DOMAIN jobs \ {i} : \E k \in DOMAIN jobs' : jobs'[k] = jobs[j]
    BY <1>0, <1>1, <1>4
<1> QED
    BY <1>5, <1>6, <1>7

\* A batch leaves the pool: it was processed, or had no change of p.
Leaves(i, p) ==
    /\ jobs' = Remove(i)
    /\ UNCHANGED <<local, pc, doing, batch, flushing>>
    /\ \/ remote' = Processed(jobs[i].batch)
       \/ remote' = remote /\ jobs[i].batch[p] = Never

LEMMA SendTracks ==
    ASSUME TypeOK, NEW i \in DOMAIN jobs, NEW p \in Paths, Tracked(p), Leaves(i, p)
    PROVE  Tracked(p)'
<1> USE DEF Leaves
<1>0. jobs \in Seq(Entry)
    BY DEF TypeOK, Entry
<1>1. LastInBatch(p)' /\ (Newer(p)' <=> Newer(p))
    BY DEF Tracked, LastInBatch, Queueing, Newer
<1>a. /\ \A k \in DOMAIN jobs' : \E j \in DOMAIN jobs \ {i} : jobs'[k] = jobs[j]
      /\ \A k, l \in DOMAIN jobs' : k # l =>
            \E j, m \in DOMAIN jobs \ {i} :
               j # m /\ jobs'[k] = jobs[j] /\ jobs'[l] = jobs[m]
      /\ \A j \in DOMAIN jobs \ {i} : \E k \in DOMAIN jobs' : jobs'[k] = jobs[j]
    BY <1>0, OthersRemain
<1>2. SentOnce(p)'
    <2>0. SentOnce(p)
        BY DEF Tracked
    <2>1. ASSUME NEW k \in DOMAIN jobs', NEW l \in DOMAIN jobs',
                 jobs'[k].batch[p] # Never, jobs'[l].batch[p] # Never
          PROVE  k = l
        <3> SUFFICES ASSUME k # l PROVE FALSE
            OBVIOUS
        <3>1. PICK j, m \in DOMAIN jobs \ {i} :
                 j # m /\ jobs'[k] = jobs[j] /\ jobs'[l] = jobs[m]
            BY <1>a
        <3> QED
            BY <2>0, <2>1, <3>1 DEF SentOnce
    <2>2. ASSUME flushing[p] # Never, NEW k \in DOMAIN jobs'
          PROVE  jobs'[k].batch[p] = Never
        BY <1>a, <2>0, <2>2 DEF SentOnce
    <2> QED
        BY <2>1, <2>2 DEF SentOnce
<1>3. LastIsSent(p)'
    <2> SUFFICES ASSUME ~Newer(p)
                 PROVE  /\ flushing[p] \in {Never, local[p]}
                        /\ \A k \in DOMAIN jobs' :
                              jobs'[k].batch[p] \in {Never, local[p]}
                        /\ flushing[p] = Never
                           /\ (\A k \in DOMAIN jobs' : jobs'[k].batch[p] = Never)
                              => remote'[p] = local[p]
        BY <1>1 DEF LastIsSent
    <2>1. LastIsSent(p) /\ SentOnce(p)
        BY DEF Tracked
    <2>2. /\ flushing[p] \in {Never, local[p]}
          /\ \A k \in DOMAIN jobs' : jobs'[k].batch[p] \in {Never, local[p]}
        BY <1>a, <2>1 DEF LastIsSent
    <2>3. CASE jobs[i].batch[p] = Never
        <3>1. remote'[p] = remote[p]
            BY <2>3 DEF Processed
        <3>2. (\A k \in DOMAIN jobs' : jobs'[k].batch[p] = Never)
                 => \A j \in DOMAIN jobs : jobs[j].batch[p] = Never
            BY <1>a, <2>3
        <3> QED
            BY <2>1, <2>2, <3>1, <3>2 DEF LastIsSent
    <2>4. CASE jobs[i].batch[p] # Never
        <3>1. remote'[p] = jobs[i].batch[p]
            BY <2>4 DEF Processed
        <3> QED
            BY <2>1, <2>2, <2>4, <3>1 DEF LastIsSent
    <2> QED
        BY <2>3, <2>4
<1> QED
    BY <1>1, <1>2, <1>3 DEF Tracked

\* An attempt that is not the last leaves every batch where it is.
LEMMA RetryTracks ==
    ASSUME NEW p \in Paths, Tracked(p),
           UNCHANGED <<local, pc, doing, batch, flushing>>,
           DOMAIN jobs' = DOMAIN jobs,
           \A k \in DOMAIN jobs : jobs'[k].batch = jobs[k].batch,
           \/ remote'[p] = remote[p] \/ flushing[p] # Never
           \/ \E k \in DOMAIN jobs : jobs[k].batch[p] # Never
    PROVE  Tracked(p)'
<1>1. LastInBatch(p)' /\ (Newer(p)' <=> Newer(p))
    BY DEF Tracked, LastInBatch, Queueing, Newer
<1>2. SentOnce(p)'
    BY DEF Tracked, SentOnce
<1>3. LastIsSent(p)'
    BY <1>1 DEF Tracked, LastIsSent
<1> QED
    BY <1>1, <1>2, <1>3 DEF Tracked

LEMMA InitTracks == Init => TrackInv
<1> SUFFICES ASSUME Init PROVE TrackInv
    OBVIOUS
<1>1. ASSUME NEW p \in Paths PROVE Tracked(p)
    BY <1>1 DEF Init, Tracked, LastInBatch, SentOnce, LastIsSent, Queueing,
                EmptyBatch
<1> QED
    BY <1>1 DEF Init, TrackInv

LEMMA ChangeTracks ==
    ASSUME TypeOK, TrackInv, NEW w \in Writers, ChangeFile(w)
    PROVE  TrackInv'
<1>1. PICK q \in Paths, n \in Sizes \cup {0} :
          LET c == [num |-> changes', size |-> n] IN
          /\ local' = [local EXCEPT ![q] = c]
          /\ doing' = [doing EXCEPT ![w] = [path |-> q, change |-> c]]
          /\ excused' = IF \E v \in Writers \ {w} :
                              pc[v] = "queue" /\ doing[v].path = q
                        THEN excused \cup {q} ELSE excused
    BY DEF ChangeFile
<1> DEFINE c == [num |-> changes', size |-> n]
<1>2. changes' > 0 /\ c # Never
    BY DEF ChangeFile, TypeOK, Never
<1>3. /\ local' = [local EXCEPT ![q] = c]
      /\ doing' = [doing EXCEPT ![w] = [path |-> q, change |-> c]]
      /\ pc[w] = "idle" /\ pc' = [pc EXCEPT ![w] = "queue"]
      /\ UNCHANGED <<batch, flushTry, flushing, jobs, remote>>
    BY <1>1 DEF ChangeFile
<1> HIDE DEF c
<1>4. /\ \A v \in Writers \ {w} : pc'[v] = pc[v] /\ doing'[v] = doing[v]
      /\ pc'[w] = "queue" /\ doing'[w].path = q /\ doing'[w].change = c
      /\ local'[q] = c /\ \A p \in Paths \ {q} : local'[p] = local[p]
    BY <1>3 DEF TypeOK
<1>5. \A v \in Writers : pc'[v] = "queue" => doing'[v].change # Never
    BY <1>2, <1>4 DEF TrackInv
<1>6. ASSUME NEW p \in Paths \ excused' PROVE Tracked(p)'
    <2>1. p \notin excused /\ Tracked(p)
        BY <1>1, <1>6 DEF TrackInv
    <2>2. CASE p = q
        <3>1. \A v \in Writers \ {w} : ~Queueing(v, p)
            BY <1>1, <1>6, <2>2 DEF Queueing
        <3>2. \A v \in Writers : Queueing(v, p)' <=> v = w
            BY <1>4, <2>2, <3>1 DEF Queueing
        <3>3. LastInBatch(p)' /\ Newer(p)'
            BY <1>4, <2>2, <3>2 DEF LastInBatch, Newer
        <3>4. SentOnce(p)'
            BY <1>3, <2>1 DEF Tracked, SentOnce
        <3> QED
            BY <3>3, <3>4 DEF Tracked, LastIsSent
    <2>3. CASE p # q
        <3>1. \A v \in Writers : /\ Queueing(v, p)' <=> Queueing(v, p)
                                 /\ Queueing(v, p) => doing'[v] = doing[v]
            BY <1>3, <1>4, <2>3 DEF Queueing
        <3>2. LastInBatch(p)' /\ (Newer(p)' <=> Newer(p))
            BY <1>3, <1>4, <2>1, <2>3, <3>1 DEF Tracked, LastInBatch, Newer
        <3>3. SentOnce(p)' /\ LastIsSent(p)'
            BY <1>3, <1>4, <2>1, <2>3, <3>2 DEF Tracked, SentOnce, LastIsSent
        <3> QED
            BY <3>2, <3>3 DEF Tracked
    <2> QED
        BY <2>2, <2>3
<1> QED
    BY <1>3, <1>5, <1>6 DEF TrackInv, LockFree

\* What both kinds of _queue_update do to the writers.
LEMMA QueueLeaves ==
    ASSUME TypeOK, TrackInv, NEW w \in Writers, Queue(w), NEW p \in Paths \ excused
    PROVE  /\ \A v \in Writers : /\ Queueing(v, p)' <=> v # w /\ Queueing(v, p)
                                 /\ Queueing(v, p)' => doing'[v] = doing[v]
           /\ Queueing(w, doing[w].path)
           /\ p = doing[w].path => /\ \A v \in Writers : ~Queueing(v, p)'
                                   /\ doing[w].change = local[p]
<1>1. /\ pc[w] = "queue" /\ pc' = [pc EXCEPT ![w] = "idle"]
      /\ doing' = [doing EXCEPT ![w] = Idle]
    BY DEF Queue, QueueUpdate_Full, QueueUpdate_Wait
<1>2. /\ pc'[w] = "idle"
      /\ \A v \in Writers \ {w} : pc'[v] = pc[v] /\ doing'[v] = doing[v]
    BY <1>1 DEF TypeOK
<1>3. Tracked(p)
    BY DEF TrackInv
<1>4. \A v \in Writers : /\ Queueing(v, p)' <=> v # w /\ Queueing(v, p)
                         /\ Queueing(v, p)' => doing'[v] = doing[v]
    BY <1>2 DEF Queueing
<1>5. Queueing(w, doing[w].path)
    BY <1>1 DEF Queueing
<1>6. p = doing[w].path => /\ \A v \in Writers : ~Queueing(v, p)'
                           /\ doing[w].change = local[p]
    BY <1>3, <1>4, <1>5 DEF Tracked, LastInBatch
<1> QED
    BY <1>4, <1>5, <1>6

LEMMA QueueTracks ==
    ASSUME TypeOK, TrackInv, NEW w \in Writers, Queue(w)
    PROVE  TrackInv'
<1> DEFINE q == doing[w].path
           b == [batch EXCEPT ![q] = doing[w].change]
<1>1. q \in Paths /\ doing[w].change \in State
    <2>1. doing[w] \in [path : Paths, change : State]
        BY DEF TypeOK, State
    <2> QED
        BY <2>1
<1>2. b \in Batches /\ b[q] = doing[w].change
      /\ \A p \in Paths \ {q} : b[p] = batch[p]
    <2>1. b \in Batches
        BY <1>1, PutIsBatch DEF TypeOK
    <2>2. b[q] = doing[w].change /\ \A p \in Paths \ {q} : b[p] = batch[p]
        BY <1>1 DEF TypeOK, Batches
    <2> QED
        BY <2>1, <2>2
<1>3. /\ UNCHANGED <<local, flushing, flushTry, remote>>
      /\ doing[w].change # Never /\ excused \subseteq excused'
    BY DEF Queue, QueueUpdate_Full, QueueUpdate_Wait, TrackInv, Enqueue
<1>a. \A v \in Writers : pc'[v] = "queue" => doing'[v].change # Never
    <2>1. pc' = [pc EXCEPT ![w] = "idle"] /\ doing' = [doing EXCEPT ![w] = Idle]
        BY DEF Queue, QueueUpdate_Full, QueueUpdate_Wait
    <2>2. /\ pc'[w] = "idle"
          /\ \A v \in Writers \ {w} : pc'[v] = pc[v] /\ doing'[v] = doing[v]
        BY <2>1 DEF TypeOK
    <2> QED
        BY <2>2 DEF TrackInv
<1>b. LockFree' => flushing' = EmptyBatch
    BY <1>3 DEF TrackInv, LockFree
<1>4. CASE QueueUpdate_Full(w)
    <2>1. Enqueue(b)
        BY <1>4 DEF QueueUpdate_Full
    <2>2. ASSUME NEW p \in Paths \ excused' PROVE Tracked(p)'
        <3>0. p \in Paths \ excused /\ Tracked(p)
            BY <1>3, <2>2 DEF TrackInv
        <3> HIDE DEF q, b
        <3>1. /\ \A v \in Writers : /\ Queueing(v, p)' <=> v # w /\ Queueing(v, p)
                                    /\ Queueing(v, p)' => doing'[v] = doing[v]
              /\ p = q => /\ \A v \in Writers : ~Queueing(v, p)'
                          /\ doing[w].change = local[p]
              /\ p # q => ~Queueing(w, p)
            BY <3>0, QueueLeaves DEF q, Queueing
        <3>2. /\ \A u, v \in Writers : Queueing(u, p)' /\ Queueing(v, p)' => u = v
              /\ \A v \in Writers : Queueing(v, p)' => doing'[v].change = local[p]
            BY <3>0, <3>1 DEF Tracked, LastInBatch
        <3>3. (\A v \in Writers : ~Queueing(v, p)') => b[p] \in {Never, local[p]}
            BY <1>2, <3>0, <3>1 DEF Tracked, LastInBatch
        <3>4. b[p] = Never => (Newer(p) => \E v \in Writers : Queueing(v, p)')
            BY <1>2, <1>3, <3>1 DEF Newer
        <3> QED
            BY <1>2, <1>3, <2>1, <2>2, <3>0, <3>2, <3>3, <3>4, EnqueueTracks
               DEF Tracked
    <2> QED
        BY <1>a, <1>b, <2>2 DEF TrackInv
<1>5. CASE QueueUpdate_Wait(w)
    <2>1. batch' = b /\ UNCHANGED <<jobs, excused>>
        BY <1>5 DEF QueueUpdate_Wait
    <2>2. ASSUME NEW p \in Paths \ excused PROVE Tracked(p)'
        <3> HIDE DEF q, b
        <3>1. /\ \A v \in Writers : /\ Queueing(v, p)' <=> v # w /\ Queueing(v, p)
                                    /\ Queueing(v, p)' => doing'[v] = doing[v]
              /\ p = q => /\ \A v \in Writers : ~Queueing(v, p)'
                          /\ doing[w].change = local[p]
              /\ p # q => ~Queueing(w, p)
            BY <2>2, QueueLeaves DEF q, Queueing
        <3>2. Tracked(p)
            BY <2>2 DEF TrackInv
        <3>3. LastInBatch(p)'
            BY <1>2, <1>3, <2>1, <3>1, <3>2 DEF Tracked, LastInBatch
        <3>4. SentOnce(p)'
            BY <1>3, <2>1, <3>2 DEF Tracked, SentOnce
        <3>5. Newer(p) => Newer(p)'
            BY <1>2, <1>3, <2>1, <3>1 DEF Newer
        <3>6. LastIsSent(p)'
            BY <1>3, <2>1, <3>2, <3>5 DEF Tracked, LastIsSent
        <3> QED
            BY <3>3, <3>4, <3>6 DEF Tracked
    <2> QED
        BY <1>a, <1>b, <2>1, <2>2 DEF TrackInv
<1> QED
    BY <1>4, <1>5 DEF Queue

LEMMA TimerTracks ==
    ASSUME TypeOK, TrackInv, TimerEnqueues
    PROVE  TrackInv'
<1>1. /\ Enqueue(batch) /\ batch \in Batches
      /\ UNCHANGED <<local, pc, doing, flushing, flushTry, remote>>
    BY DEF TimerEnqueues, TypeOK
<1>2. ASSUME NEW p \in Paths \ excused' PROVE Tracked(p)'
    <2>1. Tracked(p)
        BY <1>1, <1>2 DEF TrackInv, Enqueue
    <2>2. \A w \in Writers : Queueing(w, p)' <=> Queueing(w, p)
        BY <1>1 DEF Queueing
    <2>3. /\ \A v, w \in Writers : Queueing(v, p)' /\ Queueing(w, p)' => v = w
          /\ \A w \in Writers : Queueing(w, p)' => doing'[w].change = local[p]
          /\ (\A w \in Writers : ~Queueing(w, p)') => batch[p] \in {Never, local[p]}
        BY <1>1, <2>1, <2>2 DEF Tracked, LastInBatch
    <2>4. batch[p] = Never => (Newer(p) => \E w \in Writers : Queueing(w, p)')
        BY <2>2 DEF Newer
    <2> QED
        BY <1>1, <1>2, <2>1, <2>3, <2>4, EnqueueTracks DEF Tracked
<1> QED
    BY <1>1, <1>2 DEF TrackInv, LockFree

LEMMA PoolTracks ==
    ASSUME TypeOK, TrackInv, NEW i \in 1..Workers, Send(i)
    PROVE  TrackInv'
<1>1. i \in DOMAIN jobs
    BY DEF Send, SendSucceeds, SendFails
<1>2. excused \subseteq excused' /\ UNCHANGED flushTry
    BY DEF Send, SendSucceeds, SendFails
<1>3. UNCHANGED <<local, pc, doing, batch, flushing>>
    BY DEF Send, SendSucceeds, SendFails
<1>4. ASSUME NEW p \in Paths \ excused' PROVE Tracked(p)'
    <2>0. p \in Paths /\ Tracked(p)
        BY <1>2, <1>4 DEF TrackInv
    <2>1. CASE SendSucceeds(i)
        <3>1. Leaves(i, p)
            BY <2>1 DEF SendSucceeds, Leaves
        <3> QED
            BY <1>1, <2>0, <3>1, SendTracks
    <2>2. CASE SendFails(i) /\ LastAttempt(jobs[i].tries)
        <3>1. /\ remote' \in {remote, Processed(jobs[i].batch)}
              /\ excused' = excused \cup InBatch(jobs[i].batch)
            BY <2>2 DEF SendFails
        <3>2. \/ remote' = Processed(jobs[i].batch)
              \/ remote' = remote /\ jobs[i].batch[p] = Never
            BY <1>4, <3>1 DEF InBatch
        <3>3. Leaves(i, p)
            BY <2>2, <3>2 DEF SendFails, Leaves
        <3> QED
            BY <1>1, <2>0, <3>3, SendTracks
    <2>3. CASE SendFails(i) /\ ~LastAttempt(jobs[i].tries)
        <3>0. /\ jobs' = [jobs EXCEPT ![i].tries = @ + 1]
              /\ remote' \in {remote, Processed(jobs[i].batch)}
            BY <2>3 DEF SendFails
        <3>a. jobs \in Seq(Entry)
            BY DEF TypeOK, Entry
        <3>b. DOMAIN jobs' = DOMAIN jobs
            BY <3>0, <3>a
        <3>c. \A k \in DOMAIN jobs : jobs'[k].batch = jobs[k].batch
            <4>1. \A k \in DOMAIN jobs : jobs[k] \in Entry
                BY <3>a
            <4> QED
                BY <1>1, <3>0, <4>1 DEF Entry
        <3>1. DOMAIN jobs' = DOMAIN jobs
              /\ \A k \in DOMAIN jobs : jobs'[k].batch = jobs[k].batch
            BY <3>b, <3>c
        <3>2. remote'[p] = remote[p] \/ \E k \in DOMAIN jobs : jobs[k].batch[p] # Never
            BY <1>1, <3>0 DEF Processed
        <3> QED
            BY <1>3, <2>0, <3>1, <3>2, RetryTracks
    <2> QED
        BY <2>1, <2>2, <2>3 DEF Send
<1> QED
    BY <1>2, <1>3, <1>4 DEF TrackInv, LockFree

LEMMA FlushTracks ==
    ASSUME TypeOK, TrackInv, Flush_Begin \/ Flushing
    PROVE  TrackInv'
<1>1. CASE Flush_Begin
    <2>1. /\ UNCHANGED <<local, pc, doing, jobs, remote>> /\ excused \subseteq excused'
          /\ batch' = EmptyBatch /\ LockFree /\ flushing = EmptyBatch
        BY <1>1 DEF Flush_Begin, TrackInv
    <2>2. LockFree' => flushing' = EmptyBatch
        BY <1>1, <2>1 DEF Flush_Begin, LockFree
    <2>3. ASSUME NEW p \in Paths \ excused' PROVE Tracked(p)'
        <3>0. Tracked(p) /\ flushing[p] = Never /\ batch'[p] = Never
            BY <2>1, <2>3 DEF TrackInv, EmptyBatch
        <3>1. \A w \in Writers : Queueing(w, p)' <=> Queueing(w, p)
            BY <2>1 DEF Queueing
        <3>2. flushing'[p] = batch[p]
            BY <1>1, <3>0 DEF Flush_Begin, EmptyBatch
        <3>3. batch[p] # Never => \A i \in DOMAIN jobs : jobs[i].batch[p] = Never
            <4>1. batch[p] # Never => p \notin Overlap(batch)
                BY <1>1, <2>3 DEF Flush_Begin, EmptyBatch
            <4> QED
                BY <4>1 DEF Overlap, InBatch
        <3>4. LastInBatch(p)'
            BY <2>1, <3>0, <3>1 DEF Tracked, LastInBatch
        <3>5. SentOnce(p)'
            BY <2>1, <3>0, <3>2, <3>3 DEF Tracked, SentOnce
        <3>6. LastIsSent(p)'
            <4> SUFFICES ASSUME ~Newer(p)'
                         PROVE  /\ flushing'[p] \in {Never, local[p]}
                                /\ \A i \in DOMAIN jobs :
                                      jobs[i].batch[p] \in {Never, local[p]}
                                /\ flushing'[p] = Never
                                   /\ (\A i \in DOMAIN jobs : jobs[i].batch[p] = Never)
                                      => remote[p] = local[p]
                BY <2>1 DEF LastIsSent
            <4>1. \A w \in Writers : ~Queueing(w, p)
                BY <3>1 DEF Newer
            <4>2. flushing'[p] \in {Never, local[p]}
                BY <3>0, <3>2, <4>1 DEF Tracked, LastInBatch
            <4>3. CASE batch[p] = Never
                BY <3>0, <4>1, <4>2, <4>3 DEF Tracked, LastIsSent, Newer
            <4>4. CASE batch[p] # Never
                BY <3>2, <3>3, <4>2, <4>4
            <4> QED
                BY <4>3, <4>4
        <3> QED
            BY <3>4, <3>5, <3>6 DEF Tracked
    <2> QED
        BY <2>1, <2>2, <2>3 DEF TrackInv
<1>2. CASE Flush_Retry
    <2>1. /\ UNCHANGED <<local, pc, doing, batch, flushing, jobs, excused>>
          /\ remote' \in {remote, Processed(flushing)} /\ ~LockFree'
        BY <1>2 DEF Flush_Retry, LockFree, Attempts
    <2>2. ASSUME NEW p \in Paths \ excused PROVE Tracked(p)'
        <3>1. Tracked(p)
            BY <2>2 DEF TrackInv
        <3>2. remote'[p] = remote[p] \/ flushing[p] # Never
            BY <2>1 DEF Processed
        <3> QED
            BY <2>1, <3>1, <3>2, RetryTracks
    <2> QED
        BY <2>1, <2>2 DEF TrackInv
<1>3. CASE Flush_End
    <2>1. /\ UNCHANGED <<local, pc, doing, batch, jobs>> /\ excused \subseteq excused'
          /\ flushing' = EmptyBatch
        BY <1>3 DEF Flush_End
    <2>2. ASSUME NEW p \in Paths \ excused' PROVE Tracked(p)'
        <3>0. Tracked(p) /\ flushing'[p] = Never
            BY <2>1, <2>2 DEF TrackInv, EmptyBatch
        <3>1. LastInBatch(p)' /\ (Newer(p)' <=> Newer(p))
            BY <2>1, <3>0 DEF Tracked, LastInBatch, Queueing, Newer
        <3>2. SentOnce(p)'
            BY <2>1, <3>0 DEF Tracked, SentOnce
        <3>3. remote'[p] = IF flushing[p] = Never THEN remote[p] ELSE flushing[p]
            BY <1>3, <2>2 DEF Flush_End, Processed, InBatch
        <3>4. LastIsSent(p)'
            BY <2>1, <3>0, <3>1, <3>3 DEF Tracked, SentOnce, LastIsSent
        <3> QED
            BY <3>1, <3>2, <3>4 DEF Tracked
    <2> QED
        BY <2>1, <2>2 DEF TrackInv
<1> QED
    BY <1>1, <1>2, <1>3 DEF Flushing

LEMMA NextTracks == TypeOK /\ TrackInv /\ [Next]_vars => TrackInv'
<1> SUFFICES ASSUME TypeOK, TrackInv, [Next]_vars PROVE TrackInv'
    OBVIOUS
<1>1. CASE TimerFires \/ UNCHANGED vars
    <2>1. UNCHANGED <<local, pc, doing, batch, flushing, flushTry, jobs, remote,
                      excused>>
        BY <1>1 DEF TimerFires, vars
    <2> QED
        BY <2>1 DEF TrackInv, LockFree, Tracked, LastInBatch, SentOnce,
                    LastIsSent, Queueing, Newer
<1> QED
    BY <1>1, ChangeTracks, QueueTracks, TimerTracks, PoolTracks, FlushTracks DEF Next

\* When nothing is under way, the service has the last change of every path
\* that did not change twice at once, was not sent twice at once, and was not
\* given up, whatever timers, pool threads, flushes and retries did meanwhile
\* (batched_web_hook.py:146-211).
THEOREM RemoteCatchesUp == Spec => []RemoteIsCurrent
<1>1. TrackInv => RemoteIsCurrent
    <2> SUFFICES ASSUME TrackInv, Quiet, NEW p \in Paths \ excused
                 PROVE  remote[p] = local[p]
        BY DEF RemoteIsCurrent
    <2>1. flushing[p] = Never /\ batch[p] = Never
        BY DEF TrackInv, Quiet, EmptyBatch
    <2>2. jobs = <<>> /\ ~Newer(p)
        BY <2>1 DEF Quiet, Newer, Queueing
    <2>3. LastIsSent(p)
        BY DEF TrackInv, Tracked
    <2> QED
        BY <2>1, <2>2, <2>3 DEF LastIsSent
<1>2. Init => TypeOK
    BY InitIInv DEF IInv
<1> QED
    BY <1>1, <1>2, TypeStep, InitTracks, NextTracks, PTL DEF Spec

-----------------------------------------------------------------------------
(* The sum of the sizes in a batch.  Induction goes over the sizes of sets *)
(* of paths: a set of numbers that is not empty has a least element.       *)

Less == {ss \in Nat \X Nat : ss[1] < ss[2]}

LEMMA LessIsWellFounded == IsWellFoundedOn(Less, Nat)
BY NatLessThanWellFounded DEF OpToRel, Less

LEMMA LeastNumber ==
    ASSUME NEW T \in SUBSET Nat, T # {}
    PROVE  \E n \in T : \A m \in T : n <= m
<1>1. PICK n \in T : \A m \in T : ~(<<m, n>> \in Less)
    BY LessIsWellFounded, WFMin
<1>2. ASSUME NEW m \in T PROVE n <= m
    <2>1. <<m, n>> \notin Less
        BY <1>1
    <2>2. ~(m < n)
        BY <2>1 DEF Less
    <2> QED
        BY <2>2
<1> QED
    BY <1>2

Some(s) == CHOOSE x \in s : TRUE

LEMMA SubsetInduction ==
    ASSUME NEW U, {} \in U,
           \A s \in SUBSET Paths : s # {} /\ s \ {Some(s)} \in U => s \in U
    PROVE  SUBSET Paths \subseteq U
<1> DEFINE T == {Cardinality(s) : s \in (SUBSET Paths) \ U}
<1>1. \A s \in SUBSET Paths : IsFiniteSet(s) /\ Cardinality(s) \in Nat
    BY WebHookAssumption, FS_Subset, FS_CardinalityType
<1>2. T \in SUBSET Nat
    BY <1>1
<1> SUFFICES ASSUME T # {} PROVE FALSE
    OBVIOUS
<1>3. PICK s \in (SUBSET Paths) \ U : \A r \in (SUBSET Paths) \ U :
          Cardinality(s) <= Cardinality(r)
    <2>1. PICK n \in T : \A m \in T : n <= m
        BY <1>2, LeastNumber
    <2> QED
        BY <2>1
<1>4. Some(s) \in s
    BY <1>3 DEF Some
<1>5. Cardinality(s \ {Some(s)}) = Cardinality(s) - 1
    BY <1>1, <1>3, <1>4, FS_RemoveElement
<1>6. s \ {Some(s)} \in U
    BY <1>1, <1>3, <1>5
<1> QED
    BY <1>3, <1>4, <1>6

\* g gives the sum of the sizes of batch b for each set of paths in D.
SumsUp(b, D, g) ==
    /\ g \in [D -> Int]
    /\ \A s \in D : g[s] = IF s = {} THEN 0
                           ELSE b[Some(s)].size + g[s \ {Some(s)}]

\* What SizeIsRight's fold over the paths stands for.
Sums(b) ==
    CHOOSE g : g = [s \in SUBSET Paths |->
                       IF s = {} THEN 0
                       ELSE LET x == CHOOSE x \in s : TRUE
                            IN  b[x].size + g[s \ {x}]]

Small(n) == {s \in SUBSET Paths : Cardinality(s) <= n}

LEMMA SumsExist ==
    ASSUME NEW b \in Batches
    PROVE  SumsUp(b, SUBSET Paths, Sums(b))
<1>1. \A s \in SUBSET Paths : IsFiniteSet(s) /\ Cardinality(s) \in Nat
    BY WebHookAssumption, FS_Subset, FS_CardinalityType
<1>2. \A s \in SUBSET Paths : s # {} =>
          Some(s) \in s /\ Cardinality(s \ {Some(s)}) = Cardinality(s) - 1
    <2> SUFFICES ASSUME NEW s \in SUBSET Paths, s # {}
                 PROVE  Some(s) \in s /\ Cardinality(s \ {Some(s)}) = Cardinality(s) - 1
        OBVIOUS
    <2>1. Some(s) \in s
        BY DEF Some
    <2> QED
        BY <1>1, <2>1, FS_RemoveElement
<1>3. \A p \in Paths : b[p].size \in Int
    BY StateSize DEF Batches, State
<1> DEFINE Has == {n \in Nat : \E g : SumsUp(b, Small(n), g)}
<1>4. 0 \in Has
    <2>1. Small(0) = {{}}
        <3>1. \A s \in SUBSET Paths : Cardinality(s) = 0 <=> s = {}
            BY <1>1, FS_EmptySet
        <3> QED
            BY <1>1, <3>1, FS_EmptySet DEF Small
    <2>2. SumsUp(b, {{}}, [s \in {{}} |-> 0])
        BY DEF SumsUp
    <2> QED
        BY <2>1, <2>2
<1>5. ASSUME NEW n \in Nat, n \in Has PROVE n + 1 \in Has
    <2>1. PICK g : SumsUp(b, Small(n), g)
        BY <1>5
    <2> DEFINE h == [s \in Small(n + 1) |->
                        IF s = {} THEN 0 ELSE b[Some(s)].size + g[s \ {Some(s)}]]
    <2>2. \A s \in Small(n + 1) : s # {} =>
              Some(s) \in Paths /\ s \ {Some(s)} \in Small(n)
        BY <1>1, <1>2 DEF Small
    <2>3. h \in [Small(n + 1) -> Int]
        BY <1>3, <2>1, <2>2 DEF SumsUp
    <2>4. Small(n) \subseteq Small(n + 1)
        BY <1>1 DEF Small
    <2>5. \A s \in Small(n) : h[s] = g[s]
        BY <2>1, <2>4 DEF SumsUp
    <2>6. SumsUp(b, Small(n + 1), h)
        BY <2>2, <2>3, <2>5 DEF SumsUp
    <2> QED
        BY <2>6
<1>6. Cardinality(Paths) \in Has
    <2> DEFINE T == Nat \ Has
    <2> SUFFICES ASSUME T # {} PROVE FALSE
        BY <1>1
    <2>1. T \in SUBSET Nat
        OBVIOUS
    <2> HIDE DEF Has
    <2>2. PICK n \in T : \A m \in T : n <= m
        BY <2>1, LeastNumber
    <2>3. n # 0 /\ n - 1 \in Nat /\ n - 1 \notin T
        BY <1>4, <2>1, <2>2
    <2> QED
        BY <1>5, <2>2, <2>3
<1>7. Small(Cardinality(Paths)) = SUBSET Paths
    BY WebHookAssumption, FS_Subset DEF Small
<1>8. PICK g : SumsUp(b, SUBSET Paths, g)
    BY <1>6, <1>7
<1> DEFINE R(f) == f = [s \in SUBSET Paths |->
                           IF s = {} THEN 0
                           ELSE LET x == CHOOSE x \in s : TRUE
                                IN  b[x].size + f[s \ {x}]]
<1>9. R(g)
    BY <1>8 DEF SumsUp, Some
<1>10. R(Sums(b))
    BY <1>9 DEF Sums
<1>11. \A s \in SUBSET Paths :
           Sums(b)[s] = IF s = {} THEN 0
                        ELSE b[Some(s)].size + Sums(b)[s \ {Some(s)}]
    BY <1>10 DEF Some
<1>12. Sums(b) = [s \in SUBSET Paths |-> Sums(b)[s]]
    BY <1>10
<1> HIDE DEF R
<1>13. SUBSET Paths \subseteq {s \in SUBSET Paths : Sums(b)[s] \in Int}
    <2> DEFINE U == {s \in SUBSET Paths : Sums(b)[s] \in Int}
    <2>1. \A s \in SUBSET Paths : s # {} => Some(s) \in Paths
        BY DEF Some
    <2>2. {} \in U
        <3>1. {} \in SUBSET Paths
            OBVIOUS
        <3>2. Sums(b)[{}] = 0
            BY <1>11, <3>1
        <3> QED
            BY <3>1, <3>2
    <2>3. ASSUME NEW s \in SUBSET Paths, s # {}, s \ {Some(s)} \in U
          PROVE  s \in U
        <3>1. Sums(b)[s] = b[Some(s)].size + Sums(b)[s \ {Some(s)}]
            BY <1>11, <2>3
        <3>2. b[Some(s)].size \in Int /\ Sums(b)[s \ {Some(s)}] \in Int
            BY <1>3, <2>1, <2>3
        <3> HIDE DEF Sums
        <3> QED
            BY <3>1, <3>2
    <2> HIDE DEF U
    <2>4. SUBSET Paths \subseteq U
        BY <2>2, <2>3, SubsetInduction
    <2> QED
        BY <2>4 DEF U
<1> QED
    BY <1>11, <1>12, <1>13 DEF SumsUp

LEMMA SumOfEmpty == Sums(EmptyBatch)[Paths] = 0
<1> DEFINE g == Sums(EmptyBatch)
           U == {s \in SUBSET Paths : g[s] = 0}
<1>1. SumsUp(EmptyBatch, SUBSET Paths, g)
    BY SumsExist, EmptyIsBatch
<1>2. \A p \in Paths : EmptyBatch[p].size = 0
    BY DEF EmptyBatch, Never
<1>3. \A s \in SUBSET Paths : s # {} => Some(s) \in Paths
    BY DEF Some
<1> HIDE DEF g
<1>4. {} \in U
    BY <1>1 DEF SumsUp
<1>5. ASSUME NEW s \in SUBSET Paths, s # {}, s \ {Some(s)} \in U PROVE s \in U
    BY <1>1, <1>2, <1>3, <1>5 DEF SumsUp
<1> HIDE DEF U
<1>6. SUBSET Paths \subseteq U
    BY <1>4, <1>5, SubsetInduction
<1> QED
    BY <1>6 DEF U, g

\* A change replaces the size that its path had in the batch.
LEMMA SumOfPut ==
    ASSUME NEW b \in Batches, NEW p \in Paths, NEW c \in State
    PROVE  Sums([b EXCEPT ![p] = c])[Paths] = Sums(b)[Paths] - b[p].size + c.size
<1> DEFINE d == [b EXCEPT ![p] = c]
           f == Sums(b)
           g == Sums(d)
           U == {s \in SUBSET Paths :
                    g[s] = f[s] + (IF p \in s THEN c.size - b[p].size ELSE 0)}
<1>1. SumsUp(b, SUBSET Paths, f) /\ SumsUp(d, SUBSET Paths, g)
    BY SumsExist, PutIsBatch
<1>2. d[p] = c /\ \A q \in Paths \ {p} : d[q] = b[q]
    BY DEF Batches
<1>3. c.size \in Int /\ \A q \in Paths : b[q].size \in Int
    BY StateSize DEF Batches, State
<1>4. \A s \in SUBSET Paths : s # {} => Some(s) \in s
    BY DEF Some
<1> HIDE DEF d, f, g
<1>5. {} \in U
    <2>1. {} \in SUBSET Paths
        OBVIOUS
    <2>2. f[{}] = 0 /\ g[{}] = 0
        BY <1>1, <2>1 DEF SumsUp
    <2> QED
        BY <2>1, <2>2
<1>6. ASSUME NEW s \in SUBSET Paths, s # {}, s \ {Some(s)} \in U PROVE s \in U
    <2> DEFINE x == Some(s)
               r == s \ {x}
    <2>1. x \in s /\ x \in Paths /\ r \in SUBSET Paths
        BY <1>4, <1>6
    <2>2. /\ f[s] = b[x].size + f[r] /\ g[s] = d[x].size + g[r]
          /\ f[r] \in Int /\ g[r] \in Int
        BY <1>1, <1>6, <2>1 DEF SumsUp
    <2>3. g[r] = f[r] + (IF p \in r THEN c.size - b[p].size ELSE 0)
        BY <1>6
    <2>4. p \in r <=> p \in s /\ p # x
        OBVIOUS
    <2> HIDE DEF x, r
    <2>5. g[s] = f[s] + (IF p \in s THEN c.size - b[p].size ELSE 0)
        BY <1>2, <1>3, <2>1, <2>2, <2>3, <2>4
    <2> QED
        BY <2>5
<1> HIDE DEF U
<1>7. SUBSET Paths \subseteq U
    BY <1>5, <1>6, SubsetInduction
<1>8. g[Paths] = f[Paths] + (c.size - b[p].size)
    BY <1>7 DEF U
<1>9. f[Paths] \in Int
    BY <1>1 DEF SumsUp
<1> QED
    BY <1>3, <1>8, <1>9 DEF d, f, g

SizeInv == size = Sums(batch)[Paths]

LEMMA SizeBySums == SizeIsRight <=> SizeInv
BY DEF SizeIsRight, SizeInv, FoldSet, MapThenFoldSet, Sums

LEMMA SizeStep == TypeOK /\ SizeInv /\ [Next]_vars => SizeInv'
<1> SUFFICES ASSUME TypeOK, SizeInv, [Next]_vars PROVE SizeInv'
    OBVIOUS
<1>1. CASE batch' = EmptyBatch /\ size' = 0
    BY <1>1, SumOfEmpty DEF SizeInv
<1>2. CASE UNCHANGED <<batch, size>>
    BY <1>2 DEF SizeInv
<1>3. ASSUME NEW w \in Writers, QueueUpdate_Wait(w) PROVE SizeInv'
    <2>1. doing[w] \in [path : Paths, change : State]
        BY DEF TypeOK, State
    <2>2. /\ doing[w].path \in Paths /\ doing[w].change \in State
          /\ batch \in Batches
        BY <2>1 DEF TypeOK
    <2>3. /\ batch' = [batch EXCEPT ![doing[w].path] = doing[w].change]
          /\ size' = size - batch[doing[w].path].size + doing[w].change.size
        BY <1>3 DEF QueueUpdate_Wait, NewSize
    <2> QED
        BY <2>2, <2>3, SumOfPut DEF SizeInv
<1>4. ASSUME NEW w \in Writers, ChangeFile(w) PROVE UNCHANGED <<batch, size>>
    BY <1>4 DEF ChangeFile
<1>5. ASSUME NEW w \in Writers, QueueUpdate_Full(w)
      PROVE  batch' = EmptyBatch /\ size' = 0
    BY <1>5 DEF QueueUpdate_Full, Enqueue
<1>6. CASE TimerFires \/ UNCHANGED vars
    BY <1>2, <1>6 DEF TimerFires, vars
<1>7. CASE TimerEnqueues \/ Flush_Begin
    BY <1>1, <1>7 DEF TimerEnqueues, Enqueue, Flush_Begin
<1>8. ASSUME NEW i \in 1..Workers, Send(i) PROVE UNCHANGED <<batch, size>>
    BY <1>8 DEF Send, SendSucceeds, SendFails
<1>9. ASSUME Flushing PROVE UNCHANGED <<batch, size>>
    BY <1>9 DEF Flushing, Flush_End, Flush_Retry
<1> QED
    BY <1>1, <1>2, <1>3, <1>4, <1>5, <1>6, <1>7, <1>8, <1>9 DEF Next, Queue

\* _batch_size is the sum of the sizes in _batch, for any finite set of paths,
\* also when a path is changed again or deleted before it was sent
\* (batched_web_hook.py:146-160).
THEOREM SizeIsExact == Spec => []SizeIsRight
<1>1. Init => TypeOK
    BY InitIInv DEF IInv
<1>2. Init => SizeInv
    BY SumOfEmpty DEF Init, SizeInv
<1> QED
    BY <1>1, <1>2, TypeStep, SizeStep, SizeBySums, PTL DEF Spec
=============================================================================
