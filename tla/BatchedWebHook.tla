--------------------------- MODULE BatchedWebHook ---------------------------
(***************************************************************************)
(* openhands/storage/batched_web_hook.py: a file store that copies its     *)
(* changes to a remote service, in batches.                                *)
(*                                                                         *)
(* Threads write and delete files; each change is put into the current     *)
(* batch under a lock.  A batch is sent when it is large enough, when a    *)
(* timer that every change sets anew runs out, or by flush().  Batches are *)
(* sent by a pool of threads, with three attempts each; flush() sends its  *)
(* batch itself and keeps the lock meanwhile.  A request may fail before   *)
(* or after the service has processed it.                                  *)
(***************************************************************************)
EXTENDS Integers, Sequences, FiniteSets, FiniteSetsExt

CONSTANTS Writers,    \* threads that change files
          Paths,
          Sizes,      \* sizes of contents
          SizeLimit,  \* batch_size_limit_bytes
          Workers,    \* threads of EXECUTOR
          MaxChanges, \* bound: changes in a behaviour
          MaxFlushes  \* bound: calls of flush

ASSUME WebHookAssumption ==
    /\ Paths # {} /\ IsFiniteSet(Paths)   \* a store has finitely many files
    /\ Sizes \subseteq Nat \ {0}
    /\ SizeLimit \in Nat \ {0} /\ Workers \in Nat \ {0}
    /\ MaxChanges \in Nat /\ MaxFlushes \in Nat

Attempts == 3           \* stop_after_attempt

\* A change of a path: its number, and the size of the contents; deleting has
\* no contents.  Never is the state of a path that was not changed yet.
Change == [num : 1..MaxChanges, size : Sizes \cup {0}]
Never == [num |-> 0, size |-> 0]

VARIABLES
    local,    \* the wrapped file store: the last change of each path
    pc,       \* "idle", or "queue" between file_store.write and _queue_update
    doing,    \* the path and the change of each writer
    batch,    \* _batch: the queued change of each path, or Never
    size,     \* _batch_size
    timer,    \* _batch_timer is running
    fired,    \* timers that ran out and wait for the lock
    flushing, \* flush() holds _batch_lock, and sends this batch
    flushTry, \* its attempts, 0 when flush() is not running
    jobs,     \* batches submitted to the pool, with their attempts, in order
    remote,   \* the remote service: the last change it processed of each path
    changes,  \* number of changes so far
    flushes,  \* number of flushes so far
    excused   \* history: paths with changes that overlapped or were given up

vars == <<local, pc, doing, batch, size, timer, fired, flushing, flushTry,
          jobs, remote, changes, flushes, excused>>

Batches == [Paths -> Change \cup {Never}]
EmptyBatch == [p \in Paths |-> Never]
InBatch(b) == {p \in Paths : b[p] # Never}
Idle == [path |-> CHOOSE p \in Paths : TRUE, change |-> Never]

TypeOK ==
    /\ local \in [Paths -> Change \cup {Never}]
    /\ pc \in [Writers -> {"idle", "queue"}]
    /\ doing \in [Writers -> [path : Paths, change : Change \cup {Never}]]
    /\ batch \in Batches
    /\ size \in Int
    /\ timer \in BOOLEAN
    /\ fired \in Nat
    /\ flushing \in Batches
    /\ flushTry \in 0..Attempts
    /\ jobs \in Seq([batch : Batches, tries : 0..Attempts - 1])
    /\ remote \in [Paths -> Change \cup {Never}]
    /\ changes \in 0..MaxChanges /\ flushes \in 0..MaxFlushes
    /\ excused \subseteq Paths

Init ==
    /\ local = [p \in Paths |-> Never]
    /\ pc = [w \in Writers |-> "idle"]
    /\ doing = [w \in Writers |-> Idle]
    /\ batch = EmptyBatch /\ size = 0
    /\ timer = FALSE /\ fired = 0
    /\ flushing = EmptyBatch /\ flushTry = 0
    /\ jobs = <<>>
    /\ remote = [p \in Paths |-> Never]
    /\ changes = 0 /\ flushes = 0
    /\ excused = {}

LockFree == flushTry = 0

-----------------------------------------------------------------------------
(* write and delete.                                                       *)

\* file_store.write or file_store.delete.
ChangeFile(w) ==
    /\ pc[w] = "idle" /\ changes < MaxChanges
    /\ changes' = changes + 1
    /\ \E p \in Paths, n \in Sizes \cup {0} :
          LET c == [num |-> changes', size |-> n]
          IN  /\ local' = [local EXCEPT ![p] = c]
              /\ doing' = [doing EXCEPT ![w] = [path |-> p, change |-> c]]
              /\ excused' = IF \E v \in Writers \ {w} :
                                  pc[v] = "queue" /\ doing[v].path = p
                            THEN excused \cup {p} ELSE excused
    /\ pc' = [pc EXCEPT ![w] = "queue"]
    /\ UNCHANGED <<batch, size, timer, fired, flushing, flushTry, jobs,
                   remote, flushes>>

\* Paths whose changes would be sent twice at the same time, by the new batch
\* b and one that is already on its way.
Overlap(b) == {p \in InBatch(b) : \/ flushing[p] # Never
                                  \/ \E i \in DOMAIN jobs : jobs[i].batch[p] # Never}

\* Mutant: the dictionary is cleared after it was handed over.
Submitted_Cleared(b) == EmptyBatch
Submitted(b) == b

\* _enqueue_batch_from_lock: batch b, the current one with the change just
\* made, goes to the pool, and the timer is cancelled.
Enqueue(b) ==
    /\ jobs' = IF b = EmptyBatch THEN jobs
               ELSE Append(jobs, [batch |-> Submitted(b), tries |-> 0])
    /\ batch' = EmptyBatch /\ size' = 0
    /\ timer' = FALSE
    /\ excused' = excused \cup Overlap(b)

\* Mutant: the contents the path had in the batch stay in the sum.
NewSize_Grows(p, c) == size + c.size
NewSize(p, c) == size - batch[p].size + c.size

\* Mutant: when a timer is running it is cancelled and not replaced.
Rearm_Cancels == timer' = ~timer
Rearm == timer' = TRUE

\* _queue_update: the size limit is reached ...
QueueUpdate_Full(w) ==
    LET p == doing[w].path  c == doing[w].change IN
    /\ pc[w] = "queue" /\ LockFree
    /\ NewSize(p, c) >= SizeLimit
    /\ Enqueue([batch EXCEPT ![p] = c])
    /\ pc' = [pc EXCEPT ![w] = "idle"]
    /\ doing' = [doing EXCEPT ![w] = Idle]
    /\ UNCHANGED <<local, fired, flushing, flushTry, remote, changes, flushes>>

\* ... or not: the timer starts anew.
QueueUpdate_Wait(w) ==
    LET p == doing[w].path  c == doing[w].change IN
    /\ pc[w] = "queue" /\ LockFree
    /\ NewSize(p, c) < SizeLimit
    /\ batch' = [batch EXCEPT ![p] = c]
    /\ size' = NewSize(p, c)
    /\ Rearm
    /\ pc' = [pc EXCEPT ![w] = "idle"]
    /\ doing' = [doing EXCEPT ![w] = Idle]
    /\ UNCHANGED <<local, fired, flushing, flushTry, jobs, remote, changes,
                   flushes, excused>>

-----------------------------------------------------------------------------
(* The timer.                                                              *)

\* The time is up; from here on cancel() has no effect.
TimerFires ==
    /\ timer
    /\ timer' = FALSE /\ fired' = fired + 1
    /\ UNCHANGED <<local, pc, doing, batch, size, flushing, flushTry, jobs,
                   remote, changes, flushes, excused>>

\* _enqueue_batch_from_timer gets the lock.
TimerEnqueues ==
    /\ fired > 0 /\ LockFree
    /\ fired' = fired - 1
    /\ Enqueue(batch)
    /\ UNCHANGED <<local, pc, doing, flushing, flushTry, remote, changes, flushes>>

-----------------------------------------------------------------------------
(* Sending.                                                                *)

\* The service processes a batch.
Processed(b) == [p \in Paths |-> IF b[p] # Never THEN b[p] ELSE remote[p]]

Remove(i) == [k \in 1..Len(jobs) - 1 |-> jobs[IF k < i THEN k ELSE k + 1]]

\* _send_batch_request succeeds.
SendSucceeds(i) ==
    /\ i \in DOMAIN jobs /\ i <= Workers
    /\ remote' = Processed(jobs[i].batch)
    /\ jobs' = Remove(i)
    /\ UNCHANGED <<local, pc, doing, batch, size, timer, fired, flushing,
                   flushTry, changes, flushes, excused>>

LastAttempt(n) == n + 1 >= Attempts     \* stop_after_attempt counts calls

\* It fails, with or without the batch processed; after the last attempt the
\* exception is logged and the batch is gone.
SendFails(i) ==
    /\ i \in DOMAIN jobs /\ i <= Workers
    /\ remote' \in {remote, Processed(jobs[i].batch)}
    /\ IF LastAttempt(jobs[i].tries)
       THEN /\ jobs' = Remove(i)
            /\ excused' = excused \cup InBatch(jobs[i].batch)
       ELSE /\ jobs' = [jobs EXCEPT ![i].tries = @ + 1]
            /\ UNCHANGED excused
    /\ UNCHANGED <<local, pc, doing, batch, size, timer, fired, flushing,
                   flushTry, changes, flushes>>

-----------------------------------------------------------------------------
(* flush.                                                                  *)

\* The lock is taken and the batch taken over; an empty one is not sent.
Flush_Begin ==
    /\ LockFree /\ flushes < MaxFlushes
    /\ flushes' = flushes + 1
    /\ batch' = EmptyBatch /\ size' = 0
    /\ IF batch = EmptyBatch
       THEN /\ timer' = FALSE
            /\ UNCHANGED <<flushing, flushTry, excused>>
       ELSE /\ flushing' = batch /\ flushTry' = 1
            /\ excused' = excused \cup Overlap(batch)
            /\ UNCHANGED timer
    /\ UNCHANGED <<local, pc, doing, fired, jobs, remote, changes>>

\* The request succeeds, or the attempts are used up: the timer is cancelled
\* and the lock released.
Flush_End ==
    /\ flushTry > 0
    /\ \/ /\ remote' = Processed(flushing)
          /\ UNCHANGED excused
       \/ /\ flushTry = Attempts
          /\ remote' \in {remote, Processed(flushing)}
          /\ excused' = excused \cup InBatch(flushing)
    /\ flushing' = EmptyBatch /\ flushTry' = 0
    /\ timer' = FALSE
    /\ UNCHANGED <<local, pc, doing, batch, size, fired, jobs, changes, flushes>>

Flush_Retry ==
    /\ flushTry \in 1..Attempts - 1
    /\ remote' \in {remote, Processed(flushing)}
    /\ flushTry' = flushTry + 1
    /\ UNCHANGED <<local, pc, doing, batch, size, timer, fired, flushing,
                   jobs, changes, flushes, excused>>

Queue(w) == QueueUpdate_Full(w) \/ QueueUpdate_Wait(w)
Send(i) == SendSucceeds(i) \/ SendFails(i)
Flushing == Flush_End \/ Flush_Retry

Next ==
    \/ \E w \in Writers : ChangeFile(w) \/ Queue(w)
    \/ TimerFires \/ TimerEnqueues
    \/ \E i \in 1..Workers : Send(i)
    \/ Flush_Begin \/ Flushing

Spec == Init /\ [][Next]_vars

\* Threads go on, and timers run out; nobody has to change files or flush.
Fairness ==
    /\ \A w \in Writers : WF_vars(Queue(w))
    /\ WF_vars(TimerFires) /\ WF_vars(TimerEnqueues)
    /\ \A i \in 1..Workers : WF_vars(Send(i))
    /\ WF_vars(Flushing)

FairSpec == Spec /\ Fairness

-----------------------------------------------------------------------------
(* Properties.                                                             *)

\* _batch_size is the size of the contents in the batch, also when a path is
\* changed again or deleted before it was sent (batched_web_hook.py:146-160).
SizeIsRight == size = FoldSet(LAMBDA p, n : batch[p].size + n, 0, Paths)

\* A batch that is not sent yet has a timer that will send it: no cancel, no
\* late timer and no flush leaves changes behind (batched_web_hook.py:163-177).
PendingIsScheduled == batch # EmptyBatch => timer \/ fired > 0

Quiet == /\ \A w \in Writers : pc[w] = "idle"
         /\ batch = EmptyBatch /\ jobs = <<>> /\ LockFree

\* When nothing is under way the service has the last change of every path,
\* except of those that two threads changed at once, that were in two batches
\* sent at once, or whose batch failed three times.
RemoteIsCurrent ==
    Quiet => \A p \in Paths \ excused : remote[p] = local[p]

\* Everything is sent or given up in the end.
Settles == (\E w \in Writers : pc[w] = "queue") ~> Quiet

\* "This can be called to ensure all updates are sent before shutting down."
\* (batched_web_hook.py:265): when flush returns nothing waits to be sent.
FlushSendsAll ==
    [][flushTry > 0 /\ flushTry' = 0 => jobs' = <<>>]_vars
=============================================================================
