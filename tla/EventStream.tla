---------------------------- MODULE EventStream ----------------------------
(***************************************************************************)
(* openhands/events/stream.py and event_store.py: the EventStream through  *)
(* which every component of a session publishes and hears events.          *)
(*                                                                         *)
(* Producers are threads that call add_event; the id is taken under        *)
(* self._lock, but the event file, the cache page and the delivery queue   *)
(* are written outside it, so producers interleave there.  One dispatcher  *)
(* thread (_process_queue) hands each queued event to the single-worker    *)
(* pool of every subscriber.  Other threads subscribe, unsubscribe, read   *)
(* cur_id without the lock and close the stream; the process may crash,    *)
(* after which a new EventStream object finds only the file store.         *)
(*                                                                         *)
(* A subscriber is a (subscriber id, callback id) pair with a subscriber   *)
(* id of its own; they are numbered in the order sorted() visits them.     *)
(***************************************************************************)
EXTENDS Integers, Sequences, FiniteSets

CONSTANTS Producers,   \* threads that call add_event
          Readers,     \* threads that read cur_id without holding the lock
          NoThread,    \* the holder of the lock when nobody holds it
          NSubs,       \* number of subscribers
          CacheSize,   \* EventStore.cache_size
          MaxEvents,   \* bound: add_event calls in a behaviour
          MaxFailures, \* bound: calls whose write to the file store fails
          MaxCrashes   \* bound: crashes in a behaviour

ASSUME ConstantsAssumption ==
    /\ NoThread \notin Producers
    /\ NSubs \in Nat
    /\ CacheSize \in Nat \ {0}
    /\ MaxEvents \in Nat
    /\ MaxFailures \in Nat
    /\ MaxCrashes \in Nat

Subs == 1..NSubs
NoId == -1                                   \* _cur_id is None

\* An event is the id add_event gave it and the call (a fresh number) that
\* brought it; call 0 is the content of a file opened but not yet written.
Torn == 0
Event == [id : Nat, call : Nat]
NoEvent == [id |-> NoId, call |-> 0]

\* A stored page; one that was opened but not yet written has no events.
CachePage == [start : Nat, events : Seq(Event)]

VARIABLES
    files,    \* event files on disk, a set of Event with distinct ids
    cache,    \* event_cache pages on disk
    curId,    \* _cur_id
    lock,     \* holder of _lock
    pages,    \* the lists _write_page_cache has been bound to, last = current
    pc,       \* where each producer is inside add_event
    ev,       \* the event each producer is adding
    page,     \* the producer's current_write_page, as an index into pages
    rd,       \* what a reader's _calculate_cur_id found and did not store yet
    queue,    \* _queue
    disp,     \* where the dispatcher thread is
    cur,      \* the event it took off the queue
    todo,     \* the subscribers it still has to visit for that event
    sub,      \* registration state of each subscriber
    pool,     \* tasks submitted to each subscriber's pool
    stop,     \* _stop_flag
    closing,  \* progress of close()
    calls,    \* add_event calls so far
    lost,     \* history: events whose add_event was ended by a failing write
    crashes,  \* crashes so far
    log,      \* history: events put on the queue, since the last crash
    from,     \* history: length of the log each subscriber joined at
    seen      \* history: events each subscriber's callback has handled

disk == <<files, cache>>
prodVars == <<lock, pages, pc, ev, page, calls, lost>>
dispVars == <<disp, cur, todo>>
subVars == <<sub, from>>
vars == <<disk, curId, prodVars, rd, queue, dispVars, subVars, pool, stop,
          closing, crashes, log, seen>>

TypeOK ==
    /\ files \subseteq Event
    /\ \A f, g \in files : f.id = g.id => f = g
    /\ cache \subseteq CachePage
    /\ curId \in Nat \cup {NoId}
    /\ lock \in Producers \cup {NoThread}
    /\ pages \in Seq(Seq(Event))
    /\ pc \in [Producers -> {"idle", "locked", "open", "write", "page", "copy",
                         "put"}]
    /\ ev \in [Producers -> Event \cup {NoEvent}]
    /\ page \in [Producers -> Nat]
    /\ rd \in [Readers -> Nat \cup {NoId}]
    /\ queue \in Seq(Event)
    /\ disp \in {"check", "get", "dispatch", "stopped", "dead"}
    /\ cur \in Event \cup {NoEvent}
    /\ todo \subseteq Subs
    /\ sub \in [Subs -> {"none", "adding", "on", "draining", "deaf",
                        "poolgone", "off"}]
    /\ pool \in [Subs -> Seq(Event)]
    /\ stop \in BOOLEAN
    /\ closing \in {"open", "join", "cleanup", "closed"}
    /\ calls \in Nat
    /\ lost \subseteq Event
    /\ crashes \in Nat
    /\ log \in Seq(Event)
    /\ from \in [Subs -> Nat]
    /\ seen \in [Subs -> Seq(Event)]

Init ==
    /\ files = {} /\ cache = {}
    /\ curId = NoId
    /\ lock = NoThread
    /\ pages = << <<>> >>
    /\ pc = [p \in Producers |-> "idle"]
    /\ ev = [p \in Producers |-> NoEvent]
    /\ page = [p \in Producers |-> 0]
    /\ rd = [r \in Readers |-> NoId]
    /\ queue = <<>>
    /\ disp = "check" /\ cur = NoEvent /\ todo = {}
    /\ sub = [s \in Subs |-> "none"]
    /\ pool = [s \in Subs |-> <<>>]
    /\ stop = FALSE
    /\ closing = "open"
    /\ calls = 0 /\ lost = {} /\ crashes = 0
    /\ log = <<>>
    /\ from = [s \in Subs |-> 0]
    /\ seen = [s \in Subs |-> <<>>]

-----------------------------------------------------------------------------
(* The store.                                                              *)

\* Mutant: the number of files, which is not the next id after a gap.
IsNextId_Count(n) == n = Cardinality(files)

\* n is what _calculate_cur_id computes: one more than the largest id that
\* has a file, 0 when there is none.
IsNextId(n) ==
    /\ \A f \in files : f.id < n
    /\ n > 0 => \E f \in files : f.id = n - 1

\* The id the cur_id property yields: the stored value, else the calculated.
IsCurId(n) == IF curId = NoId THEN IsNextId(n) ELSE n = curId

\* Mutant: what had that name stays.
WriteFile_Keeps(e) == files \cup {e}

\* Opening a file for writing truncates what had that name.
WriteFile(e) == {f \in files : f.id # e.id} \cup {e}

\* The stored page a scan loads for index i, if there is one; only pages that
\* start at a multiple of cache_size have a name a reader asks for.
PageStart(i) == i - (i % CacheSize)
PagesFor(i) == {c \in cache : c.start = PageStart(i)}

\* What search_events finds for index i: the cached page's copy when the page
\* exists, otherwise the event file; the empty set when both are missing, and
\* when the page is empty, which json.loads refuses and nobody catches.
Lookup(i) ==
    IF PagesFor(i) # {}
    THEN {c.events[i - PageStart(i) + 1] :
             c \in {d \in PagesFor(i) : d.events # <<>>}}
    ELSE {f \in files : f.id = i}

-----------------------------------------------------------------------------
(* add_event.                                                              *)

\* `with self._lock` may be entered; the mutant forgets the lock.
LockFree_Ignored == TRUE
LockFree == lock = NoThread

\* Enter the critical section and read cur_id into event._id.
AddEvent_TakeId(p) ==
    /\ pc[p] = "idle" /\ calls < MaxEvents
    /\ LockFree
    /\ lock' = p
    /\ calls' = calls + 1
    /\ \E n \in 0..MaxEvents :
          /\ IsCurId(n)
          /\ curId' = n
          /\ ev' = [ev EXCEPT ![p] = [id |-> n, call |-> calls']]
    /\ pc' = [pc EXCEPT ![p] = "locked"]
    /\ UNCHANGED <<disk, pages, page, lost, rd, queue, dispVars, subVars, pool,
                   stop, closing, crashes, log, seen>>

\* self.cur_id += 1, append to the write page, start a new page if that
\* filled it, and leave the critical section.
AddEvent_Advance(p) ==
    /\ pc[p] = "locked"
    /\ curId' = curId + 1
    /\ LET k == Len(pages)
           filled == Append(pages[k], ev[p])
           updated == [pages EXCEPT ![k] = filled]
       IN  /\ page' = [page EXCEPT ![p] = k]
           /\ pages' = IF Len(filled) = CacheSize
                       THEN Append(updated, <<>>) ELSE updated
    /\ lock' = NoThread
    /\ pc' = [pc EXCEPT ![p] = "open"]
    /\ UNCHANGED <<disk, ev, calls, lost, rd, queue, dispVars, subVars, pool,
                   stop, closing, crashes, log, seen>>

\* Mutant: a failing write is swallowed, and the event goes on without a file.
AddEvent_OpenFile_Swallows(p) ==
    /\ pc[p] = "open"
    /\ pc' = [pc EXCEPT ![p] = "page"]
    /\ UNCHANGED <<disk, curId, lock, pages, ev, page, calls, lost, rd,
                   queue, dispVars, subVars, pool, stop, closing, crashes, log, seen>>

\* file_store.write, first half: the file exists and is empty.
AddEvent_OpenFile(p) ==
    /\ pc[p] = "open"
    /\ files' = WriteFile([ev[p] EXCEPT !.call = Torn])
    /\ pc' = [pc EXCEPT ![p] = "write"]
    /\ UNCHANGED <<cache, curId, lock, pages, ev, page, calls, lost, rd,
                   queue, dispVars, subVars, pool, stop, closing, crashes, log, seen>>

\* file_store.write, second half: the contents are there.
AddEvent_WriteFile(p) ==
    /\ pc[p] = "write"
    /\ files' = WriteFile(ev[p])
    /\ pc' = [pc EXCEPT ![p] = "page"]
    /\ UNCHANGED <<cache, curId, lock, pages, ev, page, calls, lost, rd,
                   queue, dispVars, subVars, pool, stop, closing, crashes, log, seen>>

\* The page that producer p stores, with the events it is to hold, on disk.
PageOf(p) == pages[page[p]]
StorePage(p, events) ==
    LET start == PageOf(p)[1].id IN
      {c \in cache : c.start # start} \cup {[start |-> start, events |-> events]}
PageIsFull(p) == Len(PageOf(p)) >= CacheSize

\* _store_cache_page, up to the open in file_store.write, which empties the
\* page.  The list is shared, so a page that another producer has filled
\* meanwhile is stored by this one as well, and may be there already.
AddEvent_OpenPage(p) ==
    /\ pc[p] = "page"
    /\ \/ /\ ~PageIsFull(p)
          /\ pc' = [pc EXCEPT ![p] = "put"] /\ cache' = cache
       \/ /\ PageIsFull(p)
          /\ pc' = [pc EXCEPT ![p] = "copy"] /\ cache' = StorePage(p, <<>>)
    /\ UNCHANGED <<files, curId, lock, pages, ev, page, calls, lost, rd, queue,
                   dispVars, subVars, pool, stop, closing, crashes, log, seen>>

\* Mutant: nothing is written.
AddEvent_WritePage_Empty(p) ==
    /\ pc[p] = "copy"
    /\ pc' = [pc EXCEPT ![p] = "put"]
    /\ UNCHANGED <<disk, curId, lock, pages, ev, page, calls, lost, rd, queue,
                   dispVars, subVars, pool, stop, closing, crashes, log, seen>>

\* Its second half: the page is complete, unless another producer has emptied
\* it in the midst of this one's writes and has yet to write it.
AddEvent_WritePage(p) ==
    /\ pc[p] = "copy"
    /\ \/ cache' = StorePage(p, PageOf(p))
       \/ /\ \E q \in Producers \ {p} : pc[q] = "copy" /\ page[q] = page[p]
          /\ cache' = cache
    /\ pc' = [pc EXCEPT ![p] = "put"]
    /\ UNCHANGED <<files, curId, lock, pages, ev, page, calls, lost, rd, queue,
                   dispVars, subVars, pool, stop, closing, crashes, log, seen>>

\* file_store.write raises, at the open or with the file or the page empty,
\* and with it add_event: the event keeps its id and its place in the write
\* page, and is never queued.
AddEvent_Fail(p) ==
    /\ pc[p] \in {"open", "write", "page", "copy"}
    /\ pc[p] = "page" => PageIsFull(p)
    /\ Cardinality(lost) < MaxFailures
    /\ lost' = lost \cup {ev[p]}
    /\ pc' = [pc EXCEPT ![p] = "idle"]
    /\ ev' = [ev EXCEPT ![p] = NoEvent]
    /\ page' = [page EXCEPT ![p] = 0]
    /\ UNCHANGED <<disk, curId, lock, pages, calls, rd, queue, dispVars, subVars,
                   pool, stop, closing, crashes, log, seen>>

\* self._queue.put(event), and add_event returns.
AddEvent_Put(p) ==
    /\ pc[p] = "put"
    /\ queue' = Append(queue, ev[p])
    /\ log' = Append(log, ev[p])
    /\ pc' = [pc EXCEPT ![p] = "idle"]
    /\ ev' = [ev EXCEPT ![p] = NoEvent]
    /\ page' = [page EXCEPT ![p] = 0]
    /\ UNCHANGED <<disk, curId, lock, pages, calls, lost, rd, dispVars, subVars,
                   pool, stop, closing, crashes, seen>>

AddEvent(p) ==
    \/ AddEvent_TakeId(p)   \/ AddEvent_Advance(p)   \/ AddEvent_OpenFile(p)
    \/ AddEvent_WriteFile(p) \/ AddEvent_OpenPage(p)  \/ AddEvent_WritePage(p)
    \/ AddEvent_Put(p)      \/ AddEvent_Fail(p)

\* The cur_id property outside the lock (get_latest_event_id, search_events):
\* list the files when there is no value yet, store the result a moment later.
ReadCurId_List(r) ==
    /\ curId = NoId /\ rd[r] = NoId
    /\ \E n \in 0..MaxEvents : IsNextId(n) /\ rd' = [rd EXCEPT ![r] = n]
    /\ UNCHANGED <<disk, curId, prodVars, queue, dispVars, subVars, pool,
                   stop, closing, crashes, log, seen>>

ReadCurId_Store(r) ==
    /\ rd[r] # NoId
    /\ curId' = rd[r]
    /\ rd' = [rd EXCEPT ![r] = NoId]
    /\ UNCHANGED <<disk, prodVars, queue, dispVars, subVars, pool, stop,
                   closing, crashes, log, seen>>

-----------------------------------------------------------------------------
(* subscribe and unsubscribe.                                              *)

\* subscribe, first assignment: the key and the callback are registered.
\* Not modelled while close() walks over its copy of the subscriber ids.
Subscribe_Callback(s) ==
    /\ sub[s] = "none" /\ closing # "cleanup"
    /\ sub' = [sub EXCEPT ![s] = "adding"]
    /\ from' = [from EXCEPT ![s] = Len(log) - Len(queue)]
    /\ UNCHANGED <<disk, curId, prodVars, rd, queue, dispVars, pool, stop,
                   closing, crashes, log, seen>>

\* subscribe, second assignment: the pool is registered.
Subscribe_Pool(s) ==
    /\ sub[s] = "adding"
    /\ sub' = [sub EXCEPT ![s] = "on"]
    /\ UNCHANGED <<disk, curId, prodVars, rd, queue, dispVars, from, pool,
                   stop, closing, crashes, log, seen>>

\* _clean_up_subscriber up to pool.shutdown(): the loop of the pool's thread
\* is closed when that thread has started, and is not running a callback.
CleanUp_Shutdown(s) ==
    /\ sub[s] = "on" /\ closing \in {"open", "cleanup"}
    /\ \/ /\ seen[s] = <<>> \/ pool[s] # <<>>
          /\ sub' = [sub EXCEPT ![s] = "draining"]
       \/ /\ seen[s] # <<>> \/ pool[s] # <<>>
          /\ sub' = [sub EXCEPT ![s] = "deaf"]
    /\ UNCHANGED <<disk, curId, prodVars, rd, queue, dispVars, from, pool,
                   stop, closing, crashes, log, seen>>

\* shutdown() has waited for the submitted tasks; the mutant does not wait.
Drained_NoWait(s) == TRUE
Drained(s) == pool[s] = <<>>

\* The pool is removed.
CleanUp_DropPool(s) ==
    /\ sub[s] \in {"draining", "deaf"} /\ Drained(s)
    /\ sub' = [sub EXCEPT ![s] = "poolgone"]
    /\ UNCHANGED <<disk, curId, prodVars, rd, queue, dispVars, from, pool,
                   stop, closing, crashes, log, seen>>

\* The callback is removed last.
CleanUp_DropCallback(s) ==
    /\ sub[s] = "poolgone"
    /\ sub' = [sub EXCEPT ![s] = "off"]
    /\ UNCHANGED <<disk, curId, prodVars, rd, queue, dispVars, from, pool,
                   stop, closing, crashes, log, seen>>

CleanUp(s) ==
    CleanUp_Shutdown(s) \/ CleanUp_DropPool(s) \/ CleanUp_DropCallback(s)

-----------------------------------------------------------------------------
(* The dispatcher thread, _process_queue.                                  *)

\* _stop_flag.is_set(); the mutant never looks.
StopRequested_Ignored == FALSE
StopRequested == stop

\* The loop condition.
Dispatch_Check ==
    /\ disp = "check"
    /\ disp' = IF StopRequested THEN "stopped" ELSE "get"
    /\ UNCHANGED <<disk, curId, prodVars, rd, queue, cur, todo, subVars, pool,
                   stop, closing, crashes, log, seen>>

\* Mutant: the event is read but stays on the queue.
Dispatch_Get_Peek ==
    /\ disp = "get" /\ queue # <<>>
    /\ cur' = Head(queue)
    /\ todo' = {s \in Subs : sub[s] # "none"}
    /\ disp' = "dispatch"
    /\ UNCHANGED <<disk, curId, prodVars, rd, queue, subVars, pool, stop,
                   closing, crashes, log, seen>>

\* _queue.get() returned an event; sorted() copies the subscriber ids.
Dispatch_Get ==
    /\ disp = "get" /\ queue # <<>>
    /\ cur' = Head(queue)
    /\ queue' = Tail(queue)
    /\ todo' = {s \in Subs : sub[s] # "none"}
    /\ disp' = "dispatch"
    /\ UNCHANGED <<disk, curId, prodVars, rd, subVars, pool, stop, closing,
                   crashes, log, seen>>

\* queue.Empty after 0.1 s.
Dispatch_Timeout ==
    /\ disp = "get" /\ queue = <<>>
    /\ disp' = "check"
    /\ UNCHANGED <<disk, curId, prodVars, rd, queue, cur, todo, subVars, pool,
                   stop, closing, crashes, log, seen>>

\* The next subscriber in sorted order: submit to its pool, skip it when its
\* callback is gone, and let the exception end the thread when the callback
\* is there and the pool is not, or no longer takes tasks.
Dispatch_Submit ==
    /\ disp = "dispatch" /\ todo # {}
    /\ \E s \in todo :
          /\ \A t \in todo : s <= t
          /\ todo' = todo \ {s}
          /\ pool' = IF sub[s] = "on"
                     THEN [pool EXCEPT ![s] = Append(@, cur)] ELSE pool
          /\ disp' = IF sub[s] \in {"on", "off"} THEN disp ELSE "dead"
    /\ UNCHANGED <<disk, curId, prodVars, rd, queue, cur, subVars, stop,
                   closing, crashes, log, seen>>

\* Mutant: the loop is left after the first event.
Dispatch_Done_Returns ==
    /\ disp = "dispatch" /\ todo = {}
    /\ disp' = "stopped"
    /\ cur' = NoEvent
    /\ UNCHANGED <<disk, curId, prodVars, rd, queue, todo, subVars, pool,
                   stop, closing, crashes, log, seen>>

Dispatch_Done ==
    /\ disp = "dispatch" /\ todo = {}
    /\ disp' = "check"
    /\ cur' = NoEvent
    /\ UNCHANGED <<disk, curId, prodVars, rd, queue, todo, subVars, pool,
                   stop, closing, crashes, log, seen>>

Dispatcher == \/ Dispatch_Check \/ Dispatch_Get \/ Dispatch_Timeout
              \/ Dispatch_Submit \/ Dispatch_Done

\* The single worker of a pool runs the next task.  A callback that finds its
\* loop closed raises at once, and the event is not handled.
Callback(s) ==
    /\ pool[s] # <<>>
    /\ pool' = [pool EXCEPT ![s] = Tail(@)]
    /\ seen' = IF sub[s] = "deaf" THEN seen
               ELSE [seen EXCEPT ![s] = Append(@, Head(pool[s]))]
    /\ UNCHANGED <<disk, curId, prodVars, rd, queue, dispVars, subVars, stop,
                   closing, crashes, log>>

-----------------------------------------------------------------------------
(* close, and the death of the process.                                    *)

Close_Stop ==
    /\ closing = "open"
    /\ stop' = TRUE /\ closing' = "join"
    /\ UNCHANGED <<disk, curId, prodVars, rd, queue, dispVars, subVars, pool,
                   crashes, log, seen>>

Close_Joined ==
    /\ closing = "join" /\ disp \in {"stopped", "dead"}
    /\ closing' = "cleanup"
    /\ UNCHANGED <<disk, curId, prodVars, rd, queue, dispVars, subVars, pool,
                   stop, crashes, log, seen>>

\* Every subscriber has been cleaned up (by CleanUp); the queue is emptied.
Close_Clear ==
    /\ closing = "cleanup"
    /\ \A s \in Subs : sub[s] \in {"none", "off"}
    /\ queue' = <<>>
    /\ closing' = "closed"
    /\ UNCHANGED <<disk, curId, prodVars, rd, dispVars, subVars, pool, stop,
                   crashes, log, seen>>

Close == Close_Stop \/ Close_Joined \/ Close_Clear

\* The process dies; a new EventStream is created over the same file store.
Crash ==
    /\ crashes < MaxCrashes
    /\ crashes' = crashes + 1
    /\ curId' = NoId
    /\ lock' = NoThread
    /\ pages' = << <<>> >>
    /\ pc' = [p \in Producers |-> "idle"]
    /\ ev' = [p \in Producers |-> NoEvent]
    /\ page' = [p \in Producers |-> 0]
    /\ rd' = [r \in Readers |-> NoId]
    /\ queue' = <<>>
    /\ disp' = "check" /\ cur' = NoEvent /\ todo' = {}
    /\ sub' = [s \in Subs |-> "none"]
    /\ pool' = [s \in Subs |-> <<>>]
    /\ stop' = FALSE
    /\ closing' = "open"
    /\ log' = <<>>
    /\ from' = [s \in Subs |-> 0]
    /\ seen' = [s \in Subs |-> <<>>]
    /\ UNCHANGED <<disk, calls, lost>>

Next ==
    \/ \E p \in Producers : AddEvent(p)
    \/ \E r \in Readers : ReadCurId_List(r) \/ ReadCurId_Store(r)
    \/ \E s \in Subs : Subscribe_Callback(s) \/ Subscribe_Pool(s) \/ CleanUp(s)
    \/ \E s \in Subs : Callback(s)
    \/ Dispatcher
    \/ Close
    \/ Crash

Spec == Init /\ [][Next]_vars

\* Threads that have started something go on with it, and the dispatcher and
\* the pools run; nobody has to call add_event, subscribe or close.
Fairness ==
    /\ \A p \in Producers : WF_vars(pc[p] # "idle" /\ AddEvent(p))
    /\ WF_vars(Dispatcher)
    /\ \A s \in Subs :
          /\ WF_vars(Callback(s))
          /\ WF_vars(Subscribe_Pool(s))
          /\ WF_vars((closing = "cleanup" \/ sub[s] # "on") /\ CleanUp(s))
    /\ WF_vars(closing # "open" /\ Close)

FairSpec == Spec /\ Fairness

-----------------------------------------------------------------------------
(* Properties.                                                             *)

InFlight == {p \in Producers : pc[p] # "idle"}
LogEvents == {log[i] : i \in DOMAIN log}

\* No two add_event calls of one process life get the same id, whether they
\* are still running or already in the log (stream.py:171-173).
UniqueIds ==
    /\ \A p, q \in InFlight : p # q => ev[p].id # ev[q].id
    /\ \A p \in InFlight, e \in LogEvents : ev[p].id # e.id
    /\ \A i, j \in DOMAIN log : i # j => log[i].id # log[j].id

\* An event that has been written is never overwritten or truncated by a
\* later one, not even by an id chosen after a restart (event_store.py:82).
FilesImmutable == [][\A f \in files : f.call # Torn => f \in files']_files

\* A producer is in the midst of storing the page of index i, or a failing
\* write has ended the call of one that had an event on that page.
PageInDoubt(i) ==
    \/ \E p \in Producers : pc[p] = "copy" /\ PageOf(p)[1].id = PageStart(i)
    \/ \E e \in lost : PageStart(e.id) = PageStart(i)

\* A subscriber that is handed an event can find that very event by its id;
\* the lookup raises only at an empty page that is about to be written, or
\* that a failing write has left.  Not so after a crash, when a cached page may
\* outlive the ids it copied, or be left empty.
LogIsReadable ==
    \A e \in LogEvents :
        \/ Lookup(e.id) = {e}
        \/ Lookup(e.id) = {} /\ PagesFor(e.id) # {} /\ PageInDoubt(e.id)

\* In the first life of the process the file of an event is complete before
\* the put (stream.py:199, 203), and a cached page agrees with it.
QueuedIsReadable == crashes = 0 => LogIsReadable

\* A lookup by the id of an event that was handed out never finds another.
FoundIsQueued == \A e \in LogEvents : Lookup(e.id) \subseteq {e}

\* When no add_event is running in the first life of the process, the id
\* get_latest_event_id returns and every id below it names a complete event,
\* unless its write has failed (a crash may leave gaps for good).
NoGapAtRest ==
    InFlight = {} /\ curId # NoId /\ crashes = 0
        => \A i \in 0..curId - 1 : \/ \E f \in files : f.id = i /\ f.call # Torn
                                   \/ \E e \in lost : e.id = i

\* From the moment it subscribes, a subscriber handles the queued events one
\* by one: none lost in between, none twice, none out of queue order, across
\* any interleaving of dispatch, unsubscribe and close.
HandledInQueueOrder ==
    \A s \in Subs :
        /\ Len(seen[s]) <= Len(log) - from[s]
        /\ \A k \in DOMAIN seen[s] : seen[s][k] = log[from[s] + k]

\* The stream implements EventLog: a subscriber is in from its registration
\* until its pool has drained, or its loop has been closed under it.
membership == [s \in Subs |->
                 CASE sub[s] = "none" -> "never"
                   [] sub[s] \in {"adding", "on", "draining"} -> "in"
                   [] OTHER -> "left"]
AsEventLog == INSTANCE EventLog WITH Event <- Event, Subs <- Subs, log <- log,
                                    member <- membership, from <- from, seen <- seen

\* The refinement, across crashes (stream.py as a whole).
ImplementsEventLog == AsEventLog!Spec

\* Once close() has returned no callback runs any more.
SilentAfterClose == [][closing = "closed" /\ closing' = "closed"
                         => seen' = seen]_seen

\* Every queued event reaches a subscriber that stays subscribed, unless the
\* stream is stopped or the dispatcher thread has died.
EventuallyHandled ==
    \A s \in Subs, k \in 1..MaxEvents :
        sub[s] = "on" /\ Len(log) - from[s] >= k
            ~> Len(seen[s]) >= k \/ sub[s] # "on" \/ disp = "dead" \/ stop

\* close() returns: the join ends, and the pools it waits for drain.
CloseReturns == closing = "join" ~> closing = "closed"

\* The dispatcher thread never ends with an exception.
DispatcherSurvives == disp # "dead"
=============================================================================
