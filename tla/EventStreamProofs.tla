------------------------- MODULE EventStreamProofs -------------------------
(***************************************************************************)
(* Proofs about EventStream for any number of producers, subscribers,      *)
(* events and crashes.  The theorems about ids, files and the refinement   *)
(* assume that no thread reads cur_id outside the lock (NoReaders): the    *)
(* configuration EventStream_lazy_id shows that such a reader breaks them. *)
(***************************************************************************)
EXTENDS EventStream, TLAPS

\* add_event and its callers are the only readers of cur_id.
NoReaders == Readers = {}

\* The typing facts the step proofs need: TypeOK of the variables add_event
\* works on, and an event with an id in every producer that has taken one.
ProducerType ==
    /\ files \subseteq Event
    /\ curId \in Nat \cup {NoId}
    /\ lock \in Producers \cup {NoThread}
    /\ pc \in [Producers -> {"idle", "locked", "open", "write", "page", "copy", "put"}]
    /\ ev \in [Producers -> Event \cup {NoEvent}]
    /\ \A p \in InFlight : ev[p] \in Event
    /\ log \in Seq(Event)
    /\ calls \in Nat

\* The lock is held exactly by the producer between TakeId and Advance.
LockInv == \A p \in Producers : pc[p] = "locked" <=> lock = p

\* curId is above every id given out in this life of the process, and above
\* every id with a file; before the first id is taken nobody is in flight.
IdsBelow ==
    /\ curId = NoId => InFlight = {} /\ log = <<>>
    /\ curId # NoId => \A f \in files : f.id < curId
    /\ \A p \in InFlight : IF pc[p] = "locked" THEN ev[p].id = curId
                                               ELSE ev[p].id < curId
    /\ \A i \in DOMAIN log : log[i].id < curId

\* A producer that has not opened its file yet finds none of that name, and
\* one that has finds only its own empty one.
OwnFile ==
    \A p \in Producers, f \in files :
        /\ pc[p] \in {"locked", "open"} => f.id # ev[p].id
        /\ pc[p] = "write" /\ f.id = ev[p].id => f.call = Torn

IInv == ProducerType /\ LockInv /\ IdsBelow /\ OwnFile /\ UniqueIds

-----------------------------------------------------------------------------
\* The initial state satisfies the invariant.
LEMMA InitIInv == Init => IInv
<1> SUFFICES ASSUME Init PROVE IInv
    OBVIOUS
<1>1. InFlight = {}
    BY DEF Init, InFlight
<1>2. log = <<>> /\ files = {} /\ LogEvents = {} /\ DOMAIN log = {}
    BY DEF Init, LogEvents
<1>3. ProducerType
    BY <1>1, <1>2 DEF Init, ProducerType, NoId
<1>4. LockInv
    BY ConstantsAssumption DEF Init, LockInv
<1>5. IdsBelow
    BY <1>1, <1>2 DEF Init, IdsBelow
<1>6. OwnFile
    BY <1>2 DEF OwnFile
<1>7. UniqueIds
    BY <1>1, <1>2 DEF UniqueIds
<1> QED BY <1>3, <1>4, <1>5, <1>6, <1>7 DEF IInv

\* Taking the id: it is above every file and every id of this life, and the
\* producer now holds the lock.
LEMMA TakeIdKeeps ==
    ASSUME IInv, NEW p \in Producers, AddEvent_TakeId(p)
    PROVE  IInv'
<1> PICK n \in 0..MaxEvents :
        /\ IsCurId(n) /\ curId' = n
        /\ ev' = [ev EXCEPT ![p] = [id |-> n, call |-> calls']]
    BY DEF AddEvent_TakeId
<1> USE DEF IInv
<1>1. /\ pc[p] = "idle" /\ lock = NoThread
      /\ lock' = p /\ calls' = calls + 1
      /\ pc' = [pc EXCEPT ![p] = "locked"]
      /\ files' = files /\ log' = log
    BY DEF AddEvent_TakeId, LockFree, disk
<1>2. n \in Nat /\ n # NoId
    BY ConstantsAssumption DEF NoId
<1>3. \A f \in files : f.id < n
    BY <1>2 DEF IsCurId, IsNextId, IdsBelow
<1>4. \A q \in InFlight : pc[q] # "locked" /\ ev[q].id < n
    <2>1. \A q \in InFlight : pc[q] # "locked"
        BY <1>1, ConstantsAssumption DEF LockInv, InFlight
    <2> QED BY <2>1 DEF IsCurId, IdsBelow
<1>5. \A i \in DOMAIN log : log[i].id < n
    BY DEF IsCurId, IdsBelow
<1>6. InFlight' = InFlight \cup {p}
    BY <1>1 DEF InFlight, ProducerType
<1>7. ev'[p].id = n /\ \A q \in Producers \ {p} : ev'[q] = ev[q]
    BY DEF ProducerType
<1>8. p \notin InFlight
    BY <1>1 DEF InFlight
<1>9. ProducerType'
    BY <1>1, <1>2, <1>6, <1>7, <1>8 DEF ProducerType, Event
<1>10. LockInv'
    BY <1>1, ConstantsAssumption DEF LockInv, ProducerType
<1>11. IdsBelow'
    BY <1>1, <1>2, <1>3, <1>4, <1>5, <1>6, <1>7, <1>8
       DEF IdsBelow, ProducerType
<1>12. OwnFile'
    BY <1>1, <1>2, <1>3, <1>7 DEF OwnFile, ProducerType, Event
<1>13. UniqueIds'
    <2>1. LogEvents' = LogEvents /\ \A e \in LogEvents : e.id < n
        BY <1>1, <1>5 DEF LogEvents
    <2>2. \A q, r \in InFlight' : q # r => ev'[q].id # ev'[r].id
        BY <1>2, <1>4, <1>6, <1>7, <1>8 DEF UniqueIds, ProducerType, InFlight
    <2>3. \A q \in InFlight', e \in LogEvents' : ev'[q].id # e.id
        BY <2>1, <1>2, <1>6, <1>7, <1>8 DEF UniqueIds, InFlight
    <2> QED BY <1>1, <2>2, <2>3 DEF UniqueIds
<1> QED BY <1>9, <1>10, <1>11, <1>12, <1>13

\* Leaving the critical section: the id is now below curId.
LEMMA AdvanceKeeps ==
    ASSUME IInv, NEW p \in Producers, AddEvent_Advance(p)
    PROVE  IInv'
<1> USE DEF IInv
<1>1. /\ pc[p] = "locked" /\ curId' = curId + 1 /\ lock' = NoThread
      /\ pc' = [pc EXCEPT ![p] = "open"]
      /\ files' = files /\ log' = log /\ ev' = ev /\ calls' = calls
    BY DEF AddEvent_Advance, disk
<1>2. InFlight' = InFlight /\ p \in InFlight
    BY <1>1 DEF InFlight, ProducerType
<1>3. lock = p /\ \A q \in Producers : pc[q] = "locked" => q = p
    BY <1>1 DEF LockInv
<1>4. ev[p].id = curId /\ curId \in Nat /\ curId # NoId
    BY <1>1, <1>2 DEF IdsBelow, ProducerType, NoId
<1>5. ProducerType'
    BY <1>1, <1>2, <1>4 DEF ProducerType
<1>6. LockInv'
    BY <1>1, <1>3, ConstantsAssumption DEF LockInv, ProducerType
<1>7. IdsBelow'
    <2>1. \A f \in files : f.id < curId + 1
        BY <1>4 DEF IdsBelow, ProducerType, Event
    <2>2. \A q \in InFlight : ev[q].id < curId + 1
        BY <1>3, <1>4 DEF IdsBelow, ProducerType, Event, InFlight
    <2>3. \A i \in DOMAIN log : log[i].id < curId + 1
        <3>1. \A i \in DOMAIN log : log[i] \in Event
            BY DEF ProducerType
        <3> QED BY <1>4, <3>1 DEF IdsBelow, Event
    <2>4. \A q \in InFlight : pc'[q] # "locked"
        BY <1>1, <1>3 DEF InFlight, ProducerType
    <2> QED BY <1>1, <1>2, <1>4, <2>1, <2>2, <2>3, <2>4 DEF IdsBelow, NoId
<1>8. OwnFile'
    BY <1>1 DEF OwnFile, ProducerType
<1>9. UniqueIds'
    BY <1>1, <1>2 DEF UniqueIds, LogEvents
<1> QED BY <1>5, <1>6, <1>7, <1>8, <1>9

\* Opening or writing a file of one's own name: the other producers' names
\* differ, and all names stay below curId.
LEMMA WritesKeep ==
    ASSUME IInv, NEW p \in Producers, AddEvent_OpenFile(p) \/ AddEvent_WriteFile(p)
    PROVE  IInv'
<1> USE DEF IInv
<1> DEFINE e == IF pc[p] = "open" THEN [ev[p] EXCEPT !.call = Torn] ELSE ev[p]
<1>1. /\ pc[p] \in {"open", "write"} /\ pc'[p] \in {"write", "page"}
      /\ pc[p] = "open" <=> pc'[p] = "write"
      /\ \A q \in Producers \ {p} : pc'[q] = pc[q]
      /\ pc' \in [Producers -> {"idle", "locked", "open", "write", "page", "copy", "put"}]
      /\ files' = {f \in files : f.id # e.id} \cup {e}
      /\ log' = log /\ ev' = ev /\ calls' = calls /\ curId' = curId
      /\ lock' = lock
    BY DEF AddEvent_OpenFile, AddEvent_WriteFile, WriteFile, ProducerType
<1>2. InFlight' = InFlight /\ p \in InFlight
    BY <1>1 DEF InFlight, ProducerType
<1>3. e \in Event /\ e.id = ev[p].id /\ (pc[p] = "open" => e.call = Torn)
    BY <1>1, <1>2 DEF ProducerType, Event, Torn
<1> HIDE DEF e
<1>4. ProducerType'
    BY <1>1, <1>2, <1>3 DEF ProducerType
<1>5. LockInv'
    BY <1>1 DEF LockInv
<1>6. IdsBelow'
    <2>1. e.id < curId
        BY <1>1, <1>2, <1>3 DEF IdsBelow
    <2>2. \A f \in files' : curId # NoId => f.id < curId
        BY <1>1, <2>1 DEF IdsBelow
    <2>3. \A q \in InFlight : pc'[q] = "locked" <=> pc[q] = "locked"
        BY <1>1 DEF InFlight
    <2> QED BY <1>1, <1>2, <2>2, <2>3 DEF IdsBelow
<1>7. OwnFile'
    <2> SUFFICES ASSUME NEW q \in Producers, NEW f \in files'
                 PROVE  /\ pc'[q] \in {"locked", "open"} => f.id # ev[q].id
                        /\ pc'[q] = "write" /\ f.id = ev[q].id => f.call = Torn
        BY <1>1 DEF OwnFile
    <2>1. CASE f \in files /\ f.id # e.id
        BY <2>1, <1>1, <1>3 DEF OwnFile
    <2>2. CASE f = e /\ q = p
        BY <2>2, <1>1, <1>3
    <2>3. CASE f = e /\ q # p
        <3>1. q \in InFlight => ev[q].id # e.id
            BY <2>3, <1>2, <1>3 DEF UniqueIds
        <3> QED BY <2>3, <3>1, <1>1 DEF InFlight
    <2> QED BY <1>1, <2>1, <2>2, <2>3
<1>8. UniqueIds'
    BY <1>1, <1>2 DEF UniqueIds, LogEvents
<1> QED BY <1>4, <1>5, <1>6, <1>7, <1>8

\* Storing the page changes nothing the invariant speaks of.
LEMMA StorePageKeeps ==
    ASSUME IInv, NEW p \in Producers,
           AddEvent_OpenPage(p) \/ AddEvent_WritePage(p)
    PROVE  IInv'
<1> USE DEF IInv
<1>1. PICK x \in {"copy", "put"} :
         /\ pc[p] \in {"page", "copy"} /\ pc' = [pc EXCEPT ![p] = x]
         /\ files' = files /\ log' = log /\ ev' = ev /\ calls' = calls
         /\ curId' = curId /\ lock' = lock
    BY DEF AddEvent_OpenPage, AddEvent_WritePage
<1>2. InFlight' = InFlight
    BY <1>1 DEF InFlight, ProducerType
<1>3. ProducerType'
    BY <1>1, <1>2 DEF ProducerType
<1>4. LockInv'
    BY <1>1 DEF LockInv, ProducerType
<1>5. IdsBelow'
    BY <1>1, <1>2 DEF IdsBelow, ProducerType, InFlight
<1>6. OwnFile'
    BY <1>1 DEF OwnFile, ProducerType
<1>7. UniqueIds'
    BY <1>1, <1>2 DEF UniqueIds, LogEvents
<1> QED BY <1>3, <1>4, <1>5, <1>6, <1>7

\* A failing write takes the producer, which has left the critical section,
\* out of add_event.
LEMMA FailKeeps ==
    ASSUME IInv, NEW p \in Producers, AddEvent_Fail(p)
    PROVE  IInv'
<1> USE DEF IInv
<1>1. /\ pc[p] \in {"open", "write", "page", "copy"}
      /\ pc' = [pc EXCEPT ![p] = "idle"] /\ ev' = [ev EXCEPT ![p] = NoEvent]
      /\ files' = files /\ log' = log /\ calls' = calls /\ curId' = curId
      /\ lock' = lock
    BY DEF AddEvent_Fail, disk
<1>2. InFlight' = InFlight \ {p} /\ p \in InFlight
    BY <1>1 DEF InFlight, ProducerType
<1>3. \A q \in InFlight' : ev'[q] = ev[q] /\ pc'[q] = pc[q] /\ q \in InFlight
    BY <1>1, <1>2 DEF InFlight, ProducerType
<1>4. ProducerType'
    BY <1>1, <1>2, <1>3 DEF ProducerType
<1>5. LockInv'
    BY <1>1 DEF LockInv, ProducerType
<1>6. IdsBelow'
    <2>1. curId # NoId
        BY <1>2 DEF IdsBelow
    <2> QED BY <2>1, <1>1, <1>3 DEF IdsBelow
<1>7. OwnFile'
    BY <1>1 DEF OwnFile, ProducerType
<1>8. UniqueIds'
    BY <1>1, <1>3 DEF UniqueIds, LogEvents
<1> QED BY <1>4, <1>5, <1>6, <1>7, <1>8

\* The put moves the event from the producer to the log.
LEMMA PutKeeps ==
    ASSUME IInv, NEW p \in Producers, AddEvent_Put(p)
    PROVE  IInv'
<1> USE DEF IInv
<1>1. /\ pc[p] = "put" /\ pc' = [pc EXCEPT ![p] = "idle"]
      /\ log' = Append(log, ev[p]) /\ ev' = [ev EXCEPT ![p] = NoEvent]
      /\ files' = files /\ calls' = calls /\ curId' = curId /\ lock' = lock
    BY DEF AddEvent_Put, disk
<1>2. InFlight' = InFlight \ {p} /\ p \in InFlight
    BY <1>1 DEF InFlight, ProducerType
<1>3. ev[p] \in Event /\ ev[p].id < curId /\ curId # NoId
    BY <1>1, <1>2 DEF IdsBelow, ProducerType
<1>4. \A q \in InFlight' : ev'[q] = ev[q] /\ pc'[q] = pc[q] /\ q \in InFlight
    BY <1>1, <1>2 DEF InFlight, ProducerType
<1>5. /\ DOMAIN log' = 1..(Len(log) + 1) /\ DOMAIN log = 1..Len(log)
      /\ log'[Len(log) + 1] = ev[p]
      /\ \A i \in DOMAIN log : log'[i] = log[i]
      /\ Len(log) \in Nat
    BY <1>1, <1>3 DEF ProducerType
<1>6. LogEvents' = LogEvents \cup {ev[p]}
    BY <1>5 DEF LogEvents
<1>7. ProducerType'
    BY <1>1, <1>2, <1>3, <1>4 DEF ProducerType
<1>8. LockInv'
    BY <1>1 DEF LockInv, ProducerType
<1>9. IdsBelow'
    BY <1>1, <1>2, <1>3, <1>4, <1>5 DEF IdsBelow
<1>10. OwnFile'
    BY <1>1 DEF OwnFile, ProducerType
<1>11. UniqueIds'
    <2>1. \A q \in InFlight', e \in LogEvents' : ev'[q].id # e.id
        BY <1>2, <1>4, <1>6 DEF UniqueIds
    <2>2. \A q, r \in InFlight' : q # r => ev'[q].id # ev'[r].id
        BY <1>4 DEF UniqueIds
    <2>3. \A i \in DOMAIN log : log[i].id # ev[p].id
        BY <1>2 DEF UniqueIds, LogEvents
    <2>4. \A i, j \in DOMAIN log' : i # j => log'[i].id # log'[j].id
        BY <1>5, <2>3 DEF UniqueIds
    <2> QED BY <2>1, <2>2, <2>4 DEF UniqueIds
<1> QED BY <1>7, <1>8, <1>9, <1>10, <1>11

\* A crash leaves only the files.
LEMMA CrashKeeps ==
    ASSUME IInv, Crash
    PROVE  IInv'
<1> USE DEF IInv
<1>1. /\ curId' = NoId /\ lock' = NoThread /\ log' = <<>>
      /\ pc' = [q \in Producers |-> "idle"]
      /\ ev' = [q \in Producers |-> NoEvent]
      /\ files' = files /\ calls' = calls
    BY DEF Crash, disk
<1>2. InFlight' = {} /\ LogEvents' = {} /\ DOMAIN log' = {}
    BY <1>1 DEF InFlight, LogEvents
<1>3. ProducerType'
    BY <1>1, <1>2 DEF ProducerType, NoId
<1>4. LockInv'
    BY <1>1, ConstantsAssumption DEF LockInv
<1>5. IdsBelow'
    BY <1>1, <1>2 DEF IdsBelow
<1>6. OwnFile'
    BY <1>1 DEF OwnFile
<1>7. UniqueIds'
    BY <1>2 DEF UniqueIds
<1> QED BY <1>3, <1>4, <1>5, <1>6, <1>7

\* What add_event works on: the other actions leave it alone.
ProducerVars == <<files, curId, lock, pc, ev, log, calls>>

LEMMA UnchangedKeeps ==
    ASSUME IInv, UNCHANGED ProducerVars
    PROVE  IInv'
<1>1. InFlight' = InFlight /\ LogEvents' = LogEvents
    BY DEF ProducerVars, InFlight, LogEvents
<1> QED BY <1>1 DEF IInv, ProducerVars, ProducerType, LockInv, IdsBelow,
                    OwnFile, UniqueIds

\* The actions of subscribers, dispatcher, pools and close.
LEMMA OthersUnchanged ==
    ASSUME \/ \E s \in Subs : \/ Subscribe_Callback(s) \/ Subscribe_Pool(s)
                              \/ CleanUp(s) \/ Callback(s)
           \/ Dispatcher \/ Close \/ UNCHANGED vars
    PROVE  UNCHANGED ProducerVars
<1> USE DEF ProducerVars, disk, prodVars
<1>1. ASSUME NEW s \in Subs, Subscribe_Callback(s) \/ Subscribe_Pool(s)
      PROVE  UNCHANGED ProducerVars
    BY <1>1 DEF Subscribe_Callback, Subscribe_Pool
<1>2. ASSUME NEW s \in Subs, CleanUp(s)
      PROVE  UNCHANGED ProducerVars
    BY <1>2 DEF CleanUp, CleanUp_Shutdown, CleanUp_DropPool,
                CleanUp_DropCallback
<1>3. ASSUME NEW s \in Subs, Callback(s)
      PROVE  UNCHANGED ProducerVars
    BY <1>3 DEF Callback
<1>4. CASE Dispatcher
    BY <1>4 DEF Dispatcher, Dispatch_Check, Dispatch_Get, Dispatch_Timeout,
                Dispatch_Submit, Dispatch_Done
<1>5. CASE Close
    BY <1>5 DEF Close, Close_Stop, Close_Joined, Close_Clear
<1>6. CASE UNCHANGED vars
    BY <1>6 DEF vars
<1> QED BY <1>1, <1>2, <1>3, <1>4, <1>5, <1>6

LEMMA NextIInv ==
    ASSUME NoReaders
    PROVE  IInv /\ [Next]_vars => IInv'
<1> SUFFICES ASSUME IInv, [Next]_vars PROVE IInv'
    OBVIOUS
<1>1. CASE \E p \in Producers : AddEvent(p)
    BY <1>1, TakeIdKeeps, AdvanceKeeps, WritesKeep, StorePageKeeps, PutKeeps,
       FailKeeps
       DEF AddEvent
<1>2. CASE Crash
    BY <1>2, CrashKeeps
<1>3. CASE ~Crash /\ ~ \E p \in Producers : AddEvent(p)
    <2>1. UNCHANGED ProducerVars
        BY <1>3, OthersUnchanged DEF Next, NoReaders
    <2> QED BY <2>1, UnchangedKeeps
<1> QED BY <1>1, <1>2, <1>3

\* The strengthened invariant holds in every reachable state.
LEMMA SpecIInv ==
    ASSUME NoReaders
    PROVE  Spec => []IInv
BY InitIInv, NextIInv, PTL DEF Spec

-----------------------------------------------------------------------------
\* Within one process life no two events get the same id, whatever producers
\* do concurrently and however often the process died before: the id is
\* taken and advanced under one lock (stream.py:170-173).
THEOREM IdsAreUnique ==
    ASSUME NoReaders
    PROVE  Spec => []UniqueIds
<1>1. IInv => UniqueIds
    BY DEF IInv
<1> QED BY SpecIInv, <1>1, PTL

\* No event that has been written is ever replaced, not even after a crash:
\* a step that writes a file finds no other event under its name
\* (stream.py:186-199, event_store.py:65-83).
THEOREM FilesAreImmutable ==
    ASSUME NoReaders
    PROVE  Spec => FilesImmutable
<1> DEFINE Kept == \A f \in files : f.call # Torn => f \in files'
<1>1. ASSUME IInv, [Next]_vars
      PROVE  [Kept]_files
    <2>1. ASSUME NEW p \in Producers,
                 AddEvent_OpenFile(p) \/ AddEvent_WriteFile(p)
          PROVE  Kept
        <3>1. /\ pc[p] \in {"open", "write"}
              /\ {f \in files : f.id # ev[p].id} \subseteq files'
            BY <1>1, <2>1 DEF AddEvent_OpenFile, AddEvent_WriteFile, WriteFile, IInv,
                        ProducerType, InFlight, Event
        <3>2. \A f \in files : f.id = ev[p].id => f.call = Torn
            BY <1>1, <3>1 DEF IInv, OwnFile
        <3> QED BY <3>1, <3>2
    <2>2. ASSUME NEW p \in Producers,
                 \/ AddEvent_TakeId(p) \/ AddEvent_Advance(p)
                 \/ AddEvent_OpenPage(p) \/ AddEvent_WritePage(p)
                 \/ AddEvent_Put(p) \/ AddEvent_Fail(p)
          PROVE  files' = files
        BY <2>2 DEF AddEvent_TakeId, AddEvent_Advance, AddEvent_OpenPage,
                    AddEvent_WritePage, AddEvent_Put, AddEvent_Fail, disk
    <2>3. CASE Crash
        BY <2>3 DEF Crash, disk
    <2>4. CASE ~Crash /\ ~ \E p \in Producers : AddEvent(p)
        BY <2>4, <1>1, OthersUnchanged DEF Next, NoReaders, ProducerVars
    <2> QED BY <2>1, <2>2, <2>3, <2>4 DEF AddEvent
<1> QED BY SpecIInv, <1>1, PTL DEF Spec, FilesImmutable

-----------------------------------------------------------------------------
(* Type correctness, with or without readers outside the lock.             *)

\* What TypeOK needs to be inductive: a producer inside add_event has an event
\* and, once it has left the critical section, a page of its own, a
\* full one when it stores it; the dispatcher at work has an event; what is queued is in the log.
Handles ==
    /\ Len(pages) > 0
    /\ InFlight # {} => curId \in Nat
    /\ \A p \in InFlight : ev[p] \in Event
    /\ \A p \in Producers :
          pc[p] \in {"open", "write", "page", "copy", "put"} => page[p] \in DOMAIN pages
    /\ \A p \in Producers :
          pc[p] = "copy" => Len(pages[page[p]]) >= CacheSize
    /\ disp = "dispatch" => cur \in Event
    /\ Len(queue) <= Len(log)

TypeInv == TypeOK /\ Handles

LEMMA InitTypeInv == Init => TypeInv
<1> SUFFICES ASSUME Init PROVE TypeInv
    OBVIOUS
<1>1. InFlight = {}
    BY DEF Init, InFlight
<1>2. pages \in Seq(Seq(Event)) /\ Len(pages) = 1
    BY DEF Init
<1>3. TypeOK
    <2>1. pool \in [Subs -> Seq(Event)] /\ seen \in [Subs -> Seq(Event)]
        BY DEF Init
    <2>2. queue \in Seq(Event) /\ log \in Seq(Event)
        BY DEF Init
    <2>3. /\ files \subseteq Event /\ cache \subseteq CachePage
          /\ \A f, g \in files : f.id = g.id => f = g
          /\ todo \subseteq Subs
        BY DEF Init
    <2>4. /\ rd \in [Readers -> Nat \cup {NoId}] /\ curId \in Nat \cup {NoId}
          /\ from \in [Subs -> Nat] /\ page \in [Producers -> Nat]
          /\ calls \in Nat /\ lost \subseteq Event /\ crashes \in Nat
        BY DEF Init
    <2> QED BY <1>2, <2>1, <2>2, <2>3, <2>4 DEF Init, TypeOK
<1>4. Handles
    BY <1>1, <1>2 DEF Init, Handles
<1> QED BY <1>3, <1>4 DEF TypeInv

LEMMA TakeIdTyped ==
    ASSUME TypeInv, NEW p \in Producers, AddEvent_TakeId(p)
    PROVE  TypeInv'
<1> USE DEF TypeInv
<1> PICK n \in 0..MaxEvents :
        curId' = n /\ ev' = [ev EXCEPT ![p] = [id |-> n, call |-> calls']]
    BY DEF AddEvent_TakeId
<1>1. n \in Nat /\ calls' \in Nat
    BY ConstantsAssumption DEF AddEvent_TakeId, TypeOK
<1>2. [id |-> n, call |-> calls'] \in Event
    BY <1>1 DEF Event
<1>3. ev' \in [Producers -> Event \cup {NoEvent}]
    BY <1>2 DEF TypeOK
<1>4. TypeOK'
    BY <1>1, <1>3 DEF AddEvent_TakeId, TypeOK, disk, dispVars, subVars
<1>5. \A q \in InFlight' : ev'[q] \in Event
    BY <1>2 DEF AddEvent_TakeId, TypeOK, Handles, InFlight
<1>6. Handles'
    BY <1>1, <1>5 DEF AddEvent_TakeId, TypeOK, Handles, dispVars
<1> QED BY <1>4, <1>6

LEMMA AdvanceTyped ==
    ASSUME TypeInv, NEW p \in Producers, AddEvent_Advance(p)
    PROVE  TypeInv'
<1> USE DEF TypeInv
<1> DEFINE k == Len(pages)
           filled == Append(pages[k], ev[p])
           updated == [pages EXCEPT ![k] = filled]
<1>1. /\ page' = [page EXCEPT ![p] = k]
      /\ pages' = IF Len(filled) = CacheSize THEN Append(updated, <<>>)
                                             ELSE updated
      /\ curId' = curId + 1
      /\ pc' = [pc EXCEPT ![p] = "open"]
    BY DEF AddEvent_Advance
<1>2. p \in InFlight
    BY DEF AddEvent_Advance, InFlight
<1>3. k \in DOMAIN pages /\ k \in Nat /\ pages[k] \in Seq(Event) /\ ev[p] \in Event
    BY <1>2 DEF Handles, TypeOK
<1>4. filled \in Seq(Event)
    BY <1>3
<1>5. updated \in Seq(Seq(Event)) /\ Len(updated) = k
    BY <1>3, <1>4 DEF TypeOK
<1>6. <<>> \in Seq(Event)
    OBVIOUS
<1>7. pages' \in Seq(Seq(Event)) /\ Len(pages') \in Nat /\ Len(pages') >= k
    BY <1>1, <1>5, <1>6, <1>3
<1>8. DOMAIN pages = 1..k /\ DOMAIN pages' = 1..Len(pages')
    BY <1>7 DEF TypeOK
<1>9. curId' \in Nat
    BY <1>1, <1>2 DEF Handles
<1>10. TypeOK'
    BY <1>1, <1>3, <1>7, <1>9
       DEF AddEvent_Advance, TypeOK, disk, dispVars, subVars
<1>11. Handles'
    <2>1. \A q \in Producers : q # p => page'[q] = page[q] /\ pc'[q] = pc[q]
        BY <1>1 DEF TypeOK
    <2>2. \A q \in Producers :
            pc'[q] \in {"open", "write", "page", "copy", "put"} => page'[q] \in 1..k
        BY <1>1, <1>3, <1>8, <2>1 DEF TypeOK, Handles
    <2>3. \A q \in InFlight' : ev'[q] \in Event
        BY <1>1, <1>2 DEF AddEvent_Advance, TypeOK, Handles, InFlight
    <2>4. ASSUME NEW q \in Producers, pc'[q] = "copy"
          PROVE  Len(pages'[page'[q]]) >= CacheSize
        <3>1. q # p /\ pc[q] = "copy" /\ page'[q] = page[q] /\ page[q] \in 1..k
            BY <1>1, <1>8, <2>1, <2>4 DEF TypeOK, Handles
        <3>2. Len(pages[page[q]]) >= CacheSize
            BY <3>1 DEF Handles
        <3>3. pages'[page[q]] = updated[page[q]]
            BY <1>1, <1>5, <3>1
        <3>4. page[q] = k => updated[page[q]] = filled /\ Len(filled) = Len(pages[k]) + 1
            BY <1>3, <3>1
        <3>5. page[q] # k => updated[page[q]] = pages[page[q]]
            BY <3>1
        <3>6. Len(pages[k]) \in Nat /\ CacheSize \in Nat
            BY <1>3, ConstantsAssumption
        <3> HIDE DEF k, filled, updated
        <3>7. Len(pages'[page[q]]) >= CacheSize
            BY <3>2, <3>3, <3>4, <3>5, <3>6
        <3> QED BY <3>1, <3>7
    <2> QED BY <1>3, <1>7, <1>8, <1>9, <2>2, <2>3, <2>4
            DEF AddEvent_Advance, Handles, dispVars
<1> QED BY <1>10, <1>11

LEMMA WriteTyped ==
    ASSUME TypeInv, NEW p \in Producers, AddEvent_OpenFile(p) \/ AddEvent_WriteFile(p)
    PROVE  TypeInv'
<1> USE DEF TypeInv
<1>1. p \in InFlight
    BY DEF AddEvent_OpenFile, AddEvent_WriteFile, InFlight
<1>2. ev[p] \in Event /\ [ev[p] EXCEPT !.call = Torn] \in Event
    BY <1>1 DEF Handles, Event, Torn
<1>3. PICK e \in Event : files' = {f \in files : f.id # e.id} \cup {e}
    BY <1>2 DEF AddEvent_OpenFile, AddEvent_WriteFile, WriteFile
<1>4. files' \subseteq Event /\ \A f, g \in files' : f.id = g.id => f = g
    BY <1>3 DEF TypeOK
<1>5. TypeOK'
    BY <1>4 DEF AddEvent_OpenFile, AddEvent_WriteFile, TypeOK, dispVars, subVars
<1>6. Handles'
    BY DEF AddEvent_OpenFile, AddEvent_WriteFile, TypeOK, Handles, InFlight,
           dispVars
<1> QED BY <1>5, <1>6

LEMMA StorePageTyped ==
    ASSUME TypeInv, NEW p \in Producers,
           AddEvent_OpenPage(p) \/ AddEvent_WritePage(p)
    PROVE  TypeInv'
<1> USE DEF TypeInv
<1>1. PICK x \in {"copy", "put"} :
         /\ pc[p] \in {"page", "copy"} /\ pc' = [pc EXCEPT ![p] = x]
         /\ UNCHANGED <<files, curId, lock, pages, ev, page, calls, lost, rd, queue,
                        dispVars, subVars, pool, stop, closing, crashes, log, seen>>
    BY DEF AddEvent_OpenPage, AddEvent_WritePage
<1>2. PageOf(p) \in Seq(Event)
    BY <1>1 DEF PageOf, TypeOK, Handles
<1>3. cache' \subseteq CachePage
    <2>1. CASE cache' = cache
        BY <2>1 DEF TypeOK
    <2>2. ASSUME PageIsFull(p), NEW events \in {<<>>, PageOf(p)},
                 cache' = StorePage(p, events)
          PROVE  cache' \subseteq CachePage
        <3>1. PageOf(p)[1] \in Event
            BY <2>2, <1>2, ConstantsAssumption DEF PageIsFull
        <3>2. events \in Seq(Event) /\ PageOf(p)[1].id \in Nat
            <4>1. events = <<>> \/ events = PageOf(p)
                OBVIOUS
            <4>2. <<>> \in Seq(Event)
                OBVIOUS
            <4>3. events \in Seq(Event)
                BY <4>1, <4>2, <1>2
            <4> QED BY <4>3, <3>1 DEF Event
        <3>3. [start |-> PageOf(p)[1].id, events |-> events] \in CachePage
            BY <3>2 DEF CachePage
        <3> QED BY <3>3, <2>2 DEF StorePage, TypeOK
    <2>3. AddEvent_WritePage(p) => PageIsFull(p)
        BY DEF AddEvent_WritePage, Handles, PageIsFull, PageOf
    <2> QED BY <2>1, <2>2, <2>3 DEF AddEvent_OpenPage, AddEvent_WritePage
<1>4. TypeOK'
    BY <1>1, <1>3 DEF TypeOK, dispVars, subVars
<1>5. Handles'
    <2>1. \A q \in Producers :
             pc'[q] = "copy" => Len(pages[page[q]]) >= CacheSize
        <3>1. pc'[p] = "copy" => Len(pages[page[p]]) >= CacheSize
            BY <1>1 DEF AddEvent_OpenPage, AddEvent_WritePage, TypeOK,
                        PageIsFull, PageOf
        <3> QED BY <3>1, <1>1 DEF TypeOK, Handles
    <2> QED BY <2>1, <1>1 DEF TypeOK, Handles, InFlight, dispVars
<1> QED BY <1>4, <1>5

LEMMA FailTyped ==
    ASSUME TypeInv, NEW p \in Producers, AddEvent_Fail(p)
    PROVE  TypeInv'
<1> USE DEF TypeInv
<1>1. ev[p] \in Event
    BY DEF AddEvent_Fail, Handles, InFlight
<1>2. TypeOK'
    BY <1>1 DEF AddEvent_Fail, TypeOK, disk, dispVars, subVars
<1>3. Handles'
    BY DEF AddEvent_Fail, TypeOK, Handles, InFlight, dispVars
<1> QED BY <1>2, <1>3

LEMMA PutTyped ==
    ASSUME TypeInv, NEW p \in Producers, AddEvent_Put(p)
    PROVE  TypeInv'
<1> USE DEF TypeInv
<1>1. ev[p] \in Event
    BY DEF AddEvent_Put, Handles, InFlight
<1>2. queue' \in Seq(Event) /\ log' \in Seq(Event)
    BY <1>1 DEF AddEvent_Put, TypeOK
<1>3. TypeOK'
    BY <1>2 DEF AddEvent_Put, TypeOK, disk, dispVars, subVars
<1>4. Len(queue') <= Len(log')
    BY <1>1 DEF AddEvent_Put, TypeOK, Handles
<1>5. Handles'
    BY <1>4 DEF AddEvent_Put, TypeOK, Handles, InFlight, dispVars
<1> QED BY <1>3, <1>5

LEMMA ReadersTyped ==
    ASSUME TypeInv, NEW r \in Readers, ReadCurId_List(r) \/ ReadCurId_Store(r)
    PROVE  TypeInv'
<1> USE DEF TypeInv
<1>1. CASE ReadCurId_List(r)
    <2>1. rd' \in [Readers -> Nat \cup {NoId}]
        BY <1>1, ConstantsAssumption DEF ReadCurId_List, TypeOK
    <2> QED BY <1>1, <2>1 DEF ReadCurId_List, TypeOK, Handles, InFlight, disk,
                              prodVars, dispVars, subVars
<1>2. CASE ReadCurId_Store(r)
    <2>1. curId' \in Nat /\ rd' \in [Readers -> Nat \cup {NoId}]
        BY <1>2 DEF ReadCurId_Store, TypeOK, NoId
    <2> QED BY <1>2, <2>1 DEF ReadCurId_Store, TypeOK, Handles, InFlight, disk,
                              prodVars, dispVars, subVars
<1> QED BY <1>1, <1>2

LEMMA SubscribersTyped ==
    ASSUME TypeInv, NEW s \in Subs,
           Subscribe_Callback(s) \/ Subscribe_Pool(s) \/ CleanUp(s)
    PROVE  TypeInv'
<1> USE DEF TypeInv, TypeOK, Handles, InFlight, disk, prodVars, dispVars, subVars
<1>1. CASE Subscribe_Callback(s)
    <2>1. from' \in [Subs -> Nat]
        <3>1. Len(log) - Len(queue) \in Nat
            BY <1>1 DEF Subscribe_Callback
        <3> QED BY <1>1, <3>1 DEF Subscribe_Callback
    <2> QED BY <1>1, <2>1 DEF Subscribe_Callback
<1>2. CASE Subscribe_Pool(s)
    BY <1>2 DEF Subscribe_Pool
<1>3. CASE CleanUp(s)
    <2>1. PICK x \in {"draining", "deaf", "poolgone", "off"} :
             sub' = [sub EXCEPT ![s] = x]
        BY <1>3 DEF CleanUp, CleanUp_Shutdown, CleanUp_DropPool,
                    CleanUp_DropCallback
    <2>2. UNCHANGED <<disk, curId, prodVars, rd, queue, dispVars, from, pool,
                      stop, closing, crashes, log, seen>>
        BY <1>3 DEF CleanUp, CleanUp_Shutdown, CleanUp_DropPool,
                    CleanUp_DropCallback
    <2> QED BY <2>1, <2>2
<1> QED BY <1>1, <1>2, <1>3

LEMMA DispatcherTyped ==
    ASSUME TypeInv, Dispatcher
    PROVE  TypeInv'
<1> USE DEF TypeInv, TypeOK, Handles, InFlight, disk, prodVars, dispVars, subVars
<1>1. CASE Dispatch_Check \/ Dispatch_Timeout \/ Dispatch_Done
    BY <1>1 DEF Dispatch_Check, Dispatch_Timeout, Dispatch_Done
<1>2. CASE Dispatch_Get
    <2>1. /\ cur' \in Event /\ queue' \in Seq(Event)
          /\ Len(queue') <= Len(queue) /\ Len(queue') \in Nat
        BY <1>2 DEF Dispatch_Get
    <2>2. Len(queue') <= Len(log')
        BY <1>2, <2>1 DEF Dispatch_Get
    <2>3. todo' \subseteq Subs
        BY <1>2 DEF Dispatch_Get
    <2> QED BY <1>2, <2>1, <2>2, <2>3 DEF Dispatch_Get
<1>3. CASE Dispatch_Submit
    <2>1. PICK s \in todo :
            /\ todo' = todo \ {s}
            /\ pool' = IF sub[s] = "on"
                       THEN [pool EXCEPT ![s] = Append(@, cur)] ELSE pool
            /\ disp' = IF sub[s] \in {"on", "off"} THEN disp ELSE "dead"
        BY <1>3 DEF Dispatch_Submit
    <2>2. cur \in Event /\ pool[s] \in Seq(Event)
        BY <1>3, <2>1 DEF Dispatch_Submit
    <2>3. pool' \in [Subs -> Seq(Event)]
        BY <2>1, <2>2
    <2>4. UNCHANGED <<disk, curId, prodVars, rd, queue, cur, subVars, stop,
                      closing, crashes, log, seen>>
        BY <1>3 DEF Dispatch_Submit
    <2> QED BY <1>3, <2>1, <2>2, <2>3, <2>4 DEF Dispatch_Submit
<1> QED BY <1>1, <1>2, <1>3 DEF Dispatcher

LEMMA CallbackTyped ==
    ASSUME TypeInv, NEW s \in Subs, Callback(s)
    PROVE  TypeInv'
<1> USE DEF TypeInv, TypeOK, Handles, InFlight, disk, prodVars, dispVars, subVars
<1>1. /\ Head(pool[s]) \in Event /\ Tail(pool[s]) \in Seq(Event)
      /\ seen[s] \in Seq(Event)
    BY DEF Callback
<1>2. pool' \in [Subs -> Seq(Event)] /\ seen' \in [Subs -> Seq(Event)]
    BY <1>1 DEF Callback
<1> QED BY <1>2 DEF Callback

LEMMA CloseTyped ==
    ASSUME TypeInv, Close
    PROVE  TypeInv'
<1> USE DEF TypeInv, TypeOK, Handles, InFlight, disk, prodVars, dispVars, subVars
<1>1. CASE Close_Stop \/ Close_Joined
    BY <1>1 DEF Close_Stop, Close_Joined
<1>2. CASE Close_Clear
    <2>1. queue' \in Seq(Event) /\ Len(queue') = 0 /\ Len(log') \in Nat
        BY <1>2 DEF Close_Clear
    <2> QED BY <1>2, <2>1 DEF Close_Clear
<1> QED BY <1>1, <1>2 DEF Close

LEMMA CrashTyped ==
    ASSUME TypeInv, Crash
    PROVE  TypeInv'
<1> USE DEF TypeInv
<1>1. InFlight' = {}
    BY DEF Crash, InFlight
<1>2. pages' \in Seq(Seq(Event)) /\ Len(pages') = 1
    BY DEF Crash
<1>3. TypeOK'
    <2>1. pool' \in [Subs -> Seq(Event)] /\ seen' \in [Subs -> Seq(Event)]
        BY DEF Crash
    <2>2. queue' \in Seq(Event) /\ log' \in Seq(Event)
        BY DEF Crash
    <2>3. /\ files' = files /\ cache' = cache /\ calls' = calls /\ lost' = lost
          /\ todo' \subseteq Subs
        BY DEF Crash, disk
    <2>4. /\ rd' \in [Readers -> Nat \cup {NoId}] /\ curId' \in Nat \cup {NoId}
          /\ from' \in [Subs -> Nat] /\ page' \in [Producers -> Nat]
          /\ crashes' \in Nat
        BY DEF Crash, TypeOK
    <2> QED BY <1>2, <2>1, <2>2, <2>3, <2>4 DEF Crash, TypeOK
<1>4. Handles'
    BY <1>1, <1>2 DEF Crash, Handles
<1> QED BY <1>3, <1>4

LEMMA NextTypeInv == TypeInv /\ [Next]_vars => TypeInv'
<1> SUFFICES ASSUME TypeInv, [Next]_vars PROVE TypeInv'
    OBVIOUS
<1>1. CASE \E p \in Producers : AddEvent(p)
    BY <1>1, TakeIdTyped, AdvanceTyped, WriteTyped, StorePageTyped, PutTyped,
       FailTyped
       DEF AddEvent
<1>2. CASE \E r \in Readers : ReadCurId_List(r) \/ ReadCurId_Store(r)
    BY <1>2, ReadersTyped
<1>3. CASE \E s \in Subs : Subscribe_Callback(s) \/ Subscribe_Pool(s) \/ CleanUp(s)
    BY <1>3, SubscribersTyped
<1>4. CASE \E s \in Subs : Callback(s)
    BY <1>4, CallbackTyped
<1>5. CASE Dispatcher
    BY <1>5, DispatcherTyped
<1>6. CASE Close
    BY <1>6, CloseTyped
<1>7. CASE Crash
    BY <1>7, CrashTyped
<1>8. CASE UNCHANGED vars
    BY <1>8 DEF vars, TypeInv, TypeOK, Handles, InFlight, disk, prodVars,
                dispVars, subVars
<1> QED BY <1>1, <1>2, <1>3, <1>4, <1>5, <1>6, <1>7, <1>8 DEF Next

\* Every variable keeps its type, an id names at most one file, and add_event
\* never indexes a write page that does not exist.
THEOREM TypeCorrect == Spec => []TypeOK
<1>1. TypeInv => TypeOK
    BY DEF TypeInv
<1> QED BY InitTypeInv, NextTypeInv, <1>1, PTL DEF Spec

-----------------------------------------------------------------------------
(* Delivery: what the dispatcher and the pools owe to each subscriber.     *)

\* The number of events taken off the queue in this life of the process.
Taken == Len(log) - Len(queue)

\* The queue holds the youngest events of the log.
QueueIsSuffix == \A i \in DOMAIN queue : queue[i] = log[Taken + i]

\* The dispatcher at work holds the last event taken, visits registered
\* subscribers only, and has ended when close() cleans up.
DispatchState ==
    /\ closing \in {"cleanup", "closed"} => disp \in {"stopped", "dead"}
    /\ disp \in {"check", "get"} => todo = {}
    /\ disp = "dispatch" => Taken > 0 /\ cur = log[Taken]
    /\ \A s \in todo : sub[s] # "none"

\* Only a subscriber with a pool has tasks, only one that joined has handled.
PoolState ==
    \A s \in Subs :
        /\ sub[s] \in {"none", "adding", "poolgone", "off"} => pool[s] = <<>>
        /\ sub[s] = "none" => seen[s] = <<>>

\* What a subscriber has handled, and then what its pool still holds, are
\* consecutive events of the log; one that is registered misses at most the
\* event the dispatcher is about to hand to it.
Placed(s) == from[s] + Len(seen[s]) + Len(pool[s])

InOrder(s) ==
    /\ Placed(s) <= Taken
    /\ \A k \in DOMAIN seen[s] : seen[s][k] = log[from[s] + k]
    /\ sub[s] # "deaf" => \A k \in DOMAIN pool[s] :
                             pool[s][k] = log[from[s] + Len(seen[s]) + k]
    /\ sub[s] \in {"adding", "on"} /\ disp \in {"check", "get", "dispatch"}
          => Placed(s) = IF s \in todo THEN Taken - 1 ELSE Taken

DeliveryInv ==
    QueueIsSuffix /\ DispatchState /\ PoolState /\ \A s \in Subs : InOrder(s)

\* The lengths that occur, as numbers.
LEMMA Lengths ==
    ASSUME TypeInv
    PROVE  /\ log \in Seq(Event) /\ queue \in Seq(Event)
           /\ Len(log) \in Nat /\ Len(queue) \in Nat /\ Taken \in Nat
           /\ \A s \in Subs : /\ from[s] \in Nat
                              /\ seen[s] \in Seq(Event) /\ Len(seen[s]) \in Nat
                              /\ pool[s] \in Seq(Event) /\ Len(pool[s]) \in Nat
<1> USE DEF TypeInv, TypeOK
<1>1. log \in Seq(Event) /\ queue \in Seq(Event) /\ Len(queue) <= Len(log)
    BY DEF Handles
<1>2. Taken \in Nat
    BY <1>1 DEF Taken
<1>3. \A s \in Subs : seen[s] \in Seq(Event) /\ pool[s] \in Seq(Event)
    OBVIOUS
<1> QED BY <1>1, <1>2, <1>3

LEMMA InitDelivery == Init => DeliveryInv
<1> SUFFICES ASSUME Init PROVE DeliveryInv
    OBVIOUS
<1>1. log = <<>> /\ queue = <<>> /\ Len(log) = 0 /\ Len(queue) = 0 /\ Taken = 0
    BY DEF Init, Taken
<1>2. \A s \in Subs : /\ from[s] = 0 /\ seen[s] = <<>> /\ pool[s] = <<>>
                      /\ sub[s] = "none" /\ Placed(s) = 0
    BY DEF Init, Placed
<1>3. QueueIsSuffix /\ DispatchState /\ PoolState
    BY <1>1, <1>2 DEF Init, QueueIsSuffix, DispatchState, PoolState
<1>4. \A s \in Subs : InOrder(s)
    BY <1>1, <1>2 DEF InOrder
<1> QED BY <1>3, <1>4 DEF DeliveryInv

\* A step that touches none of the variables of the delivery.
DeliveryVars == <<log, queue, dispVars, subVars, pool, closing, seen>>

LEMMA DeliveryUntouched ==
    ASSUME DeliveryInv, UNCHANGED DeliveryVars
    PROVE  DeliveryInv'
BY DEF DeliveryVars, dispVars, subVars, DeliveryInv, QueueIsSuffix, Taken,
       DispatchState, PoolState, InOrder, Placed

\* A put extends log and queue alike.
LEMMA PutDelivers ==
    ASSUME TypeInv, DeliveryInv, NEW p \in Producers, AddEvent_Put(p)
    PROVE  DeliveryInv'
<1>1. /\ queue' = Append(queue, ev[p]) /\ log' = Append(log, ev[p])
      /\ UNCHANGED <<disp, cur, todo, sub, from, pool, closing, seen>>
    BY DEF AddEvent_Put, dispVars, subVars
<1>2. ev[p] \in Event
    BY DEF AddEvent_Put, TypeInv, Handles, InFlight
<1>3. /\ Len(log') = Len(log) + 1 /\ Len(queue') = Len(queue) + 1
      /\ \A i \in 1..Len(log) : log'[i] = log[i]
      /\ \A i \in 1..Len(queue) : queue'[i] = queue[i]
      /\ log'[Len(log) + 1] = ev[p] /\ queue'[Len(queue) + 1] = ev[p]
      /\ DOMAIN queue' = 1..(Len(queue) + 1) /\ DOMAIN queue = 1..Len(queue)
    BY <1>1, <1>2, Lengths
<1>4. Taken' = Taken
    BY <1>3, Lengths DEF Taken
<1>5. QueueIsSuffix'
    <2> SUFFICES ASSUME NEW i \in 1..(Len(queue) + 1)
                 PROVE  queue'[i] = log'[Taken + i]
        BY <1>3, <1>4 DEF QueueIsSuffix
    <2>1. CASE i = Len(queue) + 1
        BY <2>1, <1>3, Lengths DEF Taken
    <2>2. CASE i # Len(queue) + 1
        <3>1. i \in DOMAIN queue /\ i \in 1..Len(queue) /\ Taken + i \in 1..Len(log)
            BY <2>2, <1>3, Lengths DEF Taken
        <3> QED BY <3>1, <1>3 DEF DeliveryInv, QueueIsSuffix
    <2> QED BY <2>1, <2>2
<1>6. DispatchState' /\ PoolState'
    BY <1>1, <1>3, <1>4, Lengths
       DEF DeliveryInv, DispatchState, PoolState, Taken
<1>7. ASSUME NEW s \in Subs
      PROVE  InOrder(s)'
    <2>1. /\ from[s] \in Nat /\ Len(seen[s]) \in Nat /\ Len(pool[s]) \in Nat
          /\ DOMAIN seen[s] = 1..Len(seen[s]) /\ DOMAIN pool[s] = 1..Len(pool[s])
        BY Lengths
    <2>2. InOrder(s) /\ Placed(s)' = Placed(s) /\ Placed(s) <= Len(log)
        <3>1. InOrder(s) /\ Placed(s)' = Placed(s)
            BY <1>1 DEF DeliveryInv, Placed
        <3>2. Placed(s) <= Taken /\ Placed(s) \in Nat
            BY <2>1, <3>1 DEF InOrder, Placed
        <3>3. Taken <= Len(log)
            BY Lengths DEF Taken
        <3> QED BY <3>1, <3>2, <3>3, Lengths
    <2>7. PICK f, b, c, n \in Nat : /\ f = from[s] /\ b = Len(seen[s])
                                    /\ c = Len(pool[s]) /\ n = Len(log)
        BY <2>1, Lengths
    <2>8. f + b + c <= n
        BY <2>2, <2>7 DEF Placed
    <2>3. \A k \in DOMAIN seen[s] : from[s] + k \in 1..Len(log)
        <3>1. \A k \in 1..b : f + k \in 1..n
            BY <2>8
        <3> QED BY <3>1, <2>1, <2>7
    <2>4. \A k \in DOMAIN pool[s] : from[s] + Len(seen[s]) + k \in 1..Len(log)
        <3>1. \A k \in 1..c : f + b + k \in 1..n
            BY <2>8
        <3> QED BY <3>1, <2>1, <2>7
    <2>5. \A k \in DOMAIN seen[s] : seen[s][k] = log'[from[s] + k]
        BY <1>3, <2>2, <2>3 DEF InOrder
    <2>6. sub[s] # "deaf" => \A k \in DOMAIN pool[s] :
                                pool[s][k] = log'[from[s] + Len(seen[s]) + k]
        BY <1>3, <2>2, <2>4 DEF InOrder
    <2> QED BY <1>1, <1>4, <2>2, <2>5, <2>6 DEF InOrder
<1> QED BY <1>5, <1>6, <1>7 DEF DeliveryInv

\* A subscriber joins after the last event taken, and leaves with what its
\* pool has.
LEMMA SubscribersDeliver ==
    ASSUME TypeInv, DeliveryInv, NEW s \in Subs,
           Subscribe_Callback(s) \/ Subscribe_Pool(s) \/ CleanUp(s)
    PROVE  DeliveryInv'
<1>1. CASE Subscribe_Callback(s)
    <2>1. /\ sub[s] = "none" /\ sub' = [sub EXCEPT ![s] = "adding"]
          /\ from' = [from EXCEPT ![s] = Taken]
          /\ UNCHANGED <<log, queue, disp, cur, todo, pool, closing, seen>>
        BY <1>1 DEF Subscribe_Callback, dispVars, Taken
    <2>2. Taken' = Taken
        BY <2>1 DEF Taken
    <2>3. /\ pool[s] = <<>> /\ seen[s] = <<>> /\ s \notin todo
          /\ sub'[s] = "adding" /\ from'[s] = Taken
        BY <2>1 DEF DeliveryInv, PoolState, DispatchState, TypeInv, TypeOK
    <2>4. QueueIsSuffix' /\ DispatchState' /\ PoolState'
        BY <2>1, <2>2, <2>3 DEF DeliveryInv, QueueIsSuffix, DispatchState,
                                PoolState, TypeInv, TypeOK
    <2>5. InOrder(s)'
        <3>1. Placed(s)' = Taken
            BY <2>1, <2>3, Lengths DEF Placed
        <3> QED BY <2>1, <2>2, <2>3, <3>1, Lengths DEF InOrder
    <2>6. \A t \in Subs \ {s} : InOrder(t)'
        BY <2>1, <2>2 DEF DeliveryInv, InOrder, Placed, TypeInv, TypeOK
    <2> QED BY <2>4, <2>5, <2>6 DEF DeliveryInv
<1>2. CASE Subscribe_Pool(s) \/ CleanUp(s)
    <2>1. PICK x \in {"on", "draining", "deaf", "poolgone", "off"} :
             /\ sub' = [sub EXCEPT ![s] = x]
             /\ sub[s] # "none"
             /\ x = "on" => sub[s] = "adding"
             /\ x \in {"poolgone", "off"} => pool[s] = <<>>
             /\ x # "deaf" => sub[s] # "deaf" \/ pool[s] = <<>>
        BY <1>2 DEF Subscribe_Pool, CleanUp, CleanUp_Shutdown, CleanUp_DropPool,
                    CleanUp_DropCallback, Drained, DeliveryInv, PoolState
    <2>2. UNCHANGED <<log, queue, disp, cur, todo, from, pool, closing, seen>>
        BY <1>2 DEF Subscribe_Pool, CleanUp, CleanUp_Shutdown, CleanUp_DropPool,
                    CleanUp_DropCallback, dispVars
    <2>3. Taken' = Taken /\ \A t \in Subs : Placed(t)' = Placed(t)
        BY <2>2 DEF Taken, Placed
    <2>4. sub'[s] = x /\ \A t \in Subs \ {s} : sub'[t] = sub[t]
        BY <2>1 DEF TypeInv, TypeOK
    <2>5. QueueIsSuffix' /\ DispatchState' /\ PoolState'
        BY <2>1, <2>2, <2>3, <2>4 DEF DeliveryInv, QueueIsSuffix, DispatchState,
                                PoolState, TypeInv, TypeOK
    <2>6. InOrder(s)'
        BY <2>1, <2>2, <2>3, <2>4 DEF DeliveryInv, InOrder
    <2>7. \A t \in Subs \ {s} : InOrder(t)'
        BY <2>2, <2>3, <2>4 DEF DeliveryInv, InOrder
    <2> QED BY <2>5, <2>6, <2>7 DEF DeliveryInv
<1> QED BY <1>1, <1>2

\* The dispatcher takes the oldest event queued, and hands it to each
\* subscriber that was registered then.
LEMMA GetDelivers ==
    ASSUME TypeInv, DeliveryInv, Dispatch_Get
    PROVE  DeliveryInv'
<1>1. /\ disp = "get" /\ queue # <<>> /\ cur' = Head(queue) /\ queue' = Tail(queue)
      /\ todo' = {s \in Subs : sub[s] # "none"} /\ disp' = "dispatch" /\ todo = {}
      /\ UNCHANGED <<log, sub, from, pool, closing, seen>>
    BY DEF Dispatch_Get, subVars, DeliveryInv, DispatchState
<1>2. /\ Len(queue) > 0 /\ Len(queue') = Len(queue) - 1
      /\ DOMAIN queue' = 1..(Len(queue) - 1) /\ DOMAIN queue = 1..Len(queue)
      /\ \A i \in 1..(Len(queue) - 1) : queue'[i] = queue[i + 1]
      /\ cur' = queue[1]
    BY <1>1, Lengths
<1>3. Taken' = Taken + 1 /\ Taken + 1 <= Len(log)
    BY <1>1, <1>2, Lengths DEF Taken
<1>4. QueueIsSuffix'
    <2> SUFFICES ASSUME NEW i \in 1..(Len(queue) - 1)
                 PROVE  queue'[i] = log[Taken + 1 + i]
        BY <1>1, <1>2, <1>3 DEF QueueIsSuffix
    <2>1. i + 1 \in DOMAIN queue /\ Taken + (i + 1) = Taken + 1 + i
        BY <1>2, Lengths
    <2> QED BY <2>1, <1>2 DEF DeliveryInv, QueueIsSuffix
<1>5. DispatchState' /\ PoolState'
    <2>1. cur' = log[Taken + 1] /\ Taken + 1 > 0
        BY <1>2, Lengths DEF DeliveryInv, QueueIsSuffix
    <2>2. closing' \notin {"cleanup", "closed"}
        BY <1>1 DEF DeliveryInv, DispatchState
    <2> QED BY <1>1, <1>3, <2>1, <2>2 DEF DeliveryInv, DispatchState, PoolState
<1>6. ASSUME NEW s \in Subs
      PROVE  InOrder(s)'
    <2>1. Placed(s)' = Placed(s) /\ Placed(s) \in Nat /\ InOrder(s)
        BY <1>1, Lengths DEF Placed, DeliveryInv
    <2>2. Placed(s)' <= Taken'
        BY <2>1, <1>3, Lengths DEF InOrder
    <2>3. sub[s] \in {"adding", "on"} => s \in todo' /\ Placed(s) = Taken' - 1
        BY <1>1, <2>1, <1>3, Lengths DEF InOrder
    <2> QED BY <1>1, <2>1, <2>2, <2>3 DEF InOrder
<1> QED BY <1>4, <1>5, <1>6 DEF DeliveryInv

LEMMA SubmitDelivers ==
    ASSUME TypeInv, DeliveryInv, Dispatch_Submit
    PROVE  DeliveryInv'
<1>1. PICK s \in todo :
        /\ todo' = todo \ {s}
        /\ pool' = IF sub[s] = "on"
                   THEN [pool EXCEPT ![s] = Append(@, cur)] ELSE pool
        /\ disp' = IF sub[s] \in {"on", "off"} THEN disp ELSE "dead"
    BY DEF Dispatch_Submit
<1>2. /\ disp = "dispatch" /\ s \in Subs /\ sub[s] # "none"
      /\ UNCHANGED <<log, queue, cur, sub, from, closing, seen>>
    BY DEF Dispatch_Submit, subVars, TypeInv, TypeOK, DeliveryInv, DispatchState
<1>3. Taken' = Taken /\ Taken > 0 /\ cur = log[Taken] /\ cur \in Event
    BY <1>2 DEF Taken, DeliveryInv, DispatchState, TypeInv, Handles
<1>4. QueueIsSuffix' /\ DispatchState'
    BY <1>1, <1>2, <1>3 DEF DeliveryInv, QueueIsSuffix, DispatchState
<1>5. \A t \in Subs \ {s} : pool'[t] = pool[t]
    BY <1>1, <1>2 DEF TypeInv, TypeOK
<1>6. ASSUME NEW t \in Subs \ {s}
      PROVE  InOrder(t)'
    <2>1. /\ InOrder(t) /\ Placed(t)' = Placed(t)
          /\ t \in todo' <=> t \in todo
        BY <1>1, <1>2, <1>5 DEF DeliveryInv, Placed
    <2> QED BY <1>1, <1>2, <1>3, <1>5, <2>1 DEF InOrder
<1>7. CASE sub[s] = "on"
    <2>1. /\ pool'[s] = Append(pool[s], cur) /\ disp' = disp /\ InOrder(s)
          /\ Placed(s) = Taken - 1 /\ s \notin todo'
        BY <1>1, <1>2, <1>7 DEF TypeInv, TypeOK, DeliveryInv, InOrder
    <2>2. /\ Len(pool'[s]) = Len(pool[s]) + 1
          /\ DOMAIN pool'[s] = 1..(Len(pool[s]) + 1) /\ DOMAIN pool[s] = 1..Len(pool[s])
          /\ pool'[s][Len(pool[s]) + 1] = cur
          /\ \A k \in 1..Len(pool[s]) : pool'[s][k] = pool[s][k]
        BY <2>1, <1>2, <1>3, Lengths
    <2>3. from[s] + Len(seen[s]) + (Len(pool[s]) + 1) = Taken
        <3>1. PICK a, b, c, t \in Nat : /\ a = from[s] /\ b = Len(seen[s])
                                        /\ c = Len(pool[s]) /\ t = Taken
            BY <1>2, Lengths
        <3>2. a + b + c = t - 1
            BY <2>1, <3>1 DEF Placed
        <3>3. a + b + (c + 1) = t
            BY <3>2
        <3> QED BY <3>1, <3>3
    <2>4. Placed(s)' = Taken
        <3>1. from' = from /\ seen' = seen
            BY <1>2
        <3>2. Len(pool'[s]) = Len(pool[s]) + 1
            BY <2>2
        <3> QED BY <3>1, <3>2, <2>3 DEF Placed
    <2>5. ASSUME NEW k \in 1..(Len(pool[s]) + 1)
          PROVE  pool'[s][k] = log[from[s] + Len(seen[s]) + k]
        <3>1. CASE k = Len(pool[s]) + 1
            BY <3>1, <2>3, <2>2, <1>3
        <3>2. CASE k # Len(pool[s]) + 1
            <4>1. k \in 1..Len(pool[s])
                BY <3>2, <1>2, Lengths
            <4> QED BY <4>1, <2>1, <2>2, <1>7 DEF InOrder
        <3> QED BY <3>1, <3>2
    <2>6. InOrder(s)'
        BY <1>2, <1>3, <1>7, <2>1, <2>2, <2>4, <2>5, Lengths DEF InOrder
    <2>7. PoolState'
        BY <1>2, <1>5, <1>7 DEF DeliveryInv, PoolState
    <2> QED BY <1>4, <1>6, <2>6, <2>7 DEF DeliveryInv
<1>8. CASE sub[s] # "on"
    <2>1. pool' = pool /\ (disp' = "dead" \/ sub[s] = "off") /\ Placed(s)' = Placed(s)
        BY <1>1, <1>2, <1>8 DEF Placed
    <2>2. InOrder(s)' /\ PoolState'
        BY <1>2, <1>3, <2>1 DEF DeliveryInv, InOrder, PoolState
    <2> QED BY <1>4, <1>6, <2>2 DEF DeliveryInv
<1> QED BY <1>7, <1>8

LEMMA DispatcherDelivers ==
    ASSUME TypeInv, DeliveryInv, Dispatcher
    PROVE  DeliveryInv'
<1>1. CASE Dispatch_Check \/ Dispatch_Timeout \/ Dispatch_Done
    <2>1. /\ disp \in {"check", "get", "dispatch"} /\ todo = {}
          /\ disp' \in {"check", "get", "stopped"}
          /\ UNCHANGED <<log, queue, todo, sub, from, pool, closing, seen>>
        BY <1>1 DEF Dispatch_Check, Dispatch_Timeout, Dispatch_Done, subVars,
                    DeliveryInv, DispatchState
    <2>2. Taken' = Taken /\ \A s \in Subs : Placed(s)' = Placed(s)
        BY <2>1 DEF Taken, Placed
    <2> QED BY <2>1, <2>2 DEF DeliveryInv, QueueIsSuffix, DispatchState, PoolState,
                              InOrder
<1> QED BY <1>1, GetDelivers, SubmitDelivers DEF Dispatcher

\* A callback that runs moves the first task of its pool to what was handled.
LEMMA CallbackDelivers ==
    ASSUME TypeInv, DeliveryInv, NEW s \in Subs, Callback(s)
    PROVE  DeliveryInv'
<1>1. /\ pool[s] # <<>> /\ pool' = [pool EXCEPT ![s] = Tail(@)]
      /\ seen' = IF sub[s] = "deaf" THEN seen
                 ELSE [seen EXCEPT ![s] = Append(@, Head(pool[s]))]
      /\ UNCHANGED <<log, queue, disp, cur, todo, sub, from, closing>>
    BY DEF Callback, dispVars, subVars
<1>2. Taken' = Taken /\ sub[s] \in {"on", "draining", "deaf"} /\ InOrder(s)
    BY <1>1 DEF Taken, DeliveryInv, PoolState, TypeInv, TypeOK
<1>3. \A t \in Subs \ {s} : pool'[t] = pool[t] /\ seen'[t] = seen[t]
    BY <1>1 DEF TypeInv, TypeOK
<1>4. QueueIsSuffix' /\ DispatchState'
    BY <1>1, <1>2 DEF DeliveryInv, QueueIsSuffix, DispatchState
<1>5. PoolState'
    BY <1>1, <1>2, <1>3 DEF DeliveryInv, PoolState
<1>6. \A t \in Subs \ {s} : InOrder(t)'
    BY <1>1, <1>2, <1>3 DEF DeliveryInv, InOrder, Placed
<1>7. PICK f, b, c, t \in Nat : /\ f = from[s] /\ b = Len(seen[s])
                                /\ c = Len(pool[s]) /\ t = Taken
    BY Lengths
<1>8. /\ pool'[s] = Tail(pool[s]) /\ Len(pool'[s]) = c - 1 /\ c > 0
      /\ DOMAIN pool[s] = 1..c /\ DOMAIN pool'[s] = 1..(c - 1)
      /\ \A k \in 1..(c - 1) : pool'[s][k] = pool[s][k + 1]
    BY <1>1, <1>7, Lengths DEF TypeInv, TypeOK
<1>9. f + b + c <= t /\ from'[s] = f
    BY <1>1, <1>2, <1>7 DEF InOrder, Placed
<1>10. CASE sub[s] = "deaf"
    <2>1. seen' = seen /\ f + b + (c - 1) <= t
        <3>1. seen' = seen
            BY <1>1, <1>10
        <3>2. f + b + (c - 1) <= t
            BY <1>8, <1>9
        <3> QED BY <3>1, <3>2
    <2>2. Placed(s)' <= Taken'
        BY <2>1, <1>2, <1>7, <1>8, <1>9 DEF Placed
    <2>3. InOrder(s)'
        BY <2>1, <2>2, <1>1, <1>2, <1>10 DEF InOrder
    <2> QED BY <1>4, <1>5, <1>6, <2>3 DEF DeliveryInv
<1>11. CASE sub[s] # "deaf"
    <2>1. /\ seen'[s] = Append(seen[s], Head(pool[s]))
          /\ Len(seen'[s]) = b + 1 /\ DOMAIN seen[s] = 1..b
          /\ DOMAIN seen'[s] = 1..(b + 1)
          /\ \A k \in 1..b : seen'[s][k] = seen[s][k]
          /\ seen'[s][b + 1] = pool[s][1]
        BY <1>1, <1>7, <1>11, Lengths DEF TypeInv, TypeOK
    <2>2. f + (b + 1) + (c - 1) = f + b + c
        OBVIOUS
    <2>3. Placed(s)' = Placed(s)
        BY <2>1, <2>2, <1>7, <1>8, <1>9 DEF Placed
    <2>4. \A k \in 1..c : pool[s][k] = log[f + b + k]
        BY <1>2, <1>7, <1>8, <1>11 DEF InOrder
    <2>5. ASSUME NEW k \in 1..(b + 1)
          PROVE  seen'[s][k] = log[f + k]
        <3>1. CASE k = b + 1
            <4>1. 1 \in 1..c /\ f + b + 1 = f + k
                BY <3>1, <1>8
            <4> QED BY <4>1, <3>1, <2>1, <2>4
        <3>2. CASE k # b + 1
            <4>1. k \in 1..b
                BY <3>2, <1>7
            <4> QED BY <4>1, <2>1, <1>2, <1>7 DEF InOrder
        <3> QED BY <3>1, <3>2
    <2>6. ASSUME NEW k \in 1..(c - 1)
          PROVE  pool'[s][k] = log[f + (b + 1) + k]
        <3>1. k + 1 \in 1..c /\ f + b + (k + 1) = f + (b + 1) + k
            OBVIOUS
        <3> QED BY <3>1, <2>4, <1>8
    <2>7. InOrder(s)'
        <3>1. /\ Placed(s)' <= Taken'
              /\ \A k \in DOMAIN seen'[s] : seen'[s][k] = log'[from'[s] + k]
            BY <1>1, <1>2, <1>9, <2>1, <2>3, <2>5 DEF InOrder
        <3>2. \A k \in DOMAIN pool'[s] :
                 pool'[s][k] = log'[from'[s] + Len(seen'[s]) + k]
            BY <1>1, <1>8, <1>9, <2>1, <2>6
        <3>3. sub'[s] \in {"adding", "on"} /\ disp' \in {"check", "get", "dispatch"}
                => Placed(s)' = IF s \in todo' THEN Taken' - 1 ELSE Taken'
            BY <1>1, <1>2, <2>3 DEF InOrder
        <3> QED BY <3>1, <3>2, <3>3 DEF InOrder
    <2> QED BY <1>4, <1>5, <1>6, <2>7 DEF DeliveryInv
<1> QED BY <1>10, <1>11

\* close() empties the queue when the dispatcher has ended.
LEMMA CloseDelivers ==
    ASSUME TypeInv, DeliveryInv, Close
    PROVE  DeliveryInv'
<1>1. CASE Close_Stop \/ Close_Joined
    <2>1. /\ UNCHANGED <<log, queue, disp, cur, todo, sub, from, pool, seen>>
          /\ closing' \in {"cleanup", "closed"} => disp \in {"stopped", "dead"}
        BY <1>1 DEF Close_Stop, Close_Joined, dispVars, subVars
    <2>2. Taken' = Taken /\ \A s \in Subs : Placed(s)' = Placed(s)
        BY <2>1 DEF Taken, Placed
    <2> QED BY <2>1, <2>2 DEF DeliveryInv, QueueIsSuffix, DispatchState, PoolState,
                              InOrder
<1>2. CASE Close_Clear
    <2>1. /\ queue' = <<>> /\ disp \in {"stopped", "dead"}
          /\ UNCHANGED <<log, disp, cur, todo, sub, from, pool, seen>>
        BY <1>2 DEF Close_Clear, dispVars, subVars, DeliveryInv, DispatchState
    <2>2. /\ Len(queue') = 0 /\ DOMAIN queue' = {}
          /\ Taken' = Len(log) /\ Taken <= Len(log)
        BY <2>1, Lengths DEF Taken
    <2>3. QueueIsSuffix' /\ DispatchState' /\ PoolState'
        BY <2>1, <2>2 DEF DeliveryInv, QueueIsSuffix, DispatchState, PoolState
    <2>4. ASSUME NEW s \in Subs
          PROVE  InOrder(s)'
        <3>1. InOrder(s) /\ Placed(s)' = Placed(s) /\ Placed(s) \in Nat
            BY <2>1, Lengths DEF DeliveryInv, Placed
        <3>2. Placed(s)' <= Taken'
            BY <3>1, <2>2, Lengths DEF InOrder
        <3> QED BY <3>1, <3>2, <2>1 DEF InOrder
    <2> QED BY <2>3, <2>4 DEF DeliveryInv
<1> QED BY <1>1, <1>2 DEF Close

LEMMA CrashDelivers ==
    ASSUME Crash
    PROVE  DeliveryInv'
<1>1. /\ log' = <<>> /\ queue' = <<>> /\ Len(log') = 0 /\ Len(queue') = 0
      /\ Taken' = 0
    BY DEF Crash, Taken
<1>2. \A s \in Subs : /\ from'[s] = 0 /\ seen'[s] = <<>> /\ pool'[s] = <<>>
                      /\ sub'[s] = "none" /\ Placed(s)' = 0
    BY DEF Crash, Placed
<1>3. QueueIsSuffix' /\ DispatchState' /\ PoolState'
    BY <1>1, <1>2 DEF Crash, QueueIsSuffix, DispatchState, PoolState
<1>4. \A s \in Subs : InOrder(s)'
    BY <1>1, <1>2 DEF InOrder
<1> QED BY <1>3, <1>4 DEF DeliveryInv

LEMMA NextDelivery == TypeInv /\ DeliveryInv /\ [Next]_vars => DeliveryInv'
<1> SUFFICES ASSUME TypeInv, DeliveryInv, [Next]_vars PROVE DeliveryInv'
    OBVIOUS
<1>1. ASSUME NEW p \in Producers, AddEvent(p)
      PROVE  DeliveryInv'
    <2>1. CASE AddEvent_Put(p)
        BY <2>1, PutDelivers
    <2>2. CASE ~AddEvent_Put(p)
        <3>1. UNCHANGED DeliveryVars
            BY <1>1, <2>2 DEF AddEvent, AddEvent_TakeId, AddEvent_Advance,
                 AddEvent_OpenFile, AddEvent_WriteFile, AddEvent_OpenPage,
                 AddEvent_WritePage, AddEvent_Fail, DeliveryVars
        <3> QED BY <3>1, DeliveryUntouched
    <2> QED BY <2>1, <2>2
<1>2. ASSUME NEW r \in Readers, ReadCurId_List(r) \/ ReadCurId_Store(r)
      PROVE  DeliveryInv'
    <2>1. UNCHANGED DeliveryVars
        BY <1>2 DEF ReadCurId_List, ReadCurId_Store, DeliveryVars
    <2> QED BY <2>1, DeliveryUntouched
<1>3. CASE UNCHANGED vars
    BY <1>3, DeliveryUntouched DEF vars, DeliveryVars
<1> QED BY <1>1, <1>2, <1>3, SubscribersDeliver, DispatcherDelivers,
           CallbackDelivers, CloseDelivers, CrashDelivers DEF Next

\* A subscriber handles the events from where it joined one by one, in the
\* order of the queue, whatever is published, subscribed, unsubscribed or
\* closed meanwhile (stream.py:240-273).
THEOREM HandledInOrder == Spec => []HandledInQueueOrder
<1>1. TypeInv /\ DeliveryInv => HandledInQueueOrder
    <2> SUFFICES ASSUME TypeInv, DeliveryInv, NEW s \in Subs
                 PROVE  /\ Len(seen[s]) <= Len(log) - from[s]
                        /\ \A k \in DOMAIN seen[s] : seen[s][k] = log[from[s] + k]
        BY DEF HandledInQueueOrder
    <2>1. InOrder(s)
        BY DEF DeliveryInv
    <2>2. Placed(s) <= Len(log)
        BY <2>1, Lengths DEF InOrder, Taken, Placed
    <2> QED BY <2>1, <2>2, Lengths DEF InOrder, Placed
<1> QED BY InitTypeInv, NextTypeInv, InitDelivery, NextDelivery, <1>1, PTL DEF Spec

\* When close() has returned, the pools it has shut down have no tasks left,
\* and no dispatcher gives them any.
PoolsEmpty == closing = "closed" => \A s \in Subs : pool[s] = <<>>

\* The actions that neither run a callback nor fill a pool nor end a close.
LEMMA OthersAreQuiet ==
    ASSUME Next, ~Crash, ~Close_Clear, ~Dispatch_Submit,
           \A s \in Subs : ~Callback(s)
    PROVE  pool' = pool /\ seen' = seen /\ (closing' = "closed" => closing = "closed")
<1>1. ASSUME NEW p \in Producers, AddEvent(p)
      PROVE  UNCHANGED <<pool, seen, closing>>
    BY <1>1 DEF AddEvent, AddEvent_TakeId, AddEvent_Advance, AddEvent_OpenFile,
                AddEvent_WriteFile, AddEvent_OpenPage, AddEvent_WritePage,
                AddEvent_Put, AddEvent_Fail
<1>2. ASSUME NEW r \in Readers, ReadCurId_List(r) \/ ReadCurId_Store(r)
      PROVE  UNCHANGED <<pool, seen, closing>>
    BY <1>2 DEF ReadCurId_List, ReadCurId_Store
<1>3. ASSUME NEW s \in Subs,
             Subscribe_Callback(s) \/ Subscribe_Pool(s) \/ CleanUp(s)
      PROVE  UNCHANGED <<pool, seen, closing>>
    BY <1>3 DEF Subscribe_Callback, Subscribe_Pool, CleanUp, CleanUp_Shutdown,
                CleanUp_DropPool, CleanUp_DropCallback
<1>4. CASE Dispatcher
    BY <1>4 DEF Dispatcher, Dispatch_Check, Dispatch_Get, Dispatch_Timeout,
                Dispatch_Done
<1>5. CASE Close
    BY <1>5 DEF Close, Close_Stop, Close_Joined
<1> QED BY <1>1, <1>2, <1>3, <1>4, <1>5 DEF Next

LEMMA NextPoolsEmpty ==
    DeliveryInv /\ PoolsEmpty /\ [Next]_vars => PoolsEmpty'
<1> SUFFICES ASSUME DeliveryInv, PoolsEmpty, [Next]_vars, closing' = "closed"
             PROVE  \A s \in Subs : pool'[s] = <<>>
    BY DEF PoolsEmpty
<1>1. CASE Crash
    BY <1>1 DEF Crash
<1>2. CASE Close_Clear
    BY <1>2 DEF Close_Clear, DeliveryInv, PoolState
<1>3. ASSUME NEW s \in Subs, Callback(s)
      PROVE  FALSE
    BY <1>3 DEF Callback, PoolsEmpty
<1>4. CASE Dispatch_Submit
    BY <1>4 DEF Dispatch_Submit, DeliveryInv, DispatchState
<1>5. CASE UNCHANGED vars
    BY <1>5 DEF vars, PoolsEmpty
<1> QED BY <1>1, <1>2, <1>3, <1>4, <1>5, OthersAreQuiet DEF PoolsEmpty

\* Once close() has returned no callback runs any more: the tasks of every
\* pool were waited for, and the dispatcher had ended (stream.py:83-113).
THEOREM SilenceAfterClose == Spec => SilentAfterClose
<1>1. Init => PoolsEmpty
    BY DEF Init, PoolsEmpty
<1>2. PoolsEmpty /\ [Next]_vars
        => [closing = "closed" /\ closing' = "closed" => seen' = seen]_seen
    <2> SUFFICES ASSUME PoolsEmpty, [Next]_vars,
                        closing = "closed", closing' = "closed"
                 PROVE  seen' = seen
        OBVIOUS
    <2>1. ~Crash
        BY DEF Crash
    <2>2. \A s \in Subs : ~Callback(s)
        BY DEF Callback, PoolsEmpty
    <2>3. CASE Close_Clear \/ Dispatch_Submit
        BY <2>3 DEF Close_Clear, Dispatch_Submit
    <2>4. CASE UNCHANGED vars
        BY <2>4 DEF vars
    <2> QED BY <2>1, <2>2, <2>3, <2>4, OthersAreQuiet
<1> QED BY InitTypeInv, NextTypeInv, InitDelivery, NextDelivery, <1>1,
           NextPoolsEmpty, <1>2, PTL DEF Spec, SilentAfterClose

-----------------------------------------------------------------------------
(* The refinement of EventLog.                                             *)

\* The variables of EventLog.
LogVars == <<log, membership, from, seen>>

LEMMA SameMembership ==
    ASSUME sub' = sub
    PROVE  membership' = membership
BY DEF membership

LEMMA InitRefines == Init => AsEventLog!Init
<1> SUFFICES ASSUME Init PROVE AsEventLog!Init
    OBVIOUS
<1>1. membership = [s \in Subs |-> "never"]
    BY DEF Init, membership
<1> QED BY <1>1 DEF Init, AsEventLog!Init

\* A put is a Publish: its event has an id no event of the log has.
LEMMA PutRefines ==
    ASSUME IInv, TypeInv, NEW p \in Producers, AddEvent_Put(p)
    PROVE  AsEventLog!Publish
<1>1. /\ log' = Append(log, ev[p]) /\ pc[p] = "put"
      /\ UNCHANGED <<sub, from, seen>>
    BY DEF AddEvent_Put, subVars
<1>2. p \in InFlight /\ ev[p] \in Event
    BY <1>1 DEF TypeInv, Handles, InFlight
<1>3. Len(log') = Len(log) + 1 /\ log'[Len(log')] = ev[p]
    BY <1>1, <1>2, Lengths
<1>4. \A i \in DOMAIN log : log[i].id # ev[p].id
    BY <1>2 DEF IInv, UniqueIds, LogEvents
<1>5. membership' = membership
    BY <1>1, SameMembership
<1> QED BY <1>1, <1>2, <1>3, <1>4, <1>5 DEF AsEventLog!Publish

\* subscribe is a Join; an unsubscribe is a Leave when the pool has drained,
\* or when the loop of the pool is closed.
LEMMA SubscribersRefine ==
    ASSUME TypeInv, NEW s \in Subs,
           Subscribe_Callback(s) \/ Subscribe_Pool(s) \/ CleanUp(s)
    PROVE  AsEventLog!Next \/ UNCHANGED LogVars
<1>1. PICK x \in {"adding", "on", "draining", "deaf", "poolgone", "off"} :
         sub' = [sub EXCEPT ![s] = x]
    BY DEF Subscribe_Callback, Subscribe_Pool, CleanUp, CleanUp_Shutdown,
           CleanUp_DropPool, CleanUp_DropCallback
<1>2. sub'[s] = x /\ \A t \in Subs \ {s} : sub'[t] = sub[t]
    BY <1>1 DEF TypeInv, TypeOK
<1>3. \A t \in Subs \ {s} : membership'[t] = membership[t]
    BY <1>2 DEF membership
<1>4. log' = log /\ seen' = seen
    BY DEF Subscribe_Callback, Subscribe_Pool, CleanUp, CleanUp_Shutdown,
           CleanUp_DropPool, CleanUp_DropCallback
<1>5. DOMAIN membership' = Subs /\ DOMAIN membership = Subs
    BY DEF membership
<1>6. membership = [t \in Subs |-> membership[t]]
      /\ membership' = [t \in Subs |-> membership'[t]]
    BY DEF membership
<1>7. CASE Subscribe_Callback(s)
    <2>1. sub[s] = "none" /\ x = "adding" /\ from' = [from EXCEPT ![s] = Taken]
        BY <1>2, <1>7 DEF Subscribe_Callback, Taken, TypeInv, TypeOK
    <2>2. membership[s] = "never" /\ membership'[s] = "in"
        BY <1>2, <2>1 DEF membership
    <2>3. membership' = [membership EXCEPT ![s] = "in"]
        BY <1>3, <1>6, <2>2
    <2>4. Taken \in 0..Len(log)
        BY Lengths DEF Taken
    <2>5. AsEventLog!Join(s)
        BY <1>4, <2>1, <2>2, <2>3, <2>4 DEF AsEventLog!Join
    <2> QED BY <2>5 DEF AsEventLog!Next
<1>8. CASE Subscribe_Pool(s) \/ CleanUp(s)
    <2>1. from' = from /\ sub[s] # "none" /\ x # "adding"
        BY <1>2, <1>8 DEF Subscribe_Pool, CleanUp, CleanUp_Shutdown,
             CleanUp_DropPool, CleanUp_DropCallback, TypeInv, TypeOK
    <2>2. x \in {"on", "draining"} => sub[s] \in {"adding", "on"}
        BY <1>2, <1>8 DEF Subscribe_Pool, CleanUp, CleanUp_Shutdown,
             CleanUp_DropPool, CleanUp_DropCallback, TypeInv, TypeOK
    <2>3. CASE membership'[s] = membership[s]
        <3>1. membership' = membership
            BY <1>3, <1>6, <2>3
        <3> QED BY <1>4, <2>1, <3>1 DEF LogVars
    <2>4. CASE membership'[s] # membership[s]
        <3>1. membership[s] = "in" /\ membership'[s] = "left"
            BY <1>2, <2>1, <2>2, <2>4 DEF membership
        <3>2. membership' = [membership EXCEPT ![s] = "left"]
            BY <1>3, <1>6, <3>1
        <3>3. AsEventLog!Leave(s)
            BY <1>4, <2>1, <3>1, <3>2 DEF AsEventLog!Leave
        <3> QED BY <3>3 DEF AsEventLog!Next
    <2> QED BY <2>3, <2>4
<1> QED BY <1>7, <1>8

\* A callback that handles its event is a Handle: the event is the next one
\* of the log.  One that finds its loop closed handles nothing.
LEMMA CallbackRefines ==
    ASSUME TypeInv, DeliveryInv, NEW s \in Subs, Callback(s)
    PROVE  AsEventLog!Next \/ UNCHANGED LogVars
<1>1. /\ pool[s] # <<>>
      /\ seen' = IF sub[s] = "deaf" THEN seen
                 ELSE [seen EXCEPT ![s] = Append(@, Head(pool[s]))]
      /\ UNCHANGED <<log, sub, from>>
    BY DEF Callback, subVars
<1>2. membership' = membership
    BY <1>1, SameMembership
<1>3. CASE sub[s] = "deaf"
    BY <1>1, <1>2, <1>3 DEF LogVars
<1>4. CASE sub[s] # "deaf"
    <2>1. sub[s] \in {"on", "draining"} /\ InOrder(s)
        BY <1>1, <1>4 DEF DeliveryInv, PoolState, TypeInv, TypeOK
    <2>2. membership[s] = "in"
        BY <2>1 DEF membership
    <2>3. PICK f, b, c, t, n \in Nat :
             /\ f = from[s] /\ b = Len(seen[s]) /\ c = Len(pool[s])
             /\ t = Taken /\ n = Len(log)
        BY Lengths
    <2>4. c > 0 /\ DOMAIN pool[s] = 1..c /\ Head(pool[s]) = pool[s][1]
        BY <1>1, <2>3, Lengths
    <2>5. f + b + c <= t /\ t <= n
        BY <2>1, <2>3, Lengths DEF InOrder, Placed, Taken
    <2>6. 1 \in 1..c /\ f + b < n
        BY <2>4, <2>5
    <2>7. Head(pool[s]) = log[f + b + 1]
        BY <1>4, <2>1, <2>3, <2>4, <2>6 DEF InOrder
    <2>8. seen' = [seen EXCEPT ![s] = Append(@, log[f + b + 1])]
        BY <1>1, <1>4, <2>7
    <2>9. AsEventLog!Handle(s)
        BY <1>1, <1>2, <2>2, <2>3, <2>6, <2>8 DEF AsEventLog!Handle
    <2> QED BY <2>9 DEF AsEventLog!Next
<1> QED BY <1>3, <1>4

LEMMA CrashRefines ==
    ASSUME Crash
    PROVE  AsEventLog!Restart
<1>1. membership' = [s \in Subs |-> "never"]
    BY DEF Crash, membership
<1> QED BY <1>1 DEF Crash, AsEventLog!Restart

LEMMA NextRefines ==
    ASSUME NoReaders, IInv, TypeInv, DeliveryInv, [Next]_vars
    PROVE  [AsEventLog!Next]_LogVars
<1>1. ASSUME NEW p \in Producers, AddEvent(p)
      PROVE  AsEventLog!Next \/ UNCHANGED LogVars
    <2>1. CASE AddEvent_Put(p)
        BY <2>1, PutRefines DEF AsEventLog!Next
    <2>2. CASE ~AddEvent_Put(p)
        BY <1>1, <2>2, SameMembership DEF AddEvent, AddEvent_TakeId,
             AddEvent_Advance, AddEvent_OpenFile, AddEvent_WriteFile,
             AddEvent_OpenPage, AddEvent_WritePage, AddEvent_Fail, LogVars, subVars
    <2> QED BY <2>1, <2>2
<1>2. CASE Dispatcher
    BY <1>2, SameMembership DEF Dispatcher, Dispatch_Check, Dispatch_Get,
         Dispatch_Timeout, Dispatch_Submit, Dispatch_Done, LogVars, subVars
<1>3. CASE Close
    BY <1>3, SameMembership DEF Close, Close_Stop, Close_Joined, Close_Clear,
         LogVars, subVars
<1>4. CASE UNCHANGED vars
    BY <1>4, SameMembership DEF vars, LogVars, subVars
<1> QED BY <1>1, <1>2, <1>3, <1>4, SubscribersRefine, CallbackRefines, CrashRefines
        DEF Next, NoReaders, AsEventLog!Next

\* Seen from its users, the stream is EventLog: one log of events with
\* distinct ids, handled by each subscriber from where it joined, one by one
\* and in order, begun anew by a crash (stream.py as a whole).
THEOREM ImplementsLog ==
    ASSUME NoReaders
    PROVE  Spec => ImplementsEventLog
<1>1. IInv /\ TypeInv /\ DeliveryInv /\ [Next]_vars => [AsEventLog!Next]_AsEventLog!vars
    BY NextRefines DEF AsEventLog!vars, LogVars
<1> QED BY InitIInv, NextIInv, InitTypeInv, NextTypeInv, InitDelivery, NextDelivery,
           InitRefines, <1>1, PTL
        DEF Spec, ImplementsEventLog, AsEventLog!Spec

-----------------------------------------------------------------------------
(* What the stream keeps on disk in the first life of the process, for any *)
(* number of producers, any cache size and any number of events: a queued  *)
(* event is found under its id, in a cached page or in its own file, and a *)
(* stream at rest has no gap below its next id.                            *)

\* The id of the i-th event of the k-th list _write_page_cache is bound to,
\* when the first event of the stream has id 0.
Slot(k, i) == CacheSize * (k - 1) + (i - 1)

\* The lists are full but for the last, they hold consecutive ids, and the
\* next id is that of the first free place.
PagesInv ==
    /\ Len(pages) > 0
    /\ \A k \in DOMAIN pages :
          /\ IF k = Len(pages) THEN Len(pages[k]) < CacheSize
                               ELSE Len(pages[k]) = CacheSize
          /\ \A i \in DOMAIN pages[k] : pages[k][i].id = Slot(k, i)
    /\ curId = NoId => files = {} /\ pages = << <<>> >>
    /\ curId # NoId => curId = Slot(Len(pages), Len(pages[Len(pages)]) + 1)

OnPage(k, e) == k \in DOMAIN pages /\ \E i \in DOMAIN pages[k] : e = pages[k][i]
InPages(e) == \E k \in DOMAIN pages : OnPage(k, e)

\* A producer is storing the k-th list, or one of its events was given up.
InDoubt(k) == \/ \E p \in Producers : pc[p] = "copy" /\ page[p] = k
              \/ \E e \in lost : OnPage(k, e)

\* A stored page is a copy of a full list, under the id of its first event;
\* it is empty only while that is in doubt.
CacheInv ==
    \A c \in cache : \E k \in DOMAIN pages :
        /\ Len(pages[k]) = CacheSize
        /\ c.start = Slot(k, 1) /\ c.events \in {<<>>, pages[k]}
        /\ c.events = <<>> => InDoubt(k)

\* An event is in the producer's list from Advance on, and in its file from
\* WriteFile on.
EventsInv ==
    /\ \A p \in Producers :
          /\ pc[p] \in {"open", "write", "page", "copy", "put"}
                => OnPage(page[p], ev[p])
          /\ pc[p] \in {"page", "copy", "put"} => ev[p] \in files
    /\ \A e \in LogEvents : InPages(e) /\ e \in files

\* An event in flight is not the content of a torn file, and an id that has
\* been passed has a complete file, a producer that is about to write it, or was lost.
Unwritten == {p \in Producers : pc[p] \in {"open", "write"}}
GapInv ==
    /\ \A p \in InFlight : ev[p].call # Torn
    /\ curId # NoId =>
          \A i \in 0..curId - 1 :
              \/ \E p \in Unwritten : ev[p].id = i
              \/ \E f \in files : f.id = i /\ f.call # Torn
              \/ \E e \in lost : e.id = i

Store == PagesInv /\ CacheInv /\ EventsInv /\ GapInv
StoreInv == crashes = 0 => Store

-----------------------------------------------------------------------------
(* Arithmetic of ids and pages.                                            *)

LEMMA DivMod ==
    ASSUME NEW n \in Int, NEW q \in Int, NEW r \in 0..(CacheSize - 1),
           n = CacheSize * q + r
    PROVE  n % CacheSize = r
BY ConstantsAssumption

\* A place is typed, it follows the one before, and the first place of the
\* page the place is on is its page's start.
LEMMA SlotFacts ==
    ASSUME NEW k \in Nat \ {0}, NEW i \in 1..CacheSize
    PROVE  /\ Slot(k, i) \in Nat
           /\ Slot(k, i + 1) = Slot(k, i) + 1
           /\ PageStart(Slot(k, i)) = Slot(k, 1)
           /\ Slot(k, i) - Slot(k, 1) + 1 = i
<1> DEFINE q == k - 1
           m == CacheSize * q
<1>1. q \in Nat /\ CacheSize \in Nat /\ i - 1 \in 0..(CacheSize - 1)
    BY ConstantsAssumption
<1>2. m \in Nat
    BY <1>1
<1>3. Slot(k, i) = m + (i - 1) /\ Slot(k, 1) = m /\ Slot(k, i + 1) = m + i
    BY <1>1, <1>2 DEF Slot
<1>4. Slot(k, i) % CacheSize = i - 1
    <2>1. Slot(k, i) = CacheSize * q + (i - 1) /\ Slot(k, i) \in Int
        BY <1>1, <1>2, <1>3
    <2> HIDE DEF q
    <2> QED BY <1>1, <2>1, DivMod
<1> HIDE DEF m
<1> QED BY <1>2, <1>3, <1>4 DEF PageStart

\* After the last place of a page comes the first of the next page.
LEMMA SlotNextPage ==
    ASSUME NEW k \in Nat \ {0}
    PROVE  Slot(k, CacheSize + 1) = Slot(k + 1, 1)
BY ConstantsAssumption DEF Slot

\* Different pages start at different ids.
LEMMA SlotInjective ==
    ASSUME NEW k \in Nat \ {0}, NEW l \in Nat \ {0}, Slot(k, 1) = Slot(l, 1)
    PROVE  k = l
<1>1. CacheSize * (k - 1) = CacheSize * (l - 1) /\ CacheSize \in Nat \ {0}
    BY ConstantsAssumption DEF Slot
<1>2. CacheSize * ((k - 1) - (l - 1)) = 0
    BY <1>1
<1> QED BY <1>1, <1>2

LEMMA FirstSlot == Slot(1, 1) = 0
BY ConstantsAssumption DEF Slot

\* The lists are sequences of events.
LEMMA PagesTyped ==
    ASSUME TypeInv
    PROVE  /\ pages \in Seq(Seq(Event)) /\ Len(pages) \in Nat
           /\ DOMAIN pages = 1..Len(pages)
           /\ \A k \in DOMAIN pages :
                 /\ pages[k] \in Seq(Event) /\ Len(pages[k]) \in Nat
                 /\ DOMAIN pages[k] = 1..Len(pages[k])
           /\ log \in Seq(Event)
BY DEF TypeInv, TypeOK

-----------------------------------------------------------------------------
(* The steps of add_event in the first life of the process.                *)

LEMMA InitStore == Init => StoreInv
<1> SUFFICES ASSUME Init PROVE Store
    BY DEF StoreInv
<1>1. /\ pages = << <<>> >> /\ Len(pages) = 1 /\ DOMAIN pages = {1}
      /\ pages[1] = <<>> /\ Len(pages[1]) = 0 /\ DOMAIN pages[1] = {}
      /\ curId = NoId /\ files = {} /\ cache = {}
      /\ LogEvents = {} /\ InFlight = {} /\ \A p \in Producers : pc[p] = "idle"
    BY DEF Init, LogEvents, InFlight
<1>2. PagesInv
    BY <1>1, ConstantsAssumption DEF PagesInv
<1>3. CacheInv /\ EventsInv /\ GapInv
    BY <1>1 DEF CacheInv, EventsInv, GapInv
<1> QED BY <1>2, <1>3 DEF Store

\* The first id is 0; later ids are curId.
LEMMA TakeIdStores ==
    ASSUME TypeInv, IInv, Store, NEW p \in Producers, AddEvent_TakeId(p)
    PROVE  Store'
<1> PICK n \in 0..MaxEvents :
        /\ IsCurId(n) /\ curId' = n
        /\ ev' = [ev EXCEPT ![p] = [id |-> n, call |-> calls']]
    BY DEF AddEvent_TakeId
<1>1. /\ pc[p] = "idle" /\ pc' = [pc EXCEPT ![p] = "locked"]
      /\ calls' = calls + 1 /\ calls \in Nat
      /\ UNCHANGED <<files, cache, pages, page, lost, log>>
    BY DEF AddEvent_TakeId, disk, TypeInv, TypeOK
<1>2. n \in Nat /\ n # NoId
    BY ConstantsAssumption DEF NoId
<1>3. /\ pc'[p] = "locked" /\ \A q \in Producers \ {p} : pc'[q] = pc[q]
      /\ \A q \in Producers \ {p} : ev'[q] = ev[q]
      /\ ev'[p].call = calls + 1
    BY <1>1 DEF TypeInv, TypeOK
<1>4. curId = NoId => n = 0
    BY <1>2 DEF IsCurId, IsNextId, Store, PagesInv
<1>5. curId # NoId => n = curId
    BY DEF IsCurId
<1>6. PagesInv'
    <2>1. CASE curId = NoId
        <3>1. /\ pages = << <<>> >> /\ n = 0
            BY <2>1, <1>4 DEF Store, PagesInv
        <3>2. n = Slot(Len(pages), Len(pages[Len(pages)]) + 1)
            BY <3>1, FirstSlot
        <3> QED BY <3>2, <1>1, <1>2 DEF Store, PagesInv
    <2>2. CASE curId # NoId
        BY <2>2, <1>1, <1>2, <1>5 DEF Store, PagesInv
    <2> QED BY <2>1, <2>2
<1>7. CacheInv'
    <2>1. \A l : InDoubt(l) => InDoubt(l)'
        BY <1>1, <1>3 DEF InDoubt, OnPage
    <2> QED BY <1>1, <2>1 DEF Store, CacheInv
<1>8. EventsInv'
    <2>1. LogEvents' = LogEvents /\ \A l, e : OnPage(l, e)' <=> OnPage(l, e)
        BY <1>1 DEF LogEvents, OnPage
    <2>2. \A e : InPages(e)' <=> InPages(e)
        BY <1>1, <2>1 DEF InPages
    <2> QED BY <2>2, <1>1, <1>3, <2>1 DEF Store, EventsInv
<1>9. GapInv'
    <2>1. Unwritten' = Unwritten /\ \A q \in Unwritten : ev'[q] = ev[q]
        BY <1>1, <1>3 DEF Unwritten
    <2>2. \A q \in InFlight' : ev'[q].call # Torn
        BY <1>1, <1>3 DEF Store, GapInv, InFlight, Torn
    <2> QED BY <1>1, <1>2, <1>4, <1>5, <2>1, <2>2 DEF Store, GapInv
<1> QED BY <1>6, <1>7, <1>8, <1>9 DEF Store

\* The event goes to the first free place, and a full list gets a successor.
LEMMA AdvanceStores ==
    ASSUME TypeInv, IInv, Store, NEW p \in Producers, AddEvent_Advance(p)
    PROVE  Store'
<1>1. /\ pc[p] = "locked" /\ curId' = curId + 1
      /\ pc' = [pc EXCEPT ![p] = "open"]
      /\ page' = [page EXCEPT ![p] = Len(pages)]
      /\ UNCHANGED <<files, cache, ev, lost, log>>
    BY DEF AddEvent_Advance, disk
<1>2. p \in InFlight /\ ev[p] \in Event /\ ev[p].id = curId /\ curId \in Nat
      /\ curId # NoId
    BY <1>1 DEF IInv, InFlight, IdsBelow, ProducerType, NoId
<1>3. PICK k \in Nat \ {0} : k = Len(pages)
    <2>1. Len(pages) > 0
        BY DEF Store, PagesInv
    <2>2. Len(pages) \in Nat
        BY PagesTyped
    <2>3. Len(pages) \in Nat \ {0}
        BY <2>1, <2>2
    <2> QED BY <2>3
<1>4. k \in DOMAIN pages /\ DOMAIN pages = 1..k /\ pages[k] \in Seq(Event)
      /\ pages \in Seq(Seq(Event)) /\ Len(pages[k]) \in Nat
    BY <1>3, PagesTyped
<1>5. Len(pages[k]) < CacheSize
    BY <1>3, <1>4 DEF Store, PagesInv
<1>6. PICK j \in 1..CacheSize : j = Len(pages[k]) + 1
    BY <1>4, <1>5, ConstantsAssumption
<1> DEFINE filled == Append(pages[k], ev[p])
           updated == [pages EXCEPT ![k] = filled]
<1>7. /\ filled \in Seq(Event) /\ Len(filled) = j /\ DOMAIN filled = 1..j
      /\ filled[j] = ev[p] /\ \A i \in DOMAIN pages[k] : i \in 1..j /\ filled[i] = pages[k][i]
      /\ DOMAIN pages[k] = 1..(j - 1)
    BY <1>2, <1>4, <1>6
<1>8. pages' = IF Len(filled) = CacheSize THEN Append(updated, <<>>) ELSE updated
    BY <1>3 DEF AddEvent_Advance
<1> HIDE DEF filled
<1>9. /\ updated \in Seq(Seq(Event)) /\ Len(updated) = k /\ DOMAIN updated = 1..k
      /\ updated[k] = filled /\ \A l \in 1..(k - 1) : updated[l] = pages[l]
    BY <1>3, <1>4, <1>7
<1>10. curId = Slot(k, j)
    BY <1>2, <1>3, <1>6 DEF Store, PagesInv
<1> HIDE DEF updated
<1>11. IF j = CacheSize THEN /\ Len(pages') = k + 1 /\ DOMAIN pages' = 1..(k + 1)
                             /\ pages'[k + 1] = <<>>
                        ELSE Len(pages') = k /\ DOMAIN pages' = 1..k
    BY <1>7, <1>8, <1>9, <1>3
<1>12. \A l \in 1..k : l \in DOMAIN pages' /\ pages'[l] = updated[l]
    BY <1>7, <1>8, <1>9, <1>11, <1>3
<1>13. /\ \A l \in 1..(k - 1) : pages'[l] = pages[l]
       /\ pages'[k] = filled /\ k \in 1..k
    BY <1>3, <1>9, <1>12
<1>14. \A l \in DOMAIN pages : \A i \in DOMAIN pages[l] :
          /\ l \in DOMAIN pages' /\ i \in DOMAIN pages'[l]
          /\ pages'[l][i] = pages[l][i]
    <2> SUFFICES ASSUME NEW l \in 1..k, NEW i \in DOMAIN pages[l]
                 PROVE  i \in DOMAIN pages'[l] /\ pages'[l][i] = pages[l][i]
        BY <1>4, <1>12
    <2>1. CASE l = k
        BY <2>1, <1>7, <1>13
    <2>2. CASE l # k
        BY <2>2, <1>3, <1>13
    <2> QED BY <2>1, <2>2
<1>15. PagesInv'
    <2>1. ASSUME NEW l \in 1..k
          PROVE  \A i \in DOMAIN pages'[l] : pages'[l][i].id = Slot(l, i)
        <3>1. CASE l = k
            <4> SUFFICES ASSUME NEW i \in 1..j
                         PROVE  filled[i].id = Slot(k, i)
                BY <3>1, <1>7, <1>13
            <4>1. CASE i = j
                BY <4>1, <1>2, <1>7, <1>10
            <4>2. CASE i # j
                <5>1. i \in DOMAIN pages[k]
                    BY <4>2, <1>6, <1>7
                <5>2. pages[k][i].id = Slot(k, i)
                    BY <5>1, <1>4 DEF Store, PagesInv
                <5>3. filled[i] = pages[k][i]
                    BY <5>1, <1>7
                <5> QED BY <5>2, <5>3
            <4> QED BY <4>1, <4>2
        <3>2. CASE l # k
            <4>1. l \in DOMAIN pages /\ pages'[l] = pages[l]
                BY <3>2, <1>3, <1>4, <1>13
            <4> QED BY <4>1 DEF Store, PagesInv
        <3> QED BY <3>1, <3>2
    <2>2. ASSUME NEW l \in 1..(k - 1)
          PROVE  Len(pages'[l]) = CacheSize
        <3>1. l \in DOMAIN pages /\ l # Len(pages) /\ pages'[l] = pages[l]
            BY <1>3, <1>4, <1>13
        <3>2. Len(pages[l]) = CacheSize
            BY <3>1 DEF Store, PagesInv
        <3> QED BY <3>1, <3>2
    <2>3. curId' = Slot(k, j + 1) /\ curId' # NoId /\ Len(pages'[k]) = j
        <3>1. Slot(k, j + 1) = Slot(k, j) + 1
            BY SlotFacts
        <3>2. Len(pages'[k]) = j
            BY <1>7, <1>13
        <3>3. curId + 1 # NoId
            BY <1>2 DEF NoId
        <3> QED BY <3>1, <3>2, <3>3, <1>1, <1>10
    <2>4. CASE j = CacheSize
        <3>1. curId' = Slot(k + 1, 0 + 1)
            BY <2>3, <2>4, <1>3, SlotNextPage
        <3>2. Len(pages'[k + 1]) = 0 /\ DOMAIN pages'[k + 1] = {}
            BY <2>4, <1>11
        <3>3. Len(pages') = k + 1 /\ DOMAIN pages' = 1..(k + 1)
            BY <2>4, <1>11
        <3>4. ASSUME NEW l \in 1..(k + 1)
              PROVE  /\ IF l = k + 1 THEN Len(pages'[l]) < CacheSize
                                     ELSE Len(pages'[l]) = CacheSize
                     /\ \A i \in DOMAIN pages'[l] : pages'[l][i].id = Slot(l, i)
            <4>1. CASE l = k + 1
                BY <4>1, <3>2, ConstantsAssumption
            <4>2. CASE l = k
                BY <4>2, <2>1, <2>3, <2>4, <1>13, <1>3
            <4>3. CASE l \in 1..(k - 1)
                BY <4>3, <2>1, <2>2, <1>3
            <4> QED BY <4>1, <4>2, <4>3, <1>3
        <3> QED BY <1>3, <2>3, <3>1, <3>2, <3>3, <3>4 DEF PagesInv
    <2>5. CASE j # CacheSize
        <3>1. Len(pages') = k /\ DOMAIN pages' = 1..k /\ j < CacheSize
            BY <2>5, <1>6, <1>11, ConstantsAssumption
        <3>2. ASSUME NEW l \in 1..k
              PROVE  IF l = k THEN Len(pages'[l]) < CacheSize
                              ELSE Len(pages'[l]) = CacheSize
            <4>1. l = k \/ l \in 1..(k - 1)
                BY <1>3
            <4> QED BY <4>1, <3>1, <2>2, <2>3
        <3> QED BY <1>3, <2>1, <2>3, <3>1, <3>2 DEF PagesInv
    <2> QED BY <2>4, <2>5
<1>16. CacheInv'
    <2> SUFFICES ASSUME NEW c \in cache
                 PROVE  \E l \in DOMAIN pages' :
                           /\ Len(pages'[l]) = CacheSize
                           /\ c.start = Slot(l, 1) /\ c.events \in {<<>>, pages'[l]}
                           /\ c.events = <<>> => InDoubt(l)'
        BY <1>1 DEF CacheInv
    <2>1. PICK l \in DOMAIN pages :
             /\ Len(pages[l]) = CacheSize
             /\ c.start = Slot(l, 1) /\ c.events \in {<<>>, pages[l]}
             /\ c.events = <<>> => InDoubt(l)
        BY DEF Store, CacheInv
    <2>2. l # k /\ l \in 1..(k - 1) /\ l \in 1..k
        BY <2>1, <1>3, <1>4, <1>5, ConstantsAssumption
    <2>3. \A q \in Producers : pc[q] = "copy" => pc'[q] = "copy" /\ page'[q] = page[q]
        BY <1>1 DEF TypeInv, TypeOK
    <2>4. InDoubt(l) => InDoubt(l)'
        BY <1>1, <2>3, <1>14 DEF InDoubt, OnPage
    <2> QED BY <2>1, <2>2, <2>4, <1>12, <1>13
<1>17. EventsInv'
    <2>0. \A l, e : OnPage(l, e) => OnPage(l, e)'
        BY <1>14 DEF OnPage
    <2>1. \A e : InPages(e) => InPages(e)'
        BY <2>0 DEF InPages, OnPage
    <2>2. k \in DOMAIN pages' /\ j \in DOMAIN pages'[k] /\ pages'[k][j] = ev[p]
        BY <1>7, <1>12, <1>13
    <2>3. OnPage(page[p], ev[p])'
        BY <2>2, <1>1, <1>3 DEF OnPage, TypeInv, TypeOK
    <2>4. LogEvents' = LogEvents /\ pc'[p] = "open"
          /\ \A q \in Producers \ {p} : pc'[q] = pc[q] /\ page'[q] = page[q]
        BY <1>1 DEF LogEvents, TypeInv, TypeOK
    <2> QED BY <1>1, <2>0, <2>1, <2>3, <2>4 DEF Store, EventsInv
<1>18. GapInv'
    <2>1. InFlight' = InFlight /\ Unwritten' = Unwritten \cup {p}
        BY <1>1 DEF InFlight, Unwritten, TypeInv, TypeOK
    <2>2. ASSUME NEW i \in 0..curId' - 1
          PROVE  \/ \E q \in Unwritten' : ev'[q].id = i
                 \/ \E f \in files' : f.id = i /\ f.call # Torn
                 \/ \E e \in lost' : e.id = i
        <3>1. i = curId \/ i \in 0..curId - 1
            BY <1>1, <1>2
        <3> QED BY <3>1, <1>1, <1>2, <2>1 DEF Store, GapInv
    <2> QED BY <1>1, <2>1, <2>2 DEF Store, GapInv
<1> QED BY <1>15, <1>16, <1>17, <1>18 DEF Store

\* Opening or writing one's own file leaves the files of the others.
LEMMA WritesStore ==
    ASSUME TypeInv, IInv, Store, NEW p \in Producers,
           AddEvent_OpenFile(p) \/ AddEvent_WriteFile(p)
    PROVE  Store'
<1> DEFINE e == IF pc[p] = "open" THEN [ev[p] EXCEPT !.call = Torn] ELSE ev[p]
<1>1. /\ pc[p] \in {"open", "write"}
      /\ pc' = [pc EXCEPT ![p] = IF pc[p] = "open" THEN "write" ELSE "page"]
      /\ files' = {f \in files : f.id # e.id} \cup {e}
      /\ UNCHANGED <<cache, curId, pages, ev, page, lost, log>>
    BY DEF AddEvent_OpenFile, AddEvent_WriteFile, WriteFile, TypeInv, TypeOK
<1>2. InFlight' = InFlight /\ p \in InFlight
    BY <1>1 DEF InFlight, TypeInv, TypeOK
<1>3. ev[p] \in Event /\ e.id = ev[p].id /\ ev[p].id < curId /\ curId # NoId
      /\ curId \in Nat
    BY <1>1, <1>2 DEF IInv, ProducerType, IdsBelow, Event
<1>4. pc[p] = "write" => e = ev[p]
    OBVIOUS
<1>5. \A q \in Producers \ {p} : pc'[q] = pc[q]
    BY <1>1 DEF TypeInv, TypeOK
<1>6. pc'[p] = IF pc[p] = "open" THEN "write" ELSE "page"
    BY <1>1 DEF TypeInv, TypeOK
<1> HIDE DEF e
<1>7. PagesInv' /\ CacheInv'
    <2>1. \A l : InDoubt(l) => InDoubt(l)'
        BY <1>1, <1>5, <1>6 DEF InDoubt, OnPage
    <2> QED BY <1>1, <1>3, <2>1 DEF Store, PagesInv, CacheInv
<1>8. EventsInv'
    <2>0. \A l, x : OnPage(l, x)' <=> OnPage(l, x)
        BY <1>1 DEF OnPage
    <2>1. LogEvents' = LogEvents /\ \A x : InPages(x)' <=> InPages(x)
        BY <1>1, <2>0 DEF LogEvents, InPages
    <2>2. \A x \in LogEvents : x.id # e.id
        BY <1>2, <1>3 DEF IInv, UniqueIds
    <2>3. \A q \in Producers \ {p} : pc[q] \in {"page", "copy", "put"} => ev[q].id # e.id
        BY <1>2, <1>3 DEF IInv, UniqueIds, InFlight
    <2>4. pc'[p] = "page" => ev[p] \in files'
        BY <1>1, <1>4, <1>6
    <2> QED BY <1>1, <1>5, <1>6, <2>0, <2>1, <2>2, <2>3, <2>4
            DEF Store, EventsInv
<1>9. GapInv'
    <2> SUFFICES ASSUME NEW i \in 0..curId - 1
                 PROVE  \/ \E q \in Unwritten' : ev[q].id = i
                        \/ \E f \in files' : f.id = i /\ f.call # Torn
                        \/ \E x \in lost : x.id = i
        BY <1>1, <1>2 DEF Store, GapInv
    <2>1. CASE i = e.id
        <3>1. CASE pc[p] = "open"
            BY <2>1, <3>1, <1>3, <1>6 DEF Unwritten
        <3>2. CASE pc[p] = "write"
            BY <2>1, <3>2, <1>1, <1>2, <1>4 DEF Store, GapInv
        <3> QED BY <3>1, <3>2, <1>1
    <2>2. CASE i # e.id
        <3>1. CASE \E q \in Unwritten : ev[q].id = i
            BY <2>2, <3>1, <1>3, <1>5 DEF Unwritten
        <3>2. CASE \E f \in files : f.id = i /\ f.call # Torn
            BY <2>2, <3>2, <1>1
        <3> QED BY <3>1, <3>2, <1>3 DEF Store, GapInv
    <2> QED BY <2>1, <2>2
<1> QED BY <1>7, <1>8, <1>9 DEF Store

\* What the two halves of storing a page, and a failure, leave alone.
LEMMA StoringLeaves ==
    ASSUME TypeInv, Store, NEW p \in Producers, NEW x \in {"copy", "put", "idle"},
           pc[p] \in {"open", "write", "page", "copy"},
           pc' = [pc EXCEPT ![p] = x],
           \A q \in Producers \ {p} : ev'[q] = ev[q] /\ page'[q] = page[q],
           x # "idle" => pc[p] \in {"page", "copy"} /\ ev'[p] = ev[p] /\ page'[p] = page[p],
           x = "idle" => ev[p] \in lost',
           lost \subseteq lost', UNCHANGED <<files, curId, pages, log>>
    PROVE  /\ PagesInv' /\ EventsInv' /\ GapInv'
           /\ \A l, e : OnPage(l, e)' <=> OnPage(l, e)
           /\ OnPage(page[p], ev[p])
<1>1. pc'[p] = x /\ \A q \in Producers \ {p} : pc'[q] = pc[q]
    BY DEF TypeInv, TypeOK
<1>2. PagesInv'
    BY DEF Store, PagesInv
<1>3. \A l, e : OnPage(l, e)' <=> OnPage(l, e)
    BY DEF OnPage
<1>4. EventsInv'
    <2>1. LogEvents' = LogEvents /\ \A e : InPages(e)' <=> InPages(e)
        BY <1>3 DEF LogEvents, InPages
    <2>2. \A q \in Producers \ {p} :
             /\ pc'[q] \in {"open", "write", "page", "copy", "put"}
                  => OnPage(page'[q], ev'[q])
             /\ pc'[q] \in {"page", "copy", "put"} => ev'[q] \in files
        BY <1>1 DEF Store, EventsInv
    <2>3. x # "idle" => OnPage(page'[p], ev'[p]) /\ ev'[p] \in files
        BY DEF Store, EventsInv
    <2> QED BY <1>1, <1>3, <2>1, <2>2, <2>3 DEF Store, EventsInv
<1>5. GapInv'
    <2>1. /\ InFlight' \subseteq InFlight
          /\ \A q \in InFlight' : ev'[q] = ev[q]
        BY <1>1 DEF InFlight
    <2>2. \A q \in Unwritten : (q \in Unwritten' /\ ev'[q] = ev[q]) \/ ev[q] \in lost'
        BY <1>1 DEF Unwritten
    <2> QED BY <2>1, <2>2 DEF Store, GapInv
<1>6. OnPage(page[p], ev[p])
    BY DEF Store, EventsInv
<1> QED BY <1>2, <1>3, <1>4, <1>5, <1>6

\* A full list that is being stored starts at the place of its first event.
LEMMA StartOfPage ==
    ASSUME TypeInv, Store, NEW p \in Producers, PageIsFull(p),
           pc[p] \in {"page", "copy"}
    PROVE  /\ page[p] \in DOMAIN pages /\ Len(pages[page[p]]) = CacheSize
           /\ PageOf(p) = pages[page[p]] /\ PageOf(p)[1].id = Slot(page[p], 1)
           /\ PageOf(p) # <<>>
<1>1. page[p] \in DOMAIN pages /\ PageOf(p) = pages[page[p]]
    BY DEF TypeInv, Handles, PageOf
<1>2. Len(pages[page[p]]) = CacheSize
    BY <1>1, PagesTyped, ConstantsAssumption DEF PageIsFull, Store, PagesInv
<1>3. 1 \in DOMAIN pages[page[p]]
    BY <1>1, <1>2, PagesTyped, ConstantsAssumption
<1>4. pages[page[p]][1].id = Slot(page[p], 1)
    BY <1>1, <1>3 DEF Store, PagesInv
<1>5. pages[page[p]] # <<>>
    BY <1>2, ConstantsAssumption
<1> QED BY <1>1, <1>2, <1>4, <1>5

\* A page that is stored is emptied, and then holds the full list the
\* producer's event is in.
LEMMA StorePageStores ==
    ASSUME TypeInv, IInv, Store, NEW p \in Producers,
           AddEvent_OpenPage(p) \/ AddEvent_WritePage(p)
    PROVE  Store'
<1>1. PICK x \in {"copy", "put"} :
         /\ pc[p] \in {"page", "copy"} /\ pc' = [pc EXCEPT ![p] = x]
         /\ UNCHANGED <<files, curId, pages, ev, page, lost, log>>
    BY DEF AddEvent_OpenPage, AddEvent_WritePage
<1>2. /\ PagesInv' /\ EventsInv' /\ GapInv'
      /\ \A l, e : OnPage(l, e)' <=> OnPage(l, e)
    BY <1>1, StoringLeaves
<1>3. pc'[p] = x /\ \A q \in Producers \ {p} : pc'[q] = pc[q]
    BY <1>1 DEF TypeInv, TypeOK
<1>4. AddEvent_WritePage(p) => PageIsFull(p)
    BY DEF AddEvent_WritePage, TypeInv, Handles, PageIsFull, PageOf
<1>5. \A l : InDoubt(l) /\ (x = "copy" \/ pc[p] = "page" \/ l # page[p]) => InDoubt(l)'
    BY <1>1, <1>2, <1>3 DEF InDoubt
<1>6. ASSUME cache' = cache,
             \/ pc[p] = "page"
             \/ \E q \in Producers \ {p} : pc[q] = "copy" /\ page[q] = page[p]
      PROVE  Store'
    <2>1. ASSUME NEW l, InDoubt(l) PROVE InDoubt(l)'
        <3>1. CASE pc[p] = "page" \/ l # page[p]
            BY <2>1, <3>1, <1>5
        <3>2. CASE pc[p] # "page" /\ l = page[p]
            BY <1>1, <1>3, <1>6, <3>2 DEF InDoubt
        <3> QED BY <3>1, <3>2
    <2>2. CacheInv'
        BY <1>1, <1>6, <2>1 DEF Store, CacheInv
    <2> QED BY <1>2, <2>2 DEF Store
<1>7. ASSUME NEW events \in {<<>>, PageOf(p)}, PageIsFull(p),
             cache' = StorePage(p, events),
             events = <<>> => x = "copy"
      PROVE  Store'
    <2>1. /\ page[p] \in DOMAIN pages /\ Len(pages[page[p]]) = CacheSize
          /\ PageOf(p) = pages[page[p]] /\ PageOf(p)[1].id = Slot(page[p], 1)
        BY <1>1, <1>7, StartOfPage
    <2>2. CacheInv'
        <3> SUFFICES ASSUME NEW c \in cache'
                     PROVE  \E l \in DOMAIN pages :
                               /\ Len(pages[l]) = CacheSize
                               /\ c.start = Slot(l, 1) /\ c.events \in {<<>>, pages[l]}
                               /\ c.events = <<>> => InDoubt(l)'
            BY <1>1 DEF CacheInv
        <3>1. CASE c \in cache /\ c.start # Slot(page[p], 1)
            <4>1. PICK l \in DOMAIN pages :
                     /\ Len(pages[l]) = CacheSize
                     /\ c.start = Slot(l, 1) /\ c.events \in {<<>>, pages[l]}
                     /\ c.events = <<>> => InDoubt(l)
                BY <3>1 DEF Store, CacheInv
            <4>2. l # page[p]
                BY <3>1, <4>1
            <4> QED BY <4>1, <4>2, <1>5
        <3>2. CASE c = [start |-> Slot(page[p], 1), events |-> events]
            <4>1. PICK k \in DOMAIN pages : k = page[p]
                BY <2>1
            <4>2. events = <<>> => InDoubt(k)'
                BY <1>1, <1>3, <1>7, <4>1 DEF InDoubt
            <4>3. c.start = Slot(k, 1) /\ c.events = events
                BY <3>2, <4>1
            <4>4. c.events \in {<<>>, pages[k]} /\ Len(pages[k]) = CacheSize
                BY <4>1, <4>3, <2>1
            <4> QED BY <4>2, <4>3, <4>4
        <3> QED BY <3>1, <3>2, <1>7, <2>1 DEF StorePage
    <2> QED BY <1>2, <2>2 DEF Store
<1>8. CASE AddEvent_OpenPage(p)
    BY <1>8, <1>6, <1>7, <1>3 DEF AddEvent_OpenPage, TypeInv, TypeOK
<1>9. CASE AddEvent_WritePage(p)
    <2>1. PageIsFull(p) /\ PageOf(p) # <<>>
        BY <1>4, <1>9, <1>1, StartOfPage
    <2> QED BY <1>9, <2>1, <1>6, <1>7 DEF AddEvent_WritePage
<1> QED BY <1>8, <1>9

\* An event whose write fails is in the list of the page it leaves in doubt.
LEMMA FailStores ==
    ASSUME TypeInv, IInv, Store, NEW p \in Producers, AddEvent_Fail(p)
    PROVE  Store'
<1>1. /\ pc[p] \in {"open", "write", "page", "copy"}
      /\ pc' = [pc EXCEPT ![p] = "idle"]
      /\ ev' = [ev EXCEPT ![p] = NoEvent] /\ page' = [page EXCEPT ![p] = 0]
      /\ lost' = lost \cup {ev[p]}
      /\ UNCHANGED <<files, cache, curId, pages, log>>
    BY DEF AddEvent_Fail, disk
<1>2. \A q \in Producers \ {p} : /\ ev'[q] = ev[q] /\ page'[q] = page[q]
                                 /\ pc'[q] = pc[q]
    BY <1>1 DEF TypeInv, TypeOK
<1>3. /\ PagesInv' /\ EventsInv' /\ GapInv'
      /\ \A l, e : OnPage(l, e)' <=> OnPage(l, e)
      /\ OnPage(page[p], ev[p])
    BY <1>1, <1>2, StoringLeaves
<1>4. \A l : InDoubt(l) => InDoubt(l)'
    BY <1>1, <1>2, <1>3 DEF InDoubt
<1>5. CacheInv'
    BY <1>1, <1>4 DEF Store, CacheInv
<1> QED BY <1>3, <1>5 DEF Store

\* The event that is queued is in its file and in its list.
LEMMA PutStores ==
    ASSUME TypeInv, IInv, Store, NEW p \in Producers, AddEvent_Put(p)
    PROVE  Store'
<1>1. /\ pc[p] = "put" /\ pc' = [pc EXCEPT ![p] = "idle"]
      /\ log' = Append(log, ev[p]) /\ ev' = [ev EXCEPT ![p] = NoEvent]
      /\ page' = [page EXCEPT ![p] = 0]
      /\ UNCHANGED <<files, cache, curId, pages, lost>>
    BY DEF AddEvent_Put, disk
<1>2. /\ pc'[p] = "idle" /\ \A q \in Producers \ {p} : pc'[q] = pc[q]
      /\ \A q \in Producers \ {p} : ev'[q] = ev[q] /\ page'[q] = page[q]
    BY <1>1 DEF TypeInv, TypeOK
<1>3. PagesInv' /\ CacheInv'
    <2>1. \A l : InDoubt(l) => InDoubt(l)'
        BY <1>1, <1>2 DEF InDoubt, OnPage
    <2> QED BY <1>1, <2>1 DEF Store, PagesInv, CacheInv
<1>4. EventsInv'
    <2>0. \A l, x : OnPage(l, x)' <=> OnPage(l, x)
        BY <1>1 DEF OnPage
    <2>1. \A x : InPages(x)' <=> InPages(x)
        BY <1>1, <2>0 DEF InPages
    <2>2. LogEvents' \subseteq LogEvents \cup {ev[p]}
        <3>1. log \in Seq(Event) /\ ev[p] \in Event
            BY <1>1, PagesTyped DEF TypeInv, Handles, InFlight
        <3> QED BY <1>1, <3>1 DEF LogEvents
    <2>3. InPages(ev[p]) /\ ev[p] \in files
        BY <1>1 DEF Store, EventsInv, InPages, OnPage
    <2> QED BY <1>1, <1>2, <2>0, <2>1, <2>2, <2>3 DEF Store, EventsInv
<1>5. GapInv'
    <2>1. /\ Unwritten' = Unwritten /\ InFlight' \subseteq InFlight \ {p}
          /\ p \notin Unwritten
        BY <1>1, <1>2 DEF Unwritten, InFlight
    <2>2. \A q \in InFlight' \cup Unwritten' : ev'[q] = ev[q]
        BY <1>2, <2>1 DEF InFlight, Unwritten
    <2> QED BY <1>1, <2>1, <2>2 DEF Store, GapInv
<1> QED BY <1>3, <1>4, <1>5 DEF Store

\* What the invariant speaks of: the actions outside add_event leave it alone.
StoreVars == <<files, cache, curId, pages, pc, ev, page, lost, log, crashes>>

LEMMA StoreUntouched ==
    ASSUME StoreInv, UNCHANGED StoreVars
    PROVE  StoreInv'
<1>1. /\ InFlight' = InFlight /\ LogEvents' = LogEvents /\ Unwritten' = Unwritten
      /\ \A l, x : OnPage(l, x)' <=> OnPage(l, x)
    BY DEF StoreVars, InFlight, LogEvents, Unwritten, OnPage
<1>2. /\ \A x : InPages(x)' <=> InPages(x)
      /\ \A l : InDoubt(l)' <=> InDoubt(l)
    BY <1>1 DEF StoreVars, InPages, InDoubt
<1> QED BY <1>1, <1>2 DEF StoreVars, StoreInv, Store, PagesInv, CacheInv, EventsInv, GapInv

LEMMA OthersLeaveStore ==
    ASSUME \/ \E s \in Subs : \/ Subscribe_Callback(s) \/ Subscribe_Pool(s)
                              \/ CleanUp(s) \/ Callback(s)
           \/ Dispatcher \/ Close \/ UNCHANGED vars
    PROVE  UNCHANGED StoreVars
<1> USE DEF StoreVars, disk, prodVars
<1>1. ASSUME NEW s \in Subs, Subscribe_Callback(s) \/ Subscribe_Pool(s)
      PROVE  UNCHANGED StoreVars
    BY <1>1 DEF Subscribe_Callback, Subscribe_Pool
<1>2. ASSUME NEW s \in Subs, CleanUp(s)
      PROVE  UNCHANGED StoreVars
    BY <1>2 DEF CleanUp, CleanUp_Shutdown, CleanUp_DropPool, CleanUp_DropCallback
<1>3. ASSUME NEW s \in Subs, Callback(s)
      PROVE  UNCHANGED StoreVars
    BY <1>3 DEF Callback
<1>4. CASE Dispatcher
    BY <1>4 DEF Dispatcher, Dispatch_Check, Dispatch_Get, Dispatch_Timeout,
                Dispatch_Submit, Dispatch_Done
<1>5. CASE Close
    BY <1>5 DEF Close, Close_Stop, Close_Joined, Close_Clear
<1>6. CASE UNCHANGED vars
    BY <1>6 DEF vars
<1> QED BY <1>1, <1>2, <1>3, <1>4, <1>5, <1>6

LEMMA NextStore ==
    ASSUME NoReaders
    PROVE  TypeInv /\ IInv /\ StoreInv /\ [Next]_vars => StoreInv'
<1> SUFFICES ASSUME TypeInv, IInv, StoreInv, [Next]_vars PROVE StoreInv'
    OBVIOUS
<1>1. ASSUME NEW p \in Producers, AddEvent(p)
      PROVE  StoreInv'
    <2>1. crashes' = crashes
        BY <1>1 DEF AddEvent, AddEvent_TakeId, AddEvent_Advance, AddEvent_OpenFile,
             AddEvent_WriteFile, AddEvent_OpenPage, AddEvent_WritePage,
             AddEvent_Put, AddEvent_Fail
    <2> QED BY <1>1, <2>1, TakeIdStores, AdvanceStores, WritesStore,
               StorePageStores, PutStores, FailStores DEF AddEvent, StoreInv
<1>2. CASE Crash
    <2>1. crashes' # 0
        BY <1>2 DEF Crash, TypeInv, TypeOK
    <2> QED BY <2>1 DEF StoreInv
<1>3. CASE ~Crash /\ ~ \E p \in Producers : AddEvent(p)
    <2>1. UNCHANGED StoreVars
        BY <1>3, OthersLeaveStore DEF Next, NoReaders
    <2> QED BY <2>1, StoreUntouched
<1> QED BY <1>1, <1>2, <1>3

LEMMA SpecStore ==
    ASSUME NoReaders
    PROVE  Spec => [](TypeInv /\ IInv /\ StoreInv)
BY InitTypeInv, NextTypeInv, InitIInv, NextIInv, InitStore, NextStore, PTL DEF Spec

-----------------------------------------------------------------------------
\* Until the first crash a subscriber that is handed an event finds that very
\* event under its id, in the cached page of its id or else in its file, for
\* any cache size and however producers interleave; only a page that is being
\* stored, or that a failing write has left empty, makes the lookup raise
\* (stream.py:199-213, event_store.py:161-175).
THEOREM QueuedEventsAreReadable ==
    ASSUME NoReaders
    PROVE  Spec => []QueuedIsReadable
<1>1. ASSUME TypeInv, StoreInv
      PROVE  QueuedIsReadable
    <2> SUFFICES ASSUME crashes = 0, NEW e \in LogEvents
                 PROVE  \/ Lookup(e.id) = {e}
                        \/ Lookup(e.id) = {} /\ PagesFor(e.id) # {} /\ PageInDoubt(e.id)
        BY DEF QueuedIsReadable, LogIsReadable
    <2>1. Store /\ InPages(e) /\ e \in files
        BY <1>1 DEF StoreInv, Store, EventsInv
    <2>2a. PICK k \in DOMAIN pages : \E i \in DOMAIN pages[k] : e = pages[k][i]
        BY <2>1 DEF InPages, OnPage
    <2>2. PICK i \in DOMAIN pages[k] : e = pages[k][i]
        BY <2>2a
    <2>3. k \in Nat \ {0} /\ i \in 1..CacheSize /\ e.id = Slot(k, i)
        BY <1>1, <2>1, <2>2, PagesTyped, ConstantsAssumption DEF Store, PagesInv
    <2>4. PageStart(e.id) = Slot(k, 1) /\ e.id - Slot(k, 1) + 1 = i
        BY <2>3, SlotFacts
    <2>5. ASSUME NEW c \in PagesFor(e.id)
          PROVE  /\ c.events # <<>> => c.events[e.id - PageStart(e.id) + 1] = e
                 /\ c.events = <<>> => InDoubt(k)
        <3>1. PICK l \in DOMAIN pages : /\ c.start = Slot(l, 1)
                                        /\ c.events \in {<<>>, pages[l]}
                                        /\ c.events = <<>> => InDoubt(l)
            BY <2>1 DEF PagesFor, Store, CacheInv
        <3>2. l = k
            BY <3>1, <1>1, <2>3, <2>4, PagesTyped, SlotInjective DEF PagesFor
        <3> QED BY <3>1, <3>2, <2>2, <2>4
    <2>6. {f \in files : f.id = e.id} = {e}
        BY <1>1, <2>1 DEF TypeInv, TypeOK
    <2>7. CASE PagesFor(e.id) = {}
        BY <2>6, <2>7 DEF Lookup
    <2>8. CASE \E c \in PagesFor(e.id) : c.events # <<>>
        BY <2>5, <2>8 DEF Lookup
    <2>9. CASE PagesFor(e.id) # {} /\ \A c \in PagesFor(e.id) : c.events = <<>>
        <3>1. Lookup(e.id) = {} /\ InDoubt(k)
            BY <2>5, <2>9 DEF Lookup
        <3>2. ASSUME NEW p \in Producers, pc[p] = "copy", page[p] = k
              PROVE  PageInDoubt(e.id)
            <4>1. PageOf(p)[1].id = Slot(k, 1)
                BY <1>1, <2>1, <3>2, StartOfPage
                   DEF TypeInv, Handles, PageIsFull, PageOf
            <4> QED BY <4>1, <3>2, <2>4 DEF PageInDoubt
        <3>3. ASSUME NEW x \in lost, OnPage(k, x)
              PROVE  PageInDoubt(e.id)
            <4>1. PICK j \in DOMAIN pages[k] : x = pages[k][j]
                BY <3>3 DEF OnPage
            <4>2. j \in 1..CacheSize /\ x.id = Slot(k, j)
                BY <1>1, <2>1, <4>1, PagesTyped, ConstantsAssumption
                   DEF Store, PagesInv
            <4>3. PageStart(x.id) = PageStart(e.id)
                BY <4>2, <2>3, <2>4, SlotFacts
            <4> QED BY <4>3 DEF PageInDoubt
        <3> QED BY <2>9, <3>1, <3>2, <3>3 DEF InDoubt
    <2> QED BY <2>7, <2>8, <2>9
<1> QED BY SpecStore, <1>1, PTL

\* Until the first crash a stream at rest has a complete event under every id
\* below its next id whose write has not failed, so get_latest_event_id and a
\* scan up to it miss no other (stream.py:170-199, event_store.py:65-95).
THEOREM RestHasNoGap ==
    ASSUME NoReaders
    PROVE  Spec => []NoGapAtRest
<1>1. ASSUME StoreInv
      PROVE  NoGapAtRest
    BY <1>1 DEF StoreInv, Store, GapInv, NoGapAtRest, Unwritten, InFlight
<1> QED BY SpecStore, <1>1, PTL
=============================================================================
