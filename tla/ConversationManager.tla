------------------------ MODULE ConversationManager ------------------------
(***************************************************************************)
(* openhands/server/conversation_manager/standalone_conversation_manager   *)
(* .py over AgentSession, with session/conversation.py: who starts, joins  *)
(* and closes agent sessions, and the ServerConversations that requests    *)
(* attach to.                                                              *)
(*                                                                         *)
(* All of it runs on one loop.  A join suspends only when the limit on     *)
(* concurrent conversations is reached; closing a session suspends at each *)
(* connection and inside Session.close.  Three parties close sessions:     *)
(* joins at the limit, the cleanup task, and the stop and delete requests. *)
(***************************************************************************)
EXTENDS AgentSession

CONSTANTS Clients,       \* browsers, each with one connection at a time
          Requests,      \* HTTP requests that attach to a conversation
          Stopper,       \* the task of a stop or delete request
          MaxConcurrent, \* max_concurrent_conversations
          MaxStops,      \* bound: stop and delete requests
          MaxUnheard,    \* bound: messages sent and not yet heard
          MaxTalk        \* bound: ServerConversations created

ASSUME ManagerAssumption ==
    /\ MaxConcurrent \in Nat \ {0} /\ MaxStops \in Nat /\ MaxTalk \in Nat
    /\ MaxUnheard \in Nat
    /\ Stopper \notin Clients \cup Sids /\ Clients \cap Sids = {}
    /\ IsFiniteSet(Requests)

\* Tasks that run _close_session: a join, one per conversation of the cleanup
\* task, and a stop request.
Closers == Clients \cup Sids \cup {Stopper}
Talk == 1..MaxTalk

VARIABLES
    loops,     \* _local_agent_loops_by_sid, 0 for none
    mapped,    \* _local_connection_id_to_session_id of each client's connection
    joining,   \* the conversation whose join suspended at the limit, or NoSid
    victims,   \* of that join: conversations still to be closed
    closer,    \* _close_session of each closer: where it is, for what, whom it
               \* still disconnects, and the session it closes
    cleanup,   \* "idle", or "closing" while wait_all runs
    stops,     \* stop requests so far
    raced,     \* history: conversations joined while another join was suspended
    talk,      \* the ServerConversations
    active,    \* _active_conversations: number, 0 for none, and count
    detached,  \* _detached_conversations: number, or 0
    holder,    \* the request that holds _conversations_lock while connecting
    using      \* the ServerConversation each request has attached to, or 0

managerVars == <<loops, mapped, joining, victims, closer, cleanup, stops, raced>>
talkVars == <<talk, active, detached, holder, using>>
vars == <<sessionVars, managerVars, talkVars>>

Resting == [at |-> "idle", sid |-> NoSid, drop |-> {}, ses |-> 0]
NoTalk == [sid |-> NoSid, stream |-> 0, shared |-> FALSE, state |-> "none"]

Closer == [at : {"idle", "ready", "drop", "close"}, sid : Sids \cup {NoSid},
           drop : SUBSET Clients, ses : 0..MaxSessions]

ManagerTypeOK ==
    /\ loops \in [Sids -> 0..MaxSessions]
    /\ mapped \in [Clients -> Sids \cup {NoSid}]
    /\ joining \in [Clients -> Sids \cup {NoSid}]
    /\ victims \in [Clients -> SUBSET Sids]
    /\ closer \in [Closers -> Closer]
    /\ cleanup \in {"idle", "closing"}
    /\ stops \in 0..MaxStops
    /\ raced \subseteq Sids
    /\ \A x \in Sids : loops[x] # 0 =>
          sidOf[loops[x]] = x /\ closing[loops[x]] = "no"

Talked == [sid : Sids \cup {NoSid}, stream : 0..MaxSessions, shared : BOOLEAN,
           state : {"none", "connecting", "open", "gone"}]

TalkTypeOK ==
    /\ talk \in [Talk -> Talked]
    /\ active \in [Sids -> [talk : 0..MaxTalk, count : Nat]]
    /\ detached \in [Sids -> 0..MaxTalk]
    /\ holder \subseteq Requests
    /\ using \in [Requests -> 0..MaxTalk]

TypeOK == SessionTypeOK /\ ManagerTypeOK /\ TalkTypeOK

Init ==
    /\ SessionInit
    /\ loops = [x \in Sids |-> 0]
    /\ mapped = [c \in Clients |-> NoSid]
    /\ joining = [c \in Clients |-> NoSid]
    /\ victims = [c \in Clients |-> {}]
    /\ closer = [o \in Closers |-> Resting]
    /\ cleanup = "idle" /\ stops = 0 /\ raced = {}
    /\ talk = [i \in Talk |-> NoTalk]
    /\ active = [x \in Sids |-> [talk |-> 0, count |-> 0]]
    /\ detached = [x \in Sids |-> 0]
    /\ holder = {} /\ using = [r \in Requests |-> 0]

Running == {x \in Sids : loops[x] # 0}      \* get_running_agent_loops

\* Task o runs no _close_session, or what it awaits has returned.
AtRest(o) == \/ closer[o].at = "idle"
             \/ closer[o].at = "close" /\ Ended(closer[o].ses)

\* What it awaits has raised.
Raised(o) == closer[o].at = "close" /\ closing[closer[o].ses] = "failed"

\* The connection of client c is gone, also for those who were to drop it.
Dropped(c) == [o \in Closers |-> [closer[o] EXCEPT !.drop = @ \ {c}]]

-----------------------------------------------------------------------------
(* join_conversation, maybe_start_agent_loop and _start_agent_loop.        *)

HasLoop(x) == loops[x] # 0

\* The session is made and registered, and its start scheduled.
Register(x) ==
    \E s \in Session :
        /\ IsNew(s)
        /\ sidOf' = [sidOf EXCEPT ![s] = x]
        /\ loops' = [loops EXCEPT ![x] = s]
        /\ UNCHANGED <<stage, runtime, controller, stream, unheard, closing, age, gaveUp>>

\* There is a session left for a join that may have to make one.
Bounded == Cardinality({s \in Session : Created(s)})
              + Cardinality({c \in Clients : joining[c] # NoSid}) < MaxSessions

\* Joins of x that another client's join of x overlaps.
Races(c, x) == IF \E d \in Clients \ {c} : joining[d] = x THEN {x} ELSE {}

Join_Running(c, x) ==
    /\ mapped[c] = NoSid /\ joining[c] = NoSid
    /\ HasLoop(x)
    /\ mapped' = [mapped EXCEPT ![c] = x]
    /\ UNCHANGED <<sessionVars, talkVars, loops, joining, victims, closer,
                   cleanup, stops, raced>>

Join_Starts(c, x) ==
    /\ mapped[c] = NoSid /\ joining[c] = NoSid
    /\ Bounded /\ ~HasLoop(x) /\ Cardinality(Running) < MaxConcurrent
    /\ mapped' = [mapped EXCEPT ![c] = x]
    /\ Register(x)
    /\ raced' = raced \cup Races(c, x)
    /\ UNCHANGED <<talkVars, joining, victims, closer, cleanup, stops>>

\* The limit is reached: the join reads which conversations were updated last
\* and is to close the oldest of those running now.
Join_Limit(c, x) ==
    /\ mapped[c] = NoSid /\ joining[c] = NoSid
    /\ Bounded /\ ~HasLoop(x) /\ Cardinality(Running) >= MaxConcurrent
    /\ mapped' = [mapped EXCEPT ![c] = x]
    /\ joining' = [joining EXCEPT ![c] = x]
    /\ \E old \in SUBSET Running :
          /\ Cardinality(old) = Cardinality(Running) - MaxConcurrent + 1
          /\ victims' = [victims EXCEPT ![c] = old]
    /\ raced' = raced \cup Races(c, x)
    /\ UNCHANGED <<sessionVars, talkVars, loops, closer, cleanup, stops>>

\* _close_session begins, in the step of the task o that calls it: it reads
\* which connections to drop.
CloseSession(o, x) ==
    closer' = [closer EXCEPT ![o] =
        [at |-> "drop", sid |-> x, drop |-> {c \in Clients : mapped[c] = x}, ses |-> 0]]

\* The status message is sent; close_session returns when x is not running.
Join_Evict(c, x) ==
    /\ joining[c] # NoSid /\ x \in victims[c] /\ AtRest(c) /\ ~Raised(c)
    /\ victims' = [victims EXCEPT ![c] = @ \ {x}]
    /\ IF loops[x] # 0 THEN CloseSession(c, x) ELSE UNCHANGED closer
    /\ UNCHANGED <<sessionVars, talkVars, loops, mapped, joining, cleanup,
                   stops, raced>>

\* There is room now; what was registered meanwhile is not looked at.
Join_StartsAfterwards(c) ==
    /\ joining[c] # NoSid /\ victims[c] = {} /\ AtRest(c) /\ ~Raised(c)
    /\ Register(joining[c])
    /\ raced' = raced \cup Races(c, joining[c])
    /\ joining' = [joining EXCEPT ![c] = NoSid]
    /\ closer' = [closer EXCEPT ![c] = Resting]
    /\ UNCHANGED <<talkVars, mapped, victims, cleanup, stops>>

\* The session it closed could not be closed: the join ends with the exception.
Join_Fails(c) ==
    /\ joining[c] # NoSid /\ Raised(c)
    /\ joining' = [joining EXCEPT ![c] = NoSid]
    /\ victims' = [victims EXCEPT ![c] = {}]
    /\ closer' = [closer EXCEPT ![c] = Resting]
    /\ UNCHANGED <<sessionVars, talkVars, loops, mapped, cleanup, stops, raced>>

Join(c) == \/ \E x \in Sids : \/ Join_Running(c, x) \/ Join_Starts(c, x)
                              \/ Join_Limit(c, x)
           \/ \E x \in Sids : Join_Evict(c, x)
           \/ Join_StartsAfterwards(c) \/ Join_Fails(c)

\* disconnect_from_session.
Disconnect(c) ==
    /\ mapped[c] # NoSid
    /\ mapped' = [mapped EXCEPT ![c] = NoSid]
    /\ closer' = Dropped(c)
    /\ UNCHANGED <<sessionVars, talkVars, loops, joining, victims, cleanup,
                   stops, raced>>

\* send_to_event_stream: a message is published.
Message(c) ==
    /\ mapped[c] # NoSid /\ HasLoop(mapped[c])
    /\ LET s == loops[mapped[c]] IN
          /\ unheard[s] < MaxUnheard
          /\ unheard' = [unheard EXCEPT ![s] = @ + 1]
    /\ UNCHANGED <<sidOf, stage, runtime, controller, stream, closing, age, gaveUp,
                   managerVars, talkVars>>

-----------------------------------------------------------------------------
(* _close_session.                                                         *)

\* sio.disconnect of one connection, which also calls disconnect_from_session.
CloseSession_Drop(o) ==
    /\ closer[o].at = "drop"
    /\ \E c \in closer[o].drop :
          /\ mapped' = [mapped EXCEPT ![c] = NoSid]
          /\ closer' = Dropped(c)
    /\ UNCHANGED <<sessionVars, talkVars, loops, joining, victims, cleanup,
                   stops, raced>>

\* The session is taken out of the dictionary, and Session.close begins; when
\* somebody else has taken it out nothing is left to do.
CloseSession_Pop(o) ==
    LET s == loops[closer[o].sid] IN
    /\ closer[o].at = "drop" /\ closer[o].drop = {}
    /\ loops' = [loops EXCEPT ![closer[o].sid] = 0]
    /\ IF s = 0
       THEN /\ closer' = [closer EXCEPT ![o] = Resting]
            /\ UNCHANGED closing
       ELSE /\ closer' = [closer EXCEPT ![o].at = "close", ![o].ses = s]
            /\ closing' = [closing EXCEPT ![s] = "emit"]
    /\ UNCHANGED <<sidOf, stage, runtime, controller, stream, unheard, age, gaveUp,
                   talkVars, mapped, joining, victims, cleanup, stops, raced>>

\* The first step of a task that the cleanup has created.
CloseSession_Ready(x) ==
    /\ closer[x].at = "ready"
    /\ CloseSession(x, x)
    /\ UNCHANGED <<sessionVars, talkVars, loops, mapped, joining, victims,
                   cleanup, stops, raced>>

Closing(o) == \/ CloseSession_Drop(o) \/ CloseSession_Pop(o)
              \/ o \in Sids /\ CloseSession_Ready(o)

\* The stop and delete endpoints.
StopRequest(x) ==
    /\ stops < MaxStops /\ AtRest(Stopper) /\ loops[x] # 0
    /\ stops' = stops + 1
    /\ CloseSession(Stopper, x)
    /\ UNCHANGED <<sessionVars, talkVars, loops, mapped, joining, victims,
                   cleanup, raced>>

-----------------------------------------------------------------------------
(* _cleanup_stale.                                                         *)

\* Mutant: sessions without a controller are never stale.
IsStale_WithController(s) == age[s] = "idle" /\ controller[s] \notin {"running", "none"}
IsStale(s) == age[s] = "idle" /\ AgentState(s) \notin {"running", "none"}

Stale == {x \in Running : IsStale(loops[x]) /\ \A c \in Clients : mapped[c] # x}

\* Mutant: conversations still in use are disconnected with the others.
Leftover_Active == {active[x].talk : x \in Sids} \ {0}
Leftover == {detached[x] : x \in Sids} \ {0}

\* ServerConversation.disconnect of the set gone: those with a runtime of their
\* own close their event stream, be it their own or a session's.
ClosedStreams(gone) == {talk[i].stream : i \in {j \in gone : ~talk[j].shared}}

Hangup(gone) ==
    /\ talk' = [i \in Talk |-> IF i \in gone THEN [talk[i] EXCEPT !.state = "gone"]
                               ELSE talk[i]]
    /\ stream' = [s \in Session |-> IF s \in ClosedStreams(gone) THEN "closed"
                                    ELSE stream[s]]
    /\ unheard' = [s \in Session |-> IF s \in ClosedStreams(gone) THEN 0
                                     ELSE unheard[s]]

\* One round up to wait_all.
Cleanup_Begin ==
    /\ cleanup = "idle" /\ holder = {}
    /\ Leftover # {} \/ Stale # {}
    /\ Hangup(Leftover)
    /\ detached' = [x \in Sids |-> 0]
    /\ closer' = [o \in Closers |->
          IF o \in Stale THEN [Resting EXCEPT !.at = "ready", !.sid = o] ELSE closer[o]]
    /\ cleanup' = IF Stale = {} THEN "idle" ELSE "closing"
    /\ UNCHANGED <<sidOf, stage, runtime, controller, closing, age, gaveUp, loops,
                   mapped, joining, victims, stops, raced, active, holder, using>>

\* wait_all returns, and the task sleeps.
Cleanup_End ==
    /\ cleanup = "closing" /\ \A x \in Sids : AtRest(x)
    /\ cleanup' = "idle"
    /\ closer' = [o \in Closers |-> IF o \in Sids THEN Resting ELSE closer[o]]
    /\ UNCHANGED <<sessionVars, talkVars, loops, mapped, joining, victims,
                   stops, raced>>

\* wait_all times out, a start having taken too long, and cancels what it waits
\* for; Session.close is cut off where it waits.
Cleanup_Timeout ==
    LET cut == {closer[x].ses : x \in {y \in Sids : closer[y].at = "close"}} IN
    /\ cleanup = "closing" /\ \E s \in cut : closing[s] = "waiting"
    /\ closer' = [o \in Closers |-> IF o \in Sids THEN Resting ELSE closer[o]]
    /\ closing' = [s \in Session |->
          IF s \in cut /\ ~Ended(s) THEN "cut" ELSE closing[s]]
    /\ cleanup' = "idle"
    /\ UNCHANGED <<sidOf, stage, runtime, controller, stream, unheard, age, gaveUp,
                   talkVars, loops, mapped, joining, victims, stops, raced>>

-----------------------------------------------------------------------------
(* attach_to_conversation and detach_from_conversation.                    *)

Attach_Reuse(r, x) ==
    LET i == IF active[x].talk # 0 THEN active[x].talk ELSE detached[x] IN
    /\ using[r] = 0 /\ holder = {} /\ i # 0
    /\ active' = [active EXCEPT ![x] = [talk |-> i, count |-> @.count + 1]]
    /\ detached' = IF active[x].talk # 0 THEN detached ELSE [detached EXCEPT ![x] = 0]
    /\ using' = [using EXCEPT ![r] = i]
    /\ UNCHANGED <<sessionVars, managerVars, talk, holder>>

\* A new one has the event stream of the running session, and its runtime when
\* there is one already; otherwise it connects to a runtime of its own.
Attach_New(r, x) ==
    /\ using[r] = 0 /\ holder = {}
    /\ active[x].talk = 0 /\ detached[x] = 0
    /\ \E i \in Talk :
        LET shared == loops[x] # 0 /\ runtime[loops[x]] # "none" IN
        /\ talk[i].state = "none" /\ \A j \in 1..i - 1 : talk[j].state # "none"
        /\ talk' = [talk EXCEPT ![i] = [sid |-> x, stream |-> loops[x], shared |-> shared,
                                        state |-> IF shared THEN "open" ELSE "connecting"]]
        /\ using' = [using EXCEPT ![r] = i]
        /\ IF shared
           THEN /\ active' = [active EXCEPT ![x] = [talk |-> i, count |-> 1]]
                /\ UNCHANGED holder
           ELSE /\ holder' = {r}
                /\ UNCHANGED active
    /\ UNCHANGED <<sessionVars, managerVars, detached>>

Attach_Connected(r) ==
    LET i == using[r] IN
    /\ r \in holder /\ holder' = {}
    /\ talk' = [talk EXCEPT ![i].state = "open"]
    /\ active' = [active EXCEPT ![talk[i].sid] = [talk |-> i, count |-> 1]]
    /\ UNCHANGED <<sessionVars, managerVars, detached, using>>

\* The runtime is unavailable.
Attach_Unavailable(r) ==
    /\ r \in holder /\ holder' = {}
    /\ Hangup({using[r]})
    /\ using' = [using EXCEPT ![r] = 0]
    /\ UNCHANGED <<sidOf, stage, runtime, controller, closing, age, gaveUp,
                   managerVars, active, detached>>

\* Mutant: the last but one detaches as if it were the last.
IsLast_TooEarly(x) == active[x].count <= 2
IsLast(x) == active[x].count <= 1

Detach(r) ==
    LET x == talk[using[r]].sid IN
    /\ using[r] # 0 /\ holder = {}
    /\ IF active[x].talk = 0 THEN UNCHANGED <<active, detached>>
       ELSE IF IsLast(x)
       THEN /\ active' = [active EXCEPT ![x] = [talk |-> 0, count |-> 0]]
            /\ detached' = [detached EXCEPT ![x] = using[r]]
       ELSE /\ active' = [active EXCEPT ![x].count = @ - 1]
            /\ UNCHANGED detached
    /\ using' = [using EXCEPT ![r] = 0]
    /\ UNCHANGED <<sessionVars, managerVars, talk, holder>>

Connecting(r) == Attach_Connected(r) \/ Attach_Unavailable(r)

-----------------------------------------------------------------------------

GoesOn(c) == \/ \E x \in Sids : Join_Evict(c, x)
             \/ Join_StartsAfterwards(c) \/ Join_Fails(c)

\* What the session does by itself leaves the manager alone.
SessionStep(s) == /\ Start(s) \/ Close(s) \/ TimePasses(s)
                  /\ UNCHANGED <<managerVars, talkVars>>
CloseEnds(s) == /\ Release(s) \/ Release_Fails(s)
                /\ UNCHANGED <<managerVars, talkVars>>
ThreadStep(s) == /\ Hear(s) \/ AgentStops(s)
                 /\ UNCHANGED <<managerVars, talkVars>>

LoopStep ==
    \/ \E s \in Session : SessionStep(s)
    \/ \E c \in Clients : Join(c) \/ Disconnect(c) \/ Message(c)
    \/ \E o \in Closers : Closing(o)
    \/ \E x \in Sids : StopRequest(x)
    \/ Cleanup_Begin \/ Cleanup_End \/ Cleanup_Timeout
    \/ \E r \in Requests : \/ \E x \in Sids : Attach_Reuse(r, x) \/ Attach_New(r, x)
                            \/ Connecting(r) \/ Detach(r)

\* While the loop closes a stream it does nothing else; the pool threads go on.
Next ==
    \/ \E s \in Session : ThreadStep(s) \/ CloseEnds(s)
    \/ ~Blocked /\ LoopStep

Spec == Init /\ [][Next]_vars

\* The loop runs what is ready, runtimes connect or fail, the cleanup task comes
\* round again; nobody has to join, send or attach, and agents may run for ever.
Fairness ==
    /\ \A s \in Session :
          /\ WF_vars(Start(s) /\ UNCHANGED <<managerVars, talkVars>>)
          /\ WF_vars(Close(s) /\ UNCHANGED <<managerVars, talkVars>>)
          /\ WF_vars(CloseEnds(s))
    /\ \A c \in Clients : WF_vars(GoesOn(c))
    /\ \A o \in Closers : WF_vars(Closing(o))
    /\ WF_vars(Cleanup_Begin) /\ WF_vars(Cleanup_End)
    /\ \A r \in Requests : WF_vars(Connecting(r))

FairSpec == Spec /\ Fairness

-----------------------------------------------------------------------------
(* Properties.                                                             *)

Open(x) == {s \in Session : sidOf[s] = x /\ closing[s] = "no"}

\* A conversation has one session that is not being closed, whatever joins,
\* stops and cleanups do, unless two joins overlapped at the limit
\* (standalone_conversation_manager.py:289-294, 352).
OneLoopUnlessRaced == \A x \in Sids \ raced : Cardinality(Open(x)) <= 1

\* "Start an event loop if one is not already running"
\* (conversation_manager.py): the same without exception.
OneLoopPerConversation == \A x \in Sids : Cardinality(Open(x)) <= 1

\* "Maximum number of concurrent agent loops allowed per user"
\* (core/config/openhands_config.py:117).
LimitHolds == Cardinality(Running) <= MaxConcurrent

\* Whoever closes a session, and whenever start() fails or ends: when close() has
\* ended nothing of the session is left open but a controller that start() made
\* after it was given up, or what a failing save of the state leaves behind
\* (agent_session.py:224-245).
CloseReleases ==
    \A s \in Session : Ended(s) =>
        /\ stream[s] = "closed"
        /\ \/ /\ runtime[s] # "open"
              /\ \/ controller[s] \in {"none", "closed"}
                 \/ controller[s] = "waiting" /\ gaveUp[s]
           \/ closing[s] = "failed" /\ controller[s] # "none"

\* "Waited too long for initialization to finish before closing session"
\* (agent_session.py:236): only a session that has been starting for long is
\* given up.
OnlyLongStartsAreGivenUp ==
    [][\A s \in Session : gaveUp'[s] /\ ~gaveUp[s] => age[s] # "young"]_vars

\* Nobody publishes for a session once close() has set _closed, although start()
\* may still be making its controller; and what was published before never sets an
\* agent running once close() has ended (agent_session.py:191, 228, 239-243).
NeverRunsAfterClose ==
    [][\A s \in Session :
          /\ unheard'[s] > unheard[s] => ~Closed(s)
          /\ controller[s] # "running" /\ controller'[s] = "running" => ~Ended(s)]_vars

\* A request keeps an open ServerConversation until it detaches, however many
\* others detach and however often the cleanup comes round
\* (standalone_conversation_manager.py:98-106, 167-187).
UsedIsOpen ==
    \A r \in Requests \ holder : using[r] # 0 => talk[using[r]].state = "open"

\* The event stream of a session is open until the session is closed:
\* attaching only borrows it, "required to keep the cur_id up to date"
\* (standalone_conversation_manager.py:117).
StreamStaysOpen ==
    \A s \in Session : Created(s) /\ closing[s] = "no" => stream[s] = "open"

\* A registered session that is idle and has no connection is closed in the
\* end, also when it never got a controller
\* (standalone_conversation_manager.py:193-215).
Forgotten(s) == /\ Created(s) /\ loops[sidOf[s]] = s /\ age[s] = "idle"
                /\ controller[s] # "running"
                /\ \A c \in Clients : mapped[c] # sidOf[s]
IdleIsClosed == \A s \in Session : Forgotten(s) ~> ~Forgotten(s)

\* A join at the limit returns, whatever the sessions it closes are doing
\* (standalone_conversation_manager.py:317-338).
JoinReturns == \A c \in Clients : joining[c] # NoSid ~> joining[c] = NoSid
=============================================================================
