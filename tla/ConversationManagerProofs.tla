---------------------- MODULE ConversationManagerProofs ----------------------
(***************************************************************************)
(* Proofs about ConversationManager, for any conversations, clients,       *)
(* requests and bounds: a request keeps an open ServerConversation, a      *)
(* conversation has one open session unless two joins of it overlapped,    *)
(* and what a closed session leaves open is accounted for, and never runs. *)
(***************************************************************************)
EXTENDS ConversationManager, FiniteSetTheorems, TLAPS

-----------------------------------------------------------------------------
(* Types.                                                                  *)

\* What the session does by itself.
LEMMA SessionStepTyped ==
    ASSUME SessionTypeOK, NEW s \in Session,
           \/ Start(s) \/ Close(s) \/ Release(s) \/ Release_Fails(s)
           \/ Hear(s) \/ AgentStops(s) \/ TimePasses(s)
    PROVE  SessionTypeOK'
<1> USE DEF SessionTypeOK, Created
<1>1. CASE Start(s)
    <2>1. CASE Start_Begin(s)
        BY <2>1 DEF Start_Begin
    <2>2. CASE Start_Fails(s)
        BY <2>2 DEF Start_Fails
    <2>3. CASE Start_Controller(s)
        BY <2>3 DEF Start_Controller
    <2> QED
        BY <1>1, <2>1, <2>2, <2>3 DEF Start
<1>2. CASE Close(s)
    <2>1. CASE Close_Begin(s)
        BY <2>1 DEF Close_Begin
    <2>2. CASE Close_GiveUp(s)
        BY <2>2 DEF Close_GiveUp, Starting
    <2>3. CASE Close_Waited(s)
        BY <2>3 DEF Close_Waited
    <2> QED
        BY <1>2, <2>1, <2>2, <2>3 DEF Close
<1>3. CASE Release(s)
    BY <1>3 DEF Release, StreamClosed
<1>4. CASE Release_Fails(s)
    BY <1>4 DEF Release_Fails, StreamClosed
<1>5. CASE Hear(s)
    BY <1>5 DEF Hear
<1>6. CASE AgentStops(s)
    BY <1>6 DEF AgentStops
<1>7. CASE TimePasses(s)
    BY <1>7 DEF TimePasses
<1> QED
    BY <1>1, <1>2, <1>3, <1>4, <1>5, <1>6, <1>7

\* What the tasks that close sessions are at.
ClosersAreRight ==
    \A o \in Closers :
        /\ closer[o].at \in {"ready", "drop"} => closer[o].sid \in Sids
        /\ closer[o].at = "close" =>
              closer[o].ses \in Session /\ closing[closer[o].ses] # "no"

TypeInv == TypeOK /\ ClosersAreRight

LEMMA ConstantFacts ==
    /\ MaxSessions \in Nat /\ MaxTalk \in Nat /\ MaxStops \in Nat
    /\ NoSid \notin Sids
    /\ Clients \subseteq Closers /\ Sids \subseteq Closers /\ Stopper \in Closers
BY SessionAssumption, ManagerAssumption DEF Closers

LEMMA InitTypeInv == Init => TypeInv
<1> SUFFICES ASSUME Init PROVE TypeInv
    OBVIOUS
<1>1. SessionTypeOK
    BY DEF Init, SessionInit, SessionTypeOK, Session, Created
<1>2. Resting \in Closer
    BY ConstantFacts DEF Resting, Closer
<1>3. ManagerTypeOK
    BY <1>2, ConstantFacts DEF Init, ManagerTypeOK
<1>4. NoTalk \in Talked
    BY ConstantFacts DEF NoTalk, Talked
<1>5. TalkTypeOK
    BY <1>4, ConstantFacts DEF Init, TalkTypeOK
<1>6. ClosersAreRight
    BY DEF Init, ClosersAreRight, Resting
<1> QED
    BY <1>1, <1>3, <1>5, <1>6 DEF TypeInv, TypeOK

\* A step that leaves the variables of a part alone leaves its types alone.
LEMMA SessionUnchanged == SessionTypeOK /\ UNCHANGED sessionVars => SessionTypeOK'
BY DEF SessionTypeOK, sessionVars, Created

LEMMA TalkUnchanged == TalkTypeOK /\ UNCHANGED talkVars => TalkTypeOK'
BY DEF TalkTypeOK, talkVars

LEMMA ManagerUnchanged ==
    ASSUME ManagerTypeOK, ClosersAreRight, UNCHANGED <<sidOf, managerVars>>,
           SessionTypeOK, \A t \in Session : closing[t] = "no" <=> closing'[t] = "no"
    PROVE  (ManagerTypeOK /\ ClosersAreRight)'
<1>1. ManagerTypeOK'
    <2>1. \A x \in Sids : loops[x] # 0 => loops[x] \in Session
        BY ConstantFacts DEF ManagerTypeOK, Session
    <2> QED
        BY <2>1 DEF ManagerTypeOK, managerVars
<1>2. ClosersAreRight'
    BY DEF ClosersAreRight, managerVars
<1> QED
    BY <1>1, <1>2

\* A connection that is gone changes only whom the closers still disconnect.
LEMMA DroppedTyped ==
    ASSUME closer \in [Closers -> Closer], NEW c \in Clients
    PROVE  /\ Dropped(c) \in [Closers -> Closer]
           /\ \A o \in Closers : /\ Dropped(c)[o].at = closer[o].at
                                  /\ Dropped(c)[o].sid = closer[o].sid
                                  /\ Dropped(c)[o].ses = closer[o].ses
<1>1. ASSUME NEW o \in Closers
      PROVE  LET d == [closer[o] EXCEPT !.drop = @ \ {c}] IN
             /\ d \in Closer /\ d.at = closer[o].at
             /\ d.sid = closer[o].sid /\ d.ses = closer[o].ses
    <2>1. closer[o] \in Closer
        OBVIOUS
    <2> QED
        BY <2>1 DEF Closer
<1> QED
    BY <1>1 DEF Dropped

\* _close_session begins.
LEMMA CloseSessionTyped ==
    ASSUME ManagerTypeOK, ClosersAreRight, NEW o \in Closers, NEW x \in Sids,
           CloseSession(o, x), UNCHANGED closing
    PROVE  closer' \in [Closers -> Closer] /\ ClosersAreRight'
<1>1. [at |-> "drop", sid |-> x, drop |-> {c \in Clients : mapped[c] = x}, ses |-> 0]
          \in Closer
    BY ConstantFacts DEF Closer
<1>2. closer' \in [Closers -> Closer]
    BY <1>1 DEF CloseSession, ManagerTypeOK
<1>3. closer \in [Closers -> Closer]
    BY DEF ManagerTypeOK
<1>4. ClosersAreRight'
    BY <1>3 DEF CloseSession, ClosersAreRight
<1> QED
    BY <1>2, <1>4

\* A session is made and registered.
LEMMA RegisterTyped ==
    ASSUME SessionTypeOK, ManagerTypeOK, NEW x \in Sids, Register(x)
    PROVE  /\ SessionTypeOK' /\ UNCHANGED closing
           /\ loops' \in [Sids -> 0..MaxSessions]
           /\ \A y \in Sids : loops'[y] # 0 =>
                 sidOf'[loops'[y]] = y /\ closing'[loops'[y]] = "no"
<1>1. PICK s \in Session : /\ IsNew(s) /\ sidOf' = [sidOf EXCEPT ![s] = x]
                           /\ loops' = [loops EXCEPT ![x] = s]
    BY DEF Register
<1>2. sidOf[s] = NoSid /\ closing[s] = "no" /\ s # 0 /\ s \in 0..MaxSessions
    BY <1>1, ConstantFacts DEF IsNew, Created, SessionTypeOK, Session
<1>3. UNCHANGED <<stage, runtime, controller, stream, unheard, closing, age, gaveUp>>
    BY DEF Register
<1>4. SessionTypeOK'
    BY <1>1, <1>2, <1>3, ConstantFacts DEF SessionTypeOK, Created
<1>5. loops' \in [Sids -> 0..MaxSessions]
    BY <1>1, <1>2 DEF ManagerTypeOK
<1>6. ASSUME NEW y \in Sids, loops'[y] # 0
      PROVE  sidOf'[loops'[y]] = y /\ closing'[loops'[y]] = "no"
    <2>1. CASE y = x
        BY <1>1, <1>2, <1>3, <2>1 DEF ManagerTypeOK, SessionTypeOK
    <2>2. CASE y # x
        <3>1. loops'[y] = loops[y] /\ loops[y] \in Session
            BY <1>1, <1>6, <2>2, ConstantFacts DEF ManagerTypeOK, Session
        <3>2. sidOf[loops[y]] = y /\ loops[y] # s
            BY <1>2, <1>6, <3>1, ConstantFacts DEF ManagerTypeOK
        <3> QED
            BY <1>1, <1>3, <1>6, <3>1, <3>2 DEF ManagerTypeOK, SessionTypeOK
    <2> QED
        BY <2>1, <2>2
<1> QED
    BY <1>3, <1>4, <1>5, <1>6

\* Closing a session and everything else around the manager's dictionaries
\* that leaves loops, sidOf and closing alone.
LEMMA LoopsUnchanged ==
    ASSUME SessionTypeOK, ManagerTypeOK, UNCHANGED <<sidOf, closing, loops>>
    PROVE  \A x \in Sids : loops'[x] # 0 =>
                 sidOf'[loops'[x]] = x /\ closing'[loops'[x]] = "no"
BY DEF ManagerTypeOK

\* What is left to show of the manager's types when only loops and closers move.
LEMMA ManagerTypes ==
    ASSUME ManagerTypeOK, UNCHANGED <<mapped, joining, victims, cleanup, stops, raced>>,
           loops' \in [Sids -> 0..MaxSessions], closer' \in [Closers -> Closer],
           \A x \in Sids : loops'[x] # 0 =>
                 sidOf'[loops'[x]] = x /\ closing'[loops'[x]] = "no"
    PROVE  ManagerTypeOK'
BY DEF ManagerTypeOK

LEMMA JoinTyped ==
    ASSUME TypeInv, NEW c \in Clients, Join(c)
    PROVE  TypeInv'
<1> USE DEF TypeInv, TypeOK
<1>a. TalkTypeOK'
    BY TalkUnchanged DEF Join, Join_Running, Join_Starts, Join_Limit, Join_Evict,
       Join_StartsAfterwards, Join_Fails
<1>1. ASSUME NEW x \in Sids, Join_Running(c, x) PROVE TypeInv'
    <2>1. UNCHANGED sessionVars
        BY <1>1 DEF Join_Running
    <2>2. ManagerTypeOK'
        BY <1>1, <2>1, LoopsUnchanged DEF Join_Running, ManagerTypeOK, sessionVars
    <2>3. ClosersAreRight'
        BY <1>1, <2>1 DEF Join_Running, ClosersAreRight, sessionVars
    <2> QED
        BY <1>a, <2>1, <2>2, <2>3, SessionUnchanged
<1>2. ASSUME NEW x \in Sids, Join_Starts(c, x) PROVE TypeInv'
    <2>1. Register(x) /\ UNCHANGED <<joining, victims, closer, cleanup, stops>>
        BY <1>2 DEF Join_Starts
    <2>2. mapped' \in [Clients -> Sids \cup {NoSid}] /\ raced' \subseteq Sids
        BY <1>2 DEF Join_Starts, Races, ManagerTypeOK
    <2>3. ManagerTypeOK'
        BY <2>1, <2>2, RegisterTyped DEF ManagerTypeOK
    <2>4. ClosersAreRight'
        BY <2>1, RegisterTyped DEF ClosersAreRight
    <2> QED
        BY <1>a, <2>1, <2>3, <2>4, RegisterTyped
<1>3. ASSUME NEW x \in Sids, Join_Limit(c, x) PROVE TypeInv'
    <2>1. UNCHANGED <<sessionVars, loops, closer, cleanup, stops>>
        BY <1>3 DEF Join_Limit
    <2>2. /\ mapped' \in [Clients -> Sids \cup {NoSid}]
          /\ joining' \in [Clients -> Sids \cup {NoSid}]
          /\ raced' \subseteq Sids
        BY <1>3 DEF Join_Limit, Races, ManagerTypeOK
    <2>3. victims' \in [Clients -> SUBSET Sids]
        BY <1>3 DEF Join_Limit, Running, ManagerTypeOK
    <2>4. ManagerTypeOK'
        BY <2>1, <2>2, <2>3, LoopsUnchanged DEF ManagerTypeOK, sessionVars
    <2>5. ClosersAreRight'
        BY <2>1 DEF ClosersAreRight, sessionVars
    <2> QED
        BY <1>a, <2>1, <2>4, <2>5, SessionUnchanged
<1>4. ASSUME NEW x \in Sids, Join_Evict(c, x) PROVE TypeInv'
    <2>1. UNCHANGED <<sessionVars, loops, mapped, joining, cleanup, stops, raced>>
        BY <1>4 DEF Join_Evict
    <2>2. victims' \in [Clients -> SUBSET Sids]
        BY <1>4 DEF Join_Evict, ManagerTypeOK
    <2>3. closer' \in [Closers -> Closer] /\ ClosersAreRight'
        <3>1. CASE CloseSession(c, x)
            BY <2>1, <3>1, CloseSessionTyped, ConstantFacts DEF sessionVars
        <3>2. CASE UNCHANGED closer
            BY <2>1, <3>2 DEF ClosersAreRight, ManagerTypeOK, sessionVars
        <3> QED
            BY <1>4, <3>1, <3>2 DEF Join_Evict
    <2>4. ManagerTypeOK'
        BY <2>1, <2>2, <2>3, LoopsUnchanged DEF ManagerTypeOK, sessionVars
    <2> QED
        BY <1>a, <2>1, <2>3, <2>4, SessionUnchanged
<1>5. CASE Join_StartsAfterwards(c)
    <2>1. /\ Register(joining[c]) /\ joining[c] \in Sids
          /\ UNCHANGED <<mapped, victims, cleanup, stops>>
          /\ closer' = [closer EXCEPT ![c] = Resting]
        BY <1>5 DEF Join_StartsAfterwards, ManagerTypeOK
    <2>2. joining' \in [Clients -> Sids \cup {NoSid}] /\ raced' \subseteq Sids
        BY <1>5 DEF Join_StartsAfterwards, Races, ManagerTypeOK
    <2>3. Resting \in Closer
        BY ConstantFacts DEF Resting, Closer
    <2>4. closer' \in [Closers -> Closer]
        BY <2>1, <2>3 DEF ManagerTypeOK
    <2>5. ManagerTypeOK'
        BY <2>1, <2>2, <2>4, RegisterTyped DEF ManagerTypeOK
    <2>6. ClosersAreRight'
        BY <2>1, RegisterTyped, ConstantFacts DEF ClosersAreRight, ManagerTypeOK, Resting
    <2> QED
        BY <1>a, <2>1, <2>5, <2>6, RegisterTyped
<1>6. CASE Join_Fails(c)
    <2>1. /\ UNCHANGED <<sessionVars, loops, mapped, cleanup, stops, raced>>
          /\ closer' = [closer EXCEPT ![c] = Resting]
        BY <1>6 DEF Join_Fails
    <2>2. /\ joining' \in [Clients -> Sids \cup {NoSid}]
          /\ victims' \in [Clients -> SUBSET Sids]
        BY <1>6 DEF Join_Fails, ManagerTypeOK
    <2>3. Resting \in Closer
        BY ConstantFacts DEF Resting, Closer
    <2>4. closer' \in [Closers -> Closer]
        BY <2>1, <2>3 DEF ManagerTypeOK
    <2>5. ManagerTypeOK'
        BY <2>1, <2>2, <2>4, LoopsUnchanged DEF ManagerTypeOK, sessionVars
    <2>6. ClosersAreRight'
        BY <2>1, ConstantFacts DEF ClosersAreRight, ManagerTypeOK, Resting, sessionVars
    <2> QED
        BY <1>a, <2>1, <2>5, <2>6, SessionUnchanged
<1> QED
    BY <1>1, <1>2, <1>3, <1>4, <1>5, <1>6 DEF Join

LEMMA ClosingTyped ==
    ASSUME TypeInv, NEW o \in Closers, Closing(o)
    PROVE  TypeInv'
<1> USE DEF TypeInv, TypeOK
<1>a. TalkTypeOK'
    BY TalkUnchanged DEF Closing, CloseSession_Drop, CloseSession_Pop, CloseSession_Ready
<1>b. closer \in [Closers -> Closer]
    BY DEF ManagerTypeOK
<1>1. CASE CloseSession_Drop(o)
    <2>1. PICK c \in closer[o].drop : /\ mapped' = [mapped EXCEPT ![c] = NoSid]
                                      /\ closer' = Dropped(c)
        BY <1>1 DEF CloseSession_Drop
    <2>2. UNCHANGED <<sessionVars, loops, joining, victims, cleanup, stops, raced>>
        BY <1>1 DEF CloseSession_Drop
    <2>3. c \in Clients
        BY <1>b, <2>1 DEF Closer
    <2>4. closer' \in [Closers -> Closer]
        BY <1>b, <2>1, <2>3, DroppedTyped
    <2>5. mapped' \in [Clients -> Sids \cup {NoSid}]
        BY <2>1 DEF ManagerTypeOK
    <2>6. ManagerTypeOK'
        BY <2>2, <2>4, <2>5, LoopsUnchanged DEF ManagerTypeOK, sessionVars
    <2>7. ClosersAreRight'
        BY <1>b, <2>1, <2>2, <2>3, DroppedTyped DEF ClosersAreRight, sessionVars
    <2> QED
        BY <1>a, <2>2, <2>6, <2>7, SessionUnchanged
<1>2. CASE CloseSession_Pop(o)
    <2> DEFINE s == loops[closer[o].sid]
    <2>1. closer[o].sid \in Sids
        BY <1>2 DEF CloseSession_Pop, ClosersAreRight
    <2>2. s \in 0..MaxSessions /\ (s # 0 => s \in Session)
        BY <2>1, ConstantFacts DEF ManagerTypeOK, Session
    <2>3. /\ loops' = [loops EXCEPT ![closer[o].sid] = 0]
          /\ UNCHANGED <<sidOf, stage, runtime, controller, stream, unheard, age, gaveUp,
                         mapped, joining, victims, cleanup, stops, raced>>
        BY <1>2 DEF CloseSession_Pop
    <2>4. loops' \in [Sids -> 0..MaxSessions]
        <3>1. 0 \in 0..MaxSessions
            BY ConstantFacts
        <3>2. loops \in [Sids -> 0..MaxSessions]
            BY DEF ManagerTypeOK
        <3> QED
            BY <2>1, <2>3, <3>1, <3>2
    <2>5. CASE s = 0
        <3>1. closer' = [closer EXCEPT ![o] = Resting] /\ UNCHANGED closing
            BY <1>2, <2>5 DEF CloseSession_Pop
        <3>2. Resting \in Closer
            BY ConstantFacts DEF Resting, Closer
        <3>3. closer' \in [Closers -> Closer] /\ ClosersAreRight'
            BY <1>b, <3>1, <3>2 DEF ClosersAreRight, Resting
        <3>4. \A x \in Sids : loops'[x] # 0 =>
                    sidOf'[loops'[x]] = x /\ closing'[loops'[x]] = "no"
            BY <2>3, <3>1 DEF ManagerTypeOK
        <3>5. ManagerTypeOK'
            BY <2>3, <2>4, <3>3, <3>4, ManagerTypes
        <3> QED
            BY <1>a, <2>3, <3>1, <3>3, <3>5, SessionUnchanged DEF sessionVars
    <2>6. CASE s # 0
        <3>1. /\ closer' = [closer EXCEPT ![o].at = "close", ![o].ses = s]
              /\ closing' = [closing EXCEPT ![s] = "emit"]
            BY <1>2, <2>6 DEF CloseSession_Pop
        <3>2. sidOf[s] = closer[o].sid /\ closer[o].sid # NoSid
            BY <2>1, <2>6, ConstantFacts DEF ManagerTypeOK
        <3>3. SessionTypeOK'
            BY <2>2, <2>3, <2>6, <3>1, <3>2 DEF SessionTypeOK, Created
        <3>4. [closer[o] EXCEPT !.at = "close", !.ses = s] \in Closer
            BY <1>b, <2>2 DEF Closer
        <3>5. closer' = [closer EXCEPT ![o] = [closer[o] EXCEPT !.at = "close", !.ses = s]]
            BY <1>b, <3>1
        <3>6. closer' \in [Closers -> Closer]
            BY <1>b, <3>4, <3>5
        <3>7. /\ \A p \in Closers : p # o => closer'[p] = closer[p]
              /\ closer'[o].at = "close" /\ closer'[o].ses = s
            BY <1>b, <3>5 DEF Closer
        <3>8. \A t \in Session : closing[t] # "no" \/ t = s => closing'[t] # "no"
            BY <3>1 DEF SessionTypeOK
        <3>9. ClosersAreRight'
            BY <2>2, <2>6, <3>7, <3>8 DEF ClosersAreRight
        <3>10. \A x \in Sids : loops'[x] # 0 =>
                    sidOf'[loops'[x]] = x /\ closing'[loops'[x]] = "no"
            BY <2>2, <2>3, <2>6, <3>1, <3>2 DEF ManagerTypeOK, SessionTypeOK
        <3>11. ManagerTypeOK'
            BY <2>3, <2>4, <3>6, <3>10, ManagerTypes
        <3> QED
            BY <1>a, <3>3, <3>9, <3>11
    <2> QED
        BY <2>5, <2>6
<1>3. CASE o \in Sids /\ CloseSession_Ready(o)
    <2>1. CloseSession(o, o) /\ UNCHANGED <<sessionVars, loops, mapped, joining, victims,
                                           cleanup, stops, raced>>
        BY <1>3 DEF CloseSession_Ready
    <2>2. closer' \in [Closers -> Closer] /\ ClosersAreRight'
        BY <1>3, <2>1, CloseSessionTyped DEF sessionVars
    <2>3. ManagerTypeOK'
        BY <2>1, <2>2, LoopsUnchanged DEF ManagerTypeOK, sessionVars
    <2> QED
        BY <1>a, <2>1, <2>2, <2>3, SessionUnchanged
<1> QED
    BY <1>1, <1>2, <1>3 DEF Closing

\* ServerConversation.disconnect leaves all but the state as it was.
LEMMA HangupTyped ==
    ASSUME talk \in [Talk -> Talked], NEW gone, Hangup(gone)
    PROVE  /\ talk' \in [Talk -> Talked]
           /\ \A i \in Talk : /\ talk'[i].sid = talk[i].sid
                              /\ i \notin gone => talk'[i] = talk[i]
<1>1. ASSUME NEW i \in Talk
      PROVE  LET t == [talk[i] EXCEPT !.state = "gone"] IN
             t \in Talked /\ t.sid = talk[i].sid
    <2>1. talk[i] \in Talked
        OBVIOUS
    <2> QED
        BY <2>1 DEF Talked
<1> QED
    BY <1>1 DEF Hangup

\* A conversation that the cleanup task is to close.
LEMMA ReadyTyped ==
    ASSUME NEW x \in Sids
    PROVE  [Resting EXCEPT !.at = "ready", !.sid = x] \in Closer
<1>1. Resting \in Closer
    BY ConstantFacts DEF Resting, Closer
<1>2. ASSUME NEW c \in Closer
      PROVE  [c EXCEPT !.at = "ready", !.sid = x] \in Closer
    BY DEF Closer
<1> QED
    BY <1>1, <1>2

LEMMA CleanupTyped ==
    ASSUME TypeInv, Cleanup_Begin \/ Cleanup_End \/ Cleanup_Timeout
    PROVE  TypeInv'
<1> USE DEF TypeInv, TypeOK
<1>a. closer \in [Closers -> Closer] /\ Resting \in Closer
    BY ConstantFacts DEF ManagerTypeOK, Resting, Closer
<1>1. CASE Cleanup_Begin
    <2>1. /\ UNCHANGED <<sidOf, stage, runtime, controller, closing, age, gaveUp, loops,
                         mapped, joining, victims, stops, raced, active, holder, using>>
          /\ Hangup(Leftover)
        BY <1>1 DEF Cleanup_Begin
    <2>2. SessionTypeOK'
        BY <2>1 DEF Hangup, SessionTypeOK, Created
    <2>3. TalkTypeOK'
        <3>1. talk' \in [Talk -> Talked]
            BY <2>1, HangupTyped DEF TalkTypeOK
        <3>2. detached' \in [Sids -> 0..MaxTalk]
            <4>1. 0 \in 0..MaxTalk
                BY ConstantFacts
            <4> QED
                BY <1>1, <4>1 DEF Cleanup_Begin
        <3> QED
            BY <2>1, <3>1, <3>2 DEF TalkTypeOK
    <2>4. Stale \subseteq Sids
        BY DEF Stale, Running
    <2>5. \A x \in Sids : [Resting EXCEPT !.at = "ready", !.sid = x] \in Closer
        BY ReadyTyped
    <2>6. closer' \in [Closers -> Closer]
        <3>1. closer' = [o \in Closers |->
                  IF o \in Stale THEN [Resting EXCEPT !.at = "ready", !.sid = o]
                  ELSE closer[o]]
            BY <1>1 DEF Cleanup_Begin
        <3> QED
            BY <1>a, <2>4, <2>5, <3>1
    <2>7. ClosersAreRight'
        BY <1>1, <2>1, <2>4 DEF Cleanup_Begin, ClosersAreRight, Resting
    <2>8. cleanup' \in {"idle", "closing"}
        BY <1>1 DEF Cleanup_Begin
    <2>9. ManagerTypeOK'
        BY <2>1, <2>6, <2>8, LoopsUnchanged DEF ManagerTypeOK
    <2> QED
        BY <2>2, <2>3, <2>7, <2>9
<1>2. CASE Cleanup_End
    <2>1. UNCHANGED <<sessionVars, talkVars, loops, mapped, joining, victims, stops, raced>>
        BY <1>2 DEF Cleanup_End
    <2>2. closer' \in [Closers -> Closer] /\ cleanup' \in {"idle", "closing"}
        BY <1>2, <1>a DEF Cleanup_End
    <2>3. ClosersAreRight'
        BY <1>2, <2>1 DEF Cleanup_End, ClosersAreRight, Resting, sessionVars
    <2>4. ManagerTypeOK'
        BY <2>1, <2>2, LoopsUnchanged DEF ManagerTypeOK, sessionVars
    <2> QED
        BY <2>1, <2>3, <2>4, SessionUnchanged, TalkUnchanged
<1>3. CASE Cleanup_Timeout
    <2> DEFINE cut == {closer[x].ses : x \in {y \in Sids : closer[y].at = "close"}}
    <2>1. /\ UNCHANGED <<sidOf, stage, runtime, controller, stream, unheard, age, gaveUp,
                         talkVars, loops, mapped, joining, victims, stops, raced>>
          /\ closing' = [s \in Session |->
                IF s \in cut /\ ~Ended(s) THEN "cut" ELSE closing[s]]
        BY <1>3 DEF Cleanup_Timeout
    <2>2. \A s \in cut : closing[s] # "no"
        BY ConstantFacts DEF ClosersAreRight
    <2>3. \A s \in Session : closing[s] = "no" <=> closing'[s] = "no"
        BY <2>1, <2>2
    <2>4. SessionTypeOK'
        <3>1. closing' \in [Session -> {"no", "emit", "waiting", "stream", "done",
                                        "failed", "cut"}]
            BY <2>1 DEF SessionTypeOK
        <3> QED
            BY <2>1, <2>3, <3>1 DEF SessionTypeOK, Created
    <2>5. closer' \in [Closers -> Closer] /\ cleanup' \in {"idle", "closing"}
        BY <1>3, <1>a DEF Cleanup_Timeout
    <2>6. ClosersAreRight'
        BY <1>3, <2>3 DEF Cleanup_Timeout, ClosersAreRight, Resting
    <2>7. \A x \in Sids : loops'[x] # 0 =>
                sidOf'[loops'[x]] = x /\ closing'[loops'[x]] = "no"
        <3>1. \A x \in Sids : loops[x] # 0 => loops[x] \in Session
            BY ConstantFacts DEF ManagerTypeOK, Session
        <3> QED
            BY <2>1, <2>3, <3>1 DEF ManagerTypeOK
    <2>8. ManagerTypeOK'
        BY <2>1, <2>5, <2>7 DEF ManagerTypeOK
    <2> QED
        BY <2>1, <2>4, <2>6, <2>8, TalkUnchanged
<1> QED
    BY <1>1, <1>2, <1>3

LEMMA AttachTyped ==
    ASSUME TypeInv, NEW r \in Requests,
           (\E x \in Sids : Attach_Reuse(r, x) \/ Attach_New(r, x))
              \/ Connecting(r) \/ Detach(r)
    PROVE  TypeInv'
<1> USE DEF TypeInv, TypeOK
<1>a. MaxTalk \in Nat /\ Talk = 1..MaxTalk
    BY ConstantFacts DEF Talk
<1>1. ASSUME UNCHANGED <<sessionVars, managerVars>>, TalkTypeOK' PROVE TypeInv'
    BY <1>1, SessionUnchanged, ManagerUnchanged DEF sessionVars
<1>2. ASSUME NEW x \in Sids, Attach_Reuse(r, x) PROVE TypeInv'
    <2>1. TalkTypeOK'
        BY <1>2 DEF Attach_Reuse, TalkTypeOK
    <2> QED
        BY <1>1, <1>2, <2>1 DEF Attach_Reuse
<1>3. ASSUME NEW x \in Sids, Attach_New(r, x) PROVE TypeInv'
    <2> DEFINE shared == loops[x] # 0 /\ runtime[loops[x]] # "none"
               new == [sid |-> x, stream |-> loops[x], shared |-> shared,
                       state |-> IF shared THEN "open" ELSE "connecting"]
    <2>1. PICK i \in Talk :
              /\ talk' = [talk EXCEPT ![i] = new]
              /\ using' = [using EXCEPT ![r] = i]
              /\ \/ active' = [active EXCEPT ![x] = [talk |-> i, count |-> 1]]
                    /\ UNCHANGED holder
                 \/ holder' = {r} /\ UNCHANGED active
        BY <1>3 DEF Attach_New
    <2>2. new \in Talked
        BY DEF Talked, ManagerTypeOK
    <2>3. talk' \in [Talk -> Talked]
        BY <2>1, <2>2 DEF TalkTypeOK
    <2>4. using' \in [Requests -> 0..MaxTalk] /\ holder' \subseteq Requests
        BY <1>a, <2>1 DEF TalkTypeOK
    <2>5. active' \in [Sids -> [talk : 0..MaxTalk, count : Nat]]
        <3>1. [talk |-> i, count |-> 1] \in [talk : 0..MaxTalk, count : Nat]
            BY <1>a
        <3> QED
            BY <2>1, <3>1 DEF TalkTypeOK
    <2>6. TalkTypeOK'
        BY <1>3, <2>3, <2>4, <2>5 DEF Attach_New, TalkTypeOK
    <2> QED
        BY <1>1, <1>3, <2>6 DEF Attach_New
<1>4. CASE Attach_Connected(r)
    <2> DEFINE i == using[r]
    <2>1. UNCHANGED <<detached, using>> /\ holder' \subseteq Requests
        BY <1>4 DEF Attach_Connected
    <2>2. talk' \in [Talk -> Talked]
        <3>1. \A j \in Talk : [talk[j] EXCEPT !.state = "open"] \in Talked
            BY DEF TalkTypeOK, Talked
        <3>2. talk' = [talk EXCEPT ![i].state = "open"]
            BY <1>4 DEF Attach_Connected
        <3>3. \A j \in Talk : talk'[j] \in {talk[j], [talk[j] EXCEPT !.state = "open"]}
            BY <3>2 DEF TalkTypeOK
        <3> QED
            BY <3>1, <3>2, <3>3 DEF TalkTypeOK
    <2>3. active' \in [Sids -> [talk : 0..MaxTalk, count : Nat]]
        <3>1. [talk |-> i, count |-> 1] \in [talk : 0..MaxTalk, count : Nat]
            BY <1>a DEF TalkTypeOK
        <3> QED
            BY <1>4, <3>1 DEF Attach_Connected, TalkTypeOK
    <2>4. TalkTypeOK'
        BY <2>1, <2>2, <2>3 DEF TalkTypeOK
    <2> QED
        BY <1>1, <1>4, <2>4 DEF Attach_Connected
<1>5. CASE Attach_Unavailable(r)
    <2>1. TalkTypeOK'
        <3>1. Hangup({using[r]}) /\ UNCHANGED <<active, detached>>
            BY <1>5 DEF Attach_Unavailable
        <3>2. talk' \in [Talk -> Talked]
            BY <3>1, HangupTyped DEF TalkTypeOK
        <3>3. using' \in [Requests -> 0..MaxTalk] /\ holder' \subseteq Requests
            BY <1>5, <1>a DEF Attach_Unavailable, TalkTypeOK
        <3> QED
            BY <3>1, <3>2, <3>3 DEF TalkTypeOK
    <2>2. SessionTypeOK'
        BY <1>5 DEF Attach_Unavailable, Hangup, SessionTypeOK, Created
    <2> QED
        BY <1>5, <2>1, <2>2, ManagerUnchanged DEF Attach_Unavailable
<1>6. CASE Detach(r)
    <2>1. TalkTypeOK'
        <3>1. UNCHANGED <<talk, holder>>
            BY <1>6 DEF Detach
        <3>2. using' \in [Requests -> 0..MaxTalk] /\ detached' \in [Sids -> 0..MaxTalk]
            BY <1>6, <1>a DEF Detach, TalkTypeOK
        <3>3. active' \in [Sids -> [talk : 0..MaxTalk, count : Nat]]
            <4> DEFINE x == talk[using[r]].sid
            <4>1. CASE active' = [active EXCEPT ![x] = [talk |-> 0, count |-> 0]]
                <5>1. [talk |-> 0, count |-> 0] \in [talk : 0..MaxTalk, count : Nat]
                    BY <1>a
                <5> QED
                    BY <4>1, <5>1 DEF TalkTypeOK
            <4>2. CASE active' = [active EXCEPT ![x].count = @ - 1] /\ ~IsLast(x)
                <5>1. CASE x \in Sids
                    <6>1. active[x].count - 1 \in Nat
                        <7>1. active[x] \in [talk : 0..MaxTalk, count : Nat]
                            BY <5>1 DEF TalkTypeOK
                        <7>2. active[x].count \in Nat
                            BY <7>1
                        <7> QED
                            BY <4>2, <7>2 DEF IsLast
                    <6>2. [active[x] EXCEPT !.count = @ - 1]
                              \in [talk : 0..MaxTalk, count : Nat]
                        BY <5>1, <6>1 DEF TalkTypeOK
                    <6> QED
                        BY <4>2, <5>1, <6>2 DEF TalkTypeOK
                <5>2. CASE x \notin Sids
                    BY <4>2, <5>2 DEF TalkTypeOK
                <5> QED
                    BY <5>1, <5>2
            <4>3. CASE active' = active
                BY <4>3 DEF TalkTypeOK
            <4> QED
                BY <1>6, <4>1, <4>2, <4>3 DEF Detach
        <3> QED
            BY <3>1, <3>2, <3>3 DEF TalkTypeOK
    <2> QED
        BY <1>1, <1>6, <2>1 DEF Detach
<1> QED
    BY <1>2, <1>3, <1>4, <1>5, <1>6 DEF Connecting

\* The steps of clients, of requests that stop and of the session itself.
LEMMA OtherTyped ==
    ASSUME TypeInv,
           \/ \E s \in Session : SessionStep(s) \/ CloseEnds(s) \/ ThreadStep(s)
           \/ \E c \in Clients : Disconnect(c) \/ Message(c)
           \/ \E x \in Sids : StopRequest(x)
    PROVE  TypeInv'
<1> USE DEF TypeInv, TypeOK
<1>a. closer \in [Closers -> Closer]
    BY DEF ManagerTypeOK
<1>1. ASSUME NEW s \in Session, SessionStep(s) \/ CloseEnds(s) \/ ThreadStep(s)
      PROVE  TypeInv'
    <2>1. SessionTypeOK'
        BY <1>1, SessionStepTyped DEF SessionStep, CloseEnds, ThreadStep
    <2>2. /\ UNCHANGED <<sidOf, managerVars, talkVars>>
          /\ \A t \in Session : closing[t] = "no" <=> closing'[t] = "no"
        <3>1. CASE SessionStep(s)
            BY <3>1 DEF SessionStep, Start, Start_Begin, Start_Fails, Start_Controller,
               Close, Close_Begin, Close_GiveUp, Close_Waited, TimePasses, SessionTypeOK
        <3>2. CASE CloseEnds(s)
            BY <3>2 DEF CloseEnds, Release, Release_Fails, SessionTypeOK
        <3>3. CASE ThreadStep(s)
            BY <3>3 DEF ThreadStep, Hear, AgentStops, SessionTypeOK
        <3> QED
            BY <1>1, <3>1, <3>2, <3>3
    <2> QED
        BY <2>1, <2>2, ManagerUnchanged, TalkUnchanged
<1>2. ASSUME NEW c \in Clients, Disconnect(c) PROVE TypeInv'
    <2>1. /\ mapped' = [mapped EXCEPT ![c] = NoSid] /\ closer' = Dropped(c)
          /\ UNCHANGED <<sessionVars, talkVars, loops, joining, victims, cleanup, stops, raced>>
        BY <1>2 DEF Disconnect
    <2>2. mapped' \in [Clients -> Sids \cup {NoSid}]
        BY <2>1 DEF ManagerTypeOK
    <2>3. ManagerTypeOK'
        BY <1>a, <2>1, <2>2, DroppedTyped, LoopsUnchanged DEF ManagerTypeOK, sessionVars
    <2>4. ClosersAreRight'
        BY <1>a, <2>1, DroppedTyped DEF ClosersAreRight, sessionVars
    <2> QED
        BY <2>1, <2>3, <2>4, SessionUnchanged, TalkUnchanged
<1>3. ASSUME NEW c \in Clients, Message(c) PROVE TypeInv'
    <2>1. UNCHANGED <<sidOf, stage, runtime, controller, stream, closing, age, gaveUp,
                      managerVars, talkVars>>
        BY <1>3 DEF Message
    <2>2. unheard' \in [Session -> Nat]
        <3>1. unheard \in [Session -> Nat]
            BY DEF SessionTypeOK
        <3>2. \A t \in Session : unheard[t] \in Nat /\ unheard[t] + 1 \in Nat
            BY <3>1
        <3>3. unheard' = [unheard EXCEPT ![loops[mapped[c]]] = @ + 1]
            BY <1>3 DEF Message
        <3>4. \A t \in Session : unheard'[t] \in {unheard[t], unheard[t] + 1}
            BY <3>1, <3>3
        <3> QED
            BY <3>1, <3>2, <3>3, <3>4
    <2>3. SessionTypeOK'
        BY <2>1, <2>2 DEF SessionTypeOK, Created
    <2> QED
        BY <2>1, <2>3, ManagerUnchanged, TalkUnchanged
<1>4. ASSUME NEW x \in Sids, StopRequest(x) PROVE TypeInv'
    <2>1. /\ CloseSession(Stopper, x) /\ stops < MaxStops /\ stops' = stops + 1
          /\ UNCHANGED <<sessionVars, talkVars, loops, mapped, joining, victims, cleanup, raced>>
        BY <1>4 DEF StopRequest
    <2>2. closer' \in [Closers -> Closer] /\ ClosersAreRight'
        BY <2>1, CloseSessionTyped, ConstantFacts DEF sessionVars
    <2>3. stops' \in 0..MaxStops
        BY <2>1, ConstantFacts DEF ManagerTypeOK
    <2>4. ManagerTypeOK'
        BY <2>1, <2>2, <2>3, LoopsUnchanged DEF ManagerTypeOK, sessionVars
    <2> QED
        BY <2>1, <2>2, <2>4, SessionUnchanged, TalkUnchanged
<1> QED
    BY <1>1, <1>2, <1>3, <1>4

LEMMA TypeStep == TypeInv /\ [Next]_vars => TypeInv'
<1> SUFFICES ASSUME TypeInv, [Next]_vars PROVE TypeInv'
    OBVIOUS
<1>1. CASE UNCHANGED vars
    BY <1>1, SessionUnchanged, ManagerUnchanged, TalkUnchanged
       DEF vars, sessionVars, TypeInv, TypeOK
<1>2. CASE Next
    BY <1>2, JoinTyped, ClosingTyped, CleanupTyped, AttachTyped, OtherTyped
       DEF Next, LoopStep
<1> QED
    BY <1>1, <1>2

\* Types are right, and a registered session is one of its conversation that
\* nobody closes (standalone_conversation_manager.py:300-384, 484-514).
THEOREM TypeCorrect == Spec => []TypeOK
<1>1. TypeInv => TypeOK
    BY DEF TypeInv
<1> QED
    BY InitTypeInv, TypeStep, <1>1, PTL DEF Spec

-----------------------------------------------------------------------------
(* What a session that has been closed leaves behind.                      *)

\* Unless close() gave up a start under way, start() has ended when the stream is
\* being closed, or will not begin; and what CloseReleases says.
Released(s) ==
    /\ closing[s] = "stream" \/ Ended(s) => gaveUp[s] \/ ~Starting(s)
    /\ Ended(s) =>
          /\ stream[s] = "closed"
          /\ \/ /\ runtime[s] # "open"
                /\ \/ controller[s] \in {"none", "closed"}
                   \/ controller[s] = "waiting" /\ gaveUp[s]
             \/ closing[s] = "failed" /\ controller[s] # "none"

AllReleased == \A s \in Session : Released(s)

\* The variables of a session but its sid and age.
Kept(s) == /\ closing'[s] = closing[s] /\ gaveUp'[s] = gaveUp[s]
           /\ stage'[s] = stage[s] /\ runtime'[s] = runtime[s]
           /\ controller'[s] = controller[s] /\ stream'[s] = stream[s]
           /\ unheard'[s] = unheard[s]

\* What session s does by itself, on the loop or in a thread.
OwnStep(s) == \/ Start(s) \/ Close(s) \/ Release(s) \/ Release_Fails(s)
              \/ Hear(s) \/ AgentStops(s) \/ TimePasses(s)

\* It leaves the other sessions alone.
LEMMA StepOfOne ==
    ASSUME SessionTypeOK, NEW s \in Session, NEW t \in Session, t # s, OwnStep(s)
    PROVE  Kept(t)
<1> USE DEF SessionTypeOK, Kept
<1>1. CASE Start(s)
    BY <1>1 DEF Start, Start_Begin, Start_Fails, Start_Controller
<1>2. CASE Close(s)
    BY <1>2 DEF Close, Close_Begin, Close_GiveUp, Close_Waited
<1>3. CASE Release(s) \/ Release_Fails(s)
    BY <1>3 DEF Release, Release_Fails, StreamClosed
<1>4. CASE Hear(s) \/ AgentStops(s) \/ TimePasses(s)
    BY <1>4 DEF Hear, AgentStops, TimePasses
<1> QED
    BY <1>1, <1>2, <1>3, <1>4 DEF OwnStep

\* start() that has not begun when the session is closed does not begin, close()
\* releases what start() made, and a closed stream lets nothing be heard.
LEMMA ReleasedOfOne ==
    ASSUME SessionTypeOK, NEW s \in Session, Released(s), OwnStep(s)
    PROVE  Released(s)'
<1> USE DEF SessionTypeOK, Released, Ended, Starting
<1>1. CASE Start_Begin(s)
    BY <1>1 DEF Start_Begin, Closed
<1>2. CASE Start_Fails(s)
    BY <1>2 DEF Start_Fails
<1>3. CASE Start_Controller(s)
    BY <1>3 DEF Start_Controller
<1>4. CASE Close_Begin(s)
    BY <1>4 DEF Close_Begin
<1>5. CASE Close_GiveUp(s)
    BY <1>5 DEF Close_GiveUp
<1>6. CASE Close_Waited(s)
    BY <1>6 DEF Close_Waited
<1>7. CASE Release(s)
    BY <1>7 DEF Release, StreamClosed, Submits
<1>8. CASE Release_Fails(s)
    BY <1>8 DEF Release_Fails, StreamClosed
<1>9. CASE Hear(s) \/ AgentStops(s)
    BY <1>9 DEF Hear, AgentStops
<1>10. CASE TimePasses(s)
    BY <1>10 DEF TimePasses
<1> QED
    BY <1>1, <1>2, <1>3, <1>4, <1>5, <1>6, <1>7, <1>8, <1>9, <1>10
       DEF OwnStep, Start, Close

\* What the manager does to a session: its closers begin a close or cut it off, a
\* ServerConversation closes its stream, and a message is published for one that
\* is registered.
LEMMA ManagerOnSessions ==
    ASSUME TypeInv, [Next]_vars, NEW t \in Session,
           \A s \in Session : ~OwnStep(s)
    PROVE  /\ UNCHANGED <<stage, runtime, gaveUp, controller>>
           /\ closing'[t] \in {closing[t], "emit", "cut"}
           /\ stream[t] = "closed" => stream'[t] = "closed"
           /\ unheard'[t] > unheard[t] => closing[t] = "no"
<1> USE DEF sessionVars
<1>a. closing \in [Session -> {"no", "emit", "waiting", "stream", "done", "failed", "cut"}]
      /\ unheard \in [Session -> Nat]
    BY DEF TypeInv, TypeOK, SessionTypeOK
<1>1. ASSUME NEW c \in Clients, Message(c)
      PROVE  /\ UNCHANGED <<stage, runtime, gaveUp, controller, closing, stream>>
             /\ unheard'[t] > unheard[t] => closing[t] = "no"
    <2> DEFINE s == loops[mapped[c]]
    <2>1. /\ unheard' = [unheard EXCEPT ![s] = @ + 1]
          /\ mapped[c] \in Sids /\ s # 0
          /\ UNCHANGED <<stage, runtime, gaveUp, controller, closing, stream>>
        BY <1>1 DEF Message, HasLoop, TypeInv, TypeOK, ManagerTypeOK
    <2>2. closing[s] = "no"
        BY <2>1 DEF TypeInv, TypeOK, ManagerTypeOK
    <2> HIDE DEF s
    <2>3. CASE t = s
        BY <2>1, <2>2, <2>3
    <2>4. CASE t # s
        BY <1>a, <2>1, <2>4
    <2> QED
        BY <2>1, <2>3, <2>4
<1>2. ASSUME NEW c \in Clients, Join(c) \/ Disconnect(c)
      PROVE  UNCHANGED <<stage, runtime, gaveUp, closing, controller, stream, unheard>>
    BY <1>2 DEF Join, Join_Running, Join_Starts, Join_Limit, Join_Evict,
                Join_StartsAfterwards, Join_Fails, Register, Disconnect
<1>3. ASSUME NEW o \in Closers, Closing(o)
      PROVE  /\ UNCHANGED <<stage, runtime, gaveUp, controller, stream, unheard>>
             /\ closing'[t] \in {closing[t], "emit"}
    BY <1>3, <1>a DEF Closing, CloseSession_Drop, CloseSession_Pop,
                      CloseSession_Ready
<1>4. CASE Cleanup_Timeout
    <2>1. UNCHANGED <<stage, runtime, gaveUp, controller, stream, unheard>>
        BY <1>4 DEF Cleanup_Timeout
    <2>2. closing'[t] \in {closing[t], "cut"}
        BY <1>4 DEF Cleanup_Timeout
    <2> QED
        BY <1>a, <2>1, <2>2
<1>5. CASE Cleanup_End \/ \E x \in Sids : StopRequest(x)
    BY <1>5, <1>a DEF Cleanup_End, StopRequest
<1>6. ASSUME NEW gone, Hangup(gone)
      PROVE  /\ stream[t] = "closed" => stream'[t] = "closed"
             /\ ~(unheard'[t] > unheard[t])
    BY <1>6, <1>a DEF Hangup
<1>7. CASE Cleanup_Begin
    BY <1>6, <1>7 DEF Cleanup_Begin
<1>8. ASSUME NEW r \in Requests,
             (\E x \in Sids : Attach_Reuse(r, x) \/ Attach_New(r, x))
                \/ Connecting(r) \/ Detach(r)
      PROVE  /\ UNCHANGED <<stage, runtime, gaveUp, controller, closing>>
             /\ stream[t] = "closed" => stream'[t] = "closed"
             /\ ~(unheard'[t] > unheard[t])
    <2>1. CASE Attach_Unavailable(r)
        BY <1>6, <2>1 DEF Attach_Unavailable
    <2>2. CASE ~Attach_Unavailable(r)
        BY <1>8, <1>a, <2>2 DEF Attach_Reuse, Attach_New, Connecting, Attach_Connected,
                                Detach
    <2> QED
        BY <2>1, <2>2
<1>9. CASE UNCHANGED vars
    BY <1>9, <1>a DEF vars
<1> QED
    BY <1>a, <1>1, <1>2, <1>3, <1>4, <1>5, <1>7, <1>8, <1>9
       DEF Next, LoopStep, SessionStep, CloseEnds, ThreadStep, OwnStep

LEMMA ReleasedStep == TypeInv /\ AllReleased /\ [Next]_vars => AllReleased'
<1> SUFFICES ASSUME TypeInv, AllReleased, [Next]_vars, NEW t \in Session
             PROVE  Released(t)'
    BY DEF AllReleased
<1>a. SessionTypeOK /\ Released(t)
    BY DEF TypeInv, TypeOK, AllReleased
<1>1. ASSUME NEW s \in Session, OwnStep(s) PROVE Released(t)'
    <2>1. CASE t = s
        BY <1>1, <1>a, <2>1, ReleasedOfOne
    <2>2. CASE t # s
        <3>1. Kept(t)
            BY <1>1, <1>a, <2>2, StepOfOne
        <3> QED
            BY <1>a, <3>1 DEF Kept, Released, Ended, Starting
    <2> QED
        BY <2>1, <2>2
<1>2. CASE \A s \in Session : ~OwnStep(s)
    <2>1. /\ UNCHANGED <<stage, runtime, gaveUp, controller>>
          /\ closing'[t] \in {closing[t], "emit", "cut"}
          /\ stream[t] = "closed" => stream'[t] = "closed"
        BY <1>2, ManagerOnSessions
    <2> QED
        BY <1>a, <2>1 DEF Released, Ended, Starting
<1> QED
    BY <1>1, <1>2

\* Whoever closes a session, and whenever start() fails or ends: when close() has
\* ended, nothing of the session is left open but a controller that start() made
\* after it was given up, or what a failing save of the state leaves behind
\* (agent_session.py:224-245).
THEOREM ClosedIsReleased == Spec => []CloseReleases
<1>1. Init => AllReleased
    BY DEF Init, SessionInit, AllReleased, Released, Ended
<1>2. AllReleased => CloseReleases
    BY DEF AllReleased, Released, CloseReleases
<1> QED
    BY InitTypeInv, TypeStep, <1>1, ReleasedStep, <1>2, PTL DEF Spec

\* Nothing is published for a session that is being closed, although start() may
\* still be making its controller and clients still be sending; and what was
\* published before does not set the agent running once close() has ended, for the
\* stream it is heard from is closed then (agent_session.py:191, 228, 239-243,
\* standalone_conversation_manager.py:352, 376).
THEOREM ClosedNeverRuns == Spec => NeverRunsAfterClose
<1>1. ASSUME TypeInv, AllReleased, [Next]_vars, NEW t \in Session
      PROVE  /\ unheard'[t] > unheard[t] => ~Closed(t)
             /\ controller[t] # "running" /\ controller'[t] = "running" => ~Ended(t)
    <2>a. SessionTypeOK /\ Released(t) /\ unheard[t] \in Nat
        BY <1>1 DEF TypeInv, TypeOK, AllReleased, SessionTypeOK
    <2>1. ASSUME NEW s \in Session, OwnStep(s), t # s
          PROVE  controller'[t] = controller[t] /\ unheard'[t] = unheard[t]
        BY <2>a, <2>1, StepOfOne DEF Kept
    <2>2. CASE Start_Controller(t)
        <3>1. controller'[t] = "waiting"
            BY <2>2, <2>a DEF Start_Controller, SessionTypeOK
        <3>2. Closed(t) => unheard'[t] = unheard[t]
            BY <2>2, <2>a DEF Start_Controller, MayGreet, SessionTypeOK
        <3> QED
            BY <2>a, <3>1, <3>2
    <2>3. CASE Hear(t)
        <3>1. unheard'[t] = unheard[t] - 1 /\ stream[t] = "open"
            BY <2>3, <2>a DEF Hear, SessionTypeOK
        <3> QED
            BY <2>a, <3>1 DEF Released
    <2>4. CASE Release(t) \/ Release_Fails(t)
        <3>1. unheard'[t] = 0 /\ (controller'[t] = "running" => controller[t] = "running")
            BY <2>4, <2>a DEF Release, Release_Fails, StreamClosed, SessionTypeOK
        <3> QED
            BY <2>a, <3>1
    <2>5. CASE \/ Start_Begin(t) \/ Start_Fails(t) \/ Close(t) \/ AgentStops(t)
               \/ TimePasses(t)
        <3>1. unheard' = unheard /\ (controller' = controller \/ controller'[t] = "waiting")
            BY <2>5, <2>a DEF Start_Begin, Start_Fails, Close, Close_Begin, Close_GiveUp,
               Close_Waited, AgentStops, TimePasses, SessionTypeOK
        <3> QED
            BY <2>a, <3>1
    <2>6. CASE \A s \in Session : ~OwnStep(s)
        BY <1>1, <2>6, ManagerOnSessions DEF Closed
    <2> QED
        BY <2>a, <2>1, <2>2, <2>3, <2>4, <2>5, <2>6 DEF OwnStep, Start
<1>2. TypeInv /\ AllReleased /\ [Next]_vars =>
        [\A s \in Session :
            /\ unheard'[s] > unheard[s] => ~Closed(s)
            /\ controller[s] # "running" /\ controller'[s] = "running" => ~Ended(s)]_vars
    BY <1>1
<1>3. Init => AllReleased
    BY DEF Init, SessionInit, AllReleased, Released, Ended
<1> QED
    BY InitTypeInv, TypeStep, ReleasedStep, <1>2, <1>3, PTL DEF Spec, NeverRunsAfterClose

-----------------------------------------------------------------------------
(* One session per conversation.                                           *)

\* The open session of a conversation is the registered one, and a join that
\* is suspended at the limit finds none registered when it goes on.
LoopsAreKnown ==
    /\ \A x \in Sids \ raced : \A s \in Open(x) : loops[x] = s
    /\ \A c \in Clients : joining[c] \in Sids \ raced => loops[joining[c]] = 0

LEMMA LoopsStep == TypeInv /\ LoopsAreKnown /\ [Next]_vars => LoopsAreKnown'
<1> SUFFICES ASSUME TypeInv, LoopsAreKnown, [Next]_vars PROVE LoopsAreKnown'
    OBVIOUS
<1>a. /\ loops \in [Sids -> 0..MaxSessions] /\ raced \subseteq Sids
      /\ joining \in [Clients -> Sids \cup {NoSid}] /\ NoSid \notin Sids
      /\ 0 \notin Session
    BY ConstantFacts DEF TypeInv, TypeOK, ManagerTypeOK, Session
<1>b. /\ sidOf \in [Session -> Sids \cup {NoSid}]
      /\ closing \in [Session -> {"no", "emit", "waiting", "stream", "done", "failed",
                                  "cut"}]
    BY DEF TypeInv, TypeOK, SessionTypeOK
<1>1. ASSUME UNCHANGED <<sidOf, loops, joining, raced>>,
             \A s \in Session : closing'[s] = "no" => closing[s] = "no"
      PROVE  LoopsAreKnown'
    BY <1>1 DEF LoopsAreKnown, Open
\* A join of client c makes a session of x when none is registered, or when
\* another join has overlapped it.
<1>2. ASSUME NEW c \in Clients, NEW x \in Sids, Register(x),
             raced' = raced \cup Races(c, x), x \in raced \/ loops[x] = 0,
             \A d \in Clients \ {c} : joining'[d] = joining[d], joining'[c] = NoSid
      PROVE  LoopsAreKnown'
    <2>1. PICK s \in Session : /\ sidOf' = [sidOf EXCEPT ![s] = x]
                               /\ loops' = [loops EXCEPT ![x] = s] /\ closing' = closing
        BY <1>2 DEF Register
    <2>2. ASSUME NEW y \in Sids \ raced', NEW t \in Open(y)' PROVE loops'[y] = t
        <3>1. y \notin raced
            BY <1>2
        <3>2. CASE t = s
            BY <1>a, <1>b, <2>1, <3>2 DEF Open
        <3>3. CASE t # s
            <4>1. t \in Open(y)
                BY <1>b, <2>1, <3>3 DEF Open
            <4>2. loops[y] = t /\ t \in Session
                BY <3>1, <4>1 DEF LoopsAreKnown, Open
            <4>3. y # x
                BY <1>2, <1>a, <3>1, <4>2
            <4> QED
                BY <1>a, <2>1, <4>2, <4>3
        <3> QED
            BY <3>2, <3>3
    <2>3. ASSUME NEW d \in Clients, joining'[d] \in Sids \ raced'
          PROVE  loops'[joining'[d]] = 0
        <3>1. d # c /\ joining'[d] = joining[d]
            BY <1>2, <1>a, <2>3
        <3>2. joining[d] # x
            BY <1>2, <2>3, <3>1 DEF Races
        <3>3. loops[joining[d]] = 0
            BY <1>2, <2>3, <3>1 DEF LoopsAreKnown
        <3> QED
            BY <1>a, <2>1, <2>3, <3>1, <3>2, <3>3
    <2> QED
        BY <2>2, <2>3 DEF LoopsAreKnown
<1>3. ASSUME NEW c \in Clients, Join(c) PROVE LoopsAreKnown'
    <2>1. ASSUME NEW x \in Sids, Join_Starts(c, x) PROVE LoopsAreKnown'
        <3>1. loops[x] = 0 /\ joining[c] = NoSid /\ UNCHANGED joining
            BY <2>1 DEF Join_Starts, HasLoop
        <3> QED
            BY <1>2, <2>1, <3>1 DEF Join_Starts
    <2>2. CASE Join_StartsAfterwards(c)
        <3>1. joining[c] \in Sids /\ (joining[c] \in raced \/ loops[joining[c]] = 0)
            BY <1>a, <2>2 DEF Join_StartsAfterwards, LoopsAreKnown
        <3>2. joining'[c] = NoSid /\ \A d \in Clients \ {c} : joining'[d] = joining[d]
            BY <1>a, <2>2 DEF Join_StartsAfterwards
        <3> QED
            BY <1>2, <2>2, <3>1, <3>2 DEF Join_StartsAfterwards
    <2>3. ASSUME NEW x \in Sids, Join_Limit(c, x) PROVE LoopsAreKnown'
        <3>1. /\ joining' = [joining EXCEPT ![c] = x] /\ loops[x] = 0
              /\ raced \subseteq raced' /\ UNCHANGED <<sidOf, closing, loops>>
            BY <2>3 DEF Join_Limit, HasLoop, sessionVars
        <3> QED
            BY <1>a, <3>1 DEF LoopsAreKnown, Open
    <2>4. ASSUME NEW x \in Sids, Join_Running(c, x) \/ Join_Evict(c, x)
          PROVE  LoopsAreKnown'
        BY <1>1, <2>4 DEF Join_Running, Join_Evict, sessionVars
    <2>5. CASE Join_Fails(c)
        <3>1. /\ joining' = [joining EXCEPT ![c] = NoSid]
              /\ UNCHANGED <<sidOf, closing, loops, raced>>
            BY <2>5 DEF Join_Fails, sessionVars
        <3> QED
            BY <1>a, <3>1 DEF LoopsAreKnown, Open
    <2> QED
        BY <1>3, <2>1, <2>2, <2>3, <2>4, <2>5 DEF Join
<1>4. ASSUME NEW o \in Closers, Closing(o) PROVE LoopsAreKnown'
    <2>1. CASE CloseSession_Pop(o)
        <3> DEFINE s == loops[closer[o].sid]
        <3>1. closer[o].sid \in Sids
            BY <2>1 DEF CloseSession_Pop, TypeInv, ClosersAreRight
        <3>2. loops' = [loops EXCEPT ![closer[o].sid] = 0] /\ UNCHANGED <<sidOf, joining, raced>>
            BY <2>1 DEF CloseSession_Pop
        <3>3. \A t \in Session : closing'[t] = "no" => closing[t] = "no" /\ t # s
            BY <1>a, <1>b, <2>1 DEF CloseSession_Pop
        <3>4. \A x \in Sids \ raced : Open(x)' \subseteq Open(x) \ {s}
            BY <3>2, <3>3 DEF Open
        <3>5. \A x \in Sids : loops'[x] = IF x = closer[o].sid THEN 0 ELSE loops[x]
            BY <1>a, <3>1, <3>2
        <3> QED
            BY <1>a, <3>2, <3>4, <3>5 DEF LoopsAreKnown
    <2>2. CASE ~CloseSession_Pop(o)
        BY <1>1, <1>4, <2>2 DEF Closing, CloseSession_Drop, CloseSession_Ready, sessionVars
    <2> QED
        BY <2>1, <2>2
<1>5. ASSUME NEW s \in Session, SessionStep(s) \/ CloseEnds(s) \/ ThreadStep(s)
      PROVE  LoopsAreKnown'
    <2>1. UNCHANGED <<sidOf, managerVars>>
          /\ \A t \in Session : closing'[t] = "no" => closing[t] = "no"
        <3>1. CASE SessionStep(s)
            BY <3>1, <1>b DEF SessionStep, Start, Start_Begin, Start_Fails,
               Start_Controller, Close, Close_Begin, Close_GiveUp, Close_Waited, TimePasses
        <3>2. CASE CloseEnds(s) \/ ThreadStep(s)
            BY <3>2, <1>b DEF CloseEnds, Release, Release_Fails, ThreadStep, Hear, AgentStops
        <3> QED
            BY <1>5, <3>1, <3>2
    <2> QED
        BY <1>1, <2>1 DEF managerVars
<1>6. CASE Cleanup_Timeout
    BY <1>1, <1>6 DEF Cleanup_Timeout
<1>7. CASE \/ Cleanup_Begin \/ Cleanup_End \/ \E x \in Sids : StopRequest(x)
           \/ \E c \in Clients : Disconnect(c) \/ Message(c)
    BY <1>1, <1>7 DEF Cleanup_Begin, Cleanup_End, StopRequest, Disconnect, Message,
       sessionVars, managerVars
<1>8. CASE \E r \in Requests : \/ \E x \in Sids : Attach_Reuse(r, x) \/ Attach_New(r, x)
                              \/ Connecting(r) \/ Detach(r)
    BY <1>1, <1>8 DEF Attach_Reuse, Attach_New, Connecting, Attach_Connected,
       Attach_Unavailable, Detach, sessionVars, managerVars
<1>9. CASE UNCHANGED vars
    BY <1>1, <1>9 DEF vars, sessionVars, managerVars
<1> QED
    BY <1>3, <1>4, <1>5, <1>6, <1>7, <1>8, <1>9 DEF Next, LoopStep

LEMMA InitLoops == Init => LoopsAreKnown
BY ConstantFacts DEF Init, SessionInit, LoopsAreKnown, Open

\* A conversation has one session that is not being closed, whatever joins,
\* stops and cleanups do, unless two joins of it overlapped at the limit
\* (standalone_conversation_manager.py:289-294, 352).
THEOREM OneLoop == Spec => []OneLoopUnlessRaced
<1>1. LoopsAreKnown => OneLoopUnlessRaced
    <2> SUFFICES ASSUME LoopsAreKnown, NEW x \in Sids \ raced
                 PROVE  Cardinality(Open(x)) <= 1
        BY DEF OneLoopUnlessRaced
    <2>1. Open(x) \subseteq {loops[x]}
        BY DEF LoopsAreKnown
    <2>2. IsFiniteSet({loops[x]}) /\ Cardinality({loops[x]}) = 1
        BY FS_Singleton
    <2>3. Cardinality(Open(x)) <= Cardinality({loops[x]})
        BY <2>1, <2>2, FS_Subset
    <2> QED
        BY <2>2, <2>3
<1> QED
    BY InitTypeInv, InitLoops, TypeStep, LoopsStep, <1>1, PTL DEF Spec

-----------------------------------------------------------------------------
(* Requests and the ServerConversations they use.                          *)

\* Requests that have attached to a ServerConversation of x.
Users(x) == {r \in Requests \ holder : using[r] # 0 /\ talk[using[r]].sid = x}

\* The count of an active ServerConversation is the number of its users.
ActiveIsCounted ==
    \A x \in Sids :
        IF active[x].talk = 0
        THEN active[x].count = 0 /\ Users(x) = {}
        ELSE /\ talk[active[x].talk].sid = x /\ talk[active[x].talk].state = "open"
             /\ active[x].count = Cardinality(Users(x))
             /\ \A r \in Users(x) : using[r] = active[x].talk

\* A detached one is open, and nobody's.
DetachedIsOpen ==
    \A x \in Sids : detached[x] # 0 =>
        /\ active[x].talk = 0
        /\ talk[detached[x]].sid = x /\ talk[detached[x]].state = "open"

\* The request that holds the lock is alone with the one it connects.
HolderIsAlone ==
    /\ \A r \in Requests : using[r] # 0 => talk[using[r]].sid \in Sids
    /\ \A r \in holder :
          /\ holder = {r} /\ using[r] # 0
          /\ talk[using[r]].state = "connecting"
          /\ active[talk[using[r]].sid].talk = 0
          /\ detached[talk[using[r]].sid] = 0

AttachInv == ActiveIsCounted /\ DetachedIsOpen /\ HolderIsAlone

LEMMA AttachInvImplies == AttachInv => UsedIsOpen
<1> SUFFICES ASSUME AttachInv, NEW r \in Requests \ holder, using[r] # 0
             PROVE  talk[using[r]].state = "open"
    BY DEF UsedIsOpen
<1> DEFINE x == talk[using[r]].sid
<1>1. x \in Sids /\ r \in Users(x)
    BY DEF AttachInv, HolderIsAlone, Users
<1>2. active[x].talk # 0
    BY <1>1 DEF AttachInv, ActiveIsCounted
<1>3. using[r] = active[x].talk /\ talk[active[x].talk].state = "open"
    BY <1>1, <1>2 DEF AttachInv, ActiveIsCounted
<1> QED
    BY <1>3

LEMMA InitAttach == Init => AttachInv
<1> SUFFICES ASSUME Init PROVE AttachInv
    OBVIOUS
<1>1. \A x \in Sids : /\ active[x].talk = 0 /\ active[x].count = 0
                      /\ detached[x] = 0 /\ Users(x) = {}
    BY DEF Init, Users
<1>2. ActiveIsCounted
    BY <1>1 DEF ActiveIsCounted
<1>3. DetachedIsOpen /\ HolderIsAlone
    BY <1>1 DEF Init, DetachedIsOpen, HolderIsAlone
<1> QED
    BY <1>2, <1>3 DEF AttachInv

\* Sets of users are finite; how their size moves.
LEMMA UsersCount ==
    ASSUME NEW S \in SUBSET Requests, NEW r \in Requests
    PROVE  /\ Cardinality(S) \in Nat
           /\ r \notin S => Cardinality(S \cup {r}) = Cardinality(S) + 1
           /\ r \in S => Cardinality(S \ {r}) = Cardinality(S) - 1
           /\ r \in S /\ Cardinality(S) <= 1 => S = {r}
           /\ Cardinality({}) = 0 /\ Cardinality({r}) = 1
<1>1. IsFiniteSet(Requests)
    BY ManagerAssumption
<1>2. IsFiniteSet(S)
    BY <1>1, FS_Subset
<1>3. Cardinality(S) \in Nat
    BY <1>2, FS_CardinalityType
<1>4. r \notin S => Cardinality(S \cup {r}) = Cardinality(S) + 1
    BY <1>2, FS_AddElement
<1>5. r \in S => Cardinality(S \ {r}) = Cardinality(S) - 1
    BY <1>2, FS_RemoveElement
<1>6. ASSUME r \in S, Cardinality(S) <= 1 PROVE S = {r}
    <2>1. IsFiniteSet(S \ {r}) /\ Cardinality(S \ {r}) \in Nat
        BY <1>2, FS_RemoveElement, FS_CardinalityType
    <2>2. Cardinality(S \ {r}) = 0
        BY <1>3, <1>5, <1>6, <2>1
    <2>3. S \ {r} = {}
        BY <2>1, <2>2, FS_EmptySet
    <2> QED
        BY <1>6, <2>3
<1> QED
    BY <1>3, <1>4, <1>5, <1>6, FS_EmptySet, FS_Singleton

\* Steps that leave ServerConversations alone.
LEMMA AttachUnchanged ==
    AttachInv /\ UNCHANGED talkVars => AttachInv'
BY DEF AttachInv, ActiveIsCounted, DetachedIsOpen, HolderIsAlone, Users, talkVars

\* Disconnecting ServerConversations that nobody uses, when nobody connects
\* any more.
LEMMA HangupStep ==
    ASSUME TypeInv, AttachInv, NEW gone, Hangup(gone), UNCHANGED active, holder' = {},
           \A r \in Requests : using'[r] = IF r \in holder THEN 0 ELSE using[r],
           \A x \in Sids : active[x].talk \notin gone,
           \A x \in Sids : detached'[x] # 0 =>
               detached'[x] = detached[x] /\ detached[x] \notin gone
    PROVE  AttachInv'
<1>1. /\ talk \in [Talk -> Talked]
      /\ \A x \in Sids : active[x].talk \in 0..MaxTalk /\ detached[x] \in 0..MaxTalk
      /\ \A r \in Requests : using[r] \in 0..MaxTalk
      /\ \A i \in 0..MaxTalk : i # 0 => i \in Talk
    BY ConstantFacts DEF TypeInv, TypeOK, TalkTypeOK, Talk
<1>2. \A i \in Talk : talk'[i].sid = talk[i].sid /\ (i \notin gone => talk'[i] = talk[i])
    BY <1>1, HangupTyped
<1>3. \A x \in Sids : Users(x)' = Users(x)
    <2> SUFFICES ASSUME NEW x \in Sids, NEW r \in Requests
                 PROVE  r \in Users(x)' <=> r \in Users(x)
        BY DEF Users
    <2> QED
        BY <1>1, <1>2 DEF Users
<1>4. ActiveIsCounted'
    <2> SUFFICES ASSUME NEW x \in Sids
                 PROVE  IF active[x].talk = 0
                        THEN active[x].count = 0 /\ Users(x) = {}
                        ELSE /\ talk'[active[x].talk].sid = x
                             /\ talk'[active[x].talk].state = "open"
                             /\ active[x].count = Cardinality(Users(x))
                             /\ \A r \in Users(x) : using'[r] = active[x].talk
        BY <1>3 DEF ActiveIsCounted
    <2>1. active[x].talk # 0 => talk'[active[x].talk] = talk[active[x].talk]
        BY <1>1, <1>2
    <2>2. \A r \in Users(x) : using'[r] = using[r]
        BY DEF Users
    <2> QED
        BY <2>1, <2>2 DEF AttachInv, ActiveIsCounted
<1>5. DetachedIsOpen'
    BY <1>1, <1>2 DEF AttachInv, DetachedIsOpen
<1>6. HolderIsAlone'
    BY <1>1, <1>2 DEF AttachInv, HolderIsAlone
<1> QED
    BY <1>4, <1>5, <1>6 DEF AttachInv

LEMMA CleanupAttach == ASSUME TypeInv, AttachInv, Cleanup_Begin PROVE AttachInv'
<1>1. /\ holder = {} /\ Hangup(Leftover) /\ detached' = [x \in Sids |-> 0]
      /\ UNCHANGED <<active, holder, using>>
    BY DEF Cleanup_Begin
<1>2. ASSUME NEW x \in Sids PROVE active[x].talk \notin Leftover
    <2> SUFFICES ASSUME NEW y \in Sids, detached[y] # 0, active[x].talk = detached[y]
                 PROVE  FALSE
        BY DEF Leftover
    <2>1. active[y].talk = 0 /\ talk[detached[y]].sid = y
        BY DEF AttachInv, DetachedIsOpen
    <2>2. talk[active[x].talk].sid = x
        BY DEF AttachInv, ActiveIsCounted
    <2> QED
        BY <2>1, <2>2
<1> QED
    BY <1>1, <1>2, HangupStep

LEMMA UnavailableAttach ==
    ASSUME TypeInv, AttachInv, NEW r \in Requests, Attach_Unavailable(r)
    PROVE  AttachInv'
<1>1. /\ r \in holder /\ holder' = {} /\ Hangup({using[r]})
      /\ using' = [using EXCEPT ![r] = 0] /\ UNCHANGED <<active, detached>>
    BY DEF Attach_Unavailable
<1>2. holder = {r} /\ using[r] # 0 /\ talk[using[r]].state = "connecting"
    BY <1>1 DEF AttachInv, HolderIsAlone
<1>3. \A q \in Requests : using'[q] = IF q \in holder THEN 0 ELSE using[q]
    BY <1>1, <1>2 DEF TypeInv, TypeOK, TalkTypeOK
<1>4. \A x \in Sids : active[x].talk # using[r] /\ (detached[x] # 0 => detached[x] # using[r])
    BY <1>2 DEF AttachInv, ActiveIsCounted, DetachedIsOpen
<1> QED
    BY <1>1, <1>3, <1>4, HangupStep

\* A request that begins to use the open ServerConversation i of x.
BeginsToUse(r, x, i) ==
    /\ r \in holder \/ using[r] = 0
    /\ r \notin Users(x) /\ holder \subseteq {r} /\ holder' = {}
    /\ using' = [using EXCEPT ![r] = i]
    /\ talk'[i].sid = x /\ talk'[i].state = "open"
    /\ \A j \in Talk : j # i \/ talk[j].state = "open" => talk'[j] = talk[j]
    /\ \A y \in Sids : active[y].talk # i \/ y = x
    /\ active[x].talk \in {0, i}
    /\ active' = [active EXCEPT ![x] = [talk |-> i, count |-> active[x].count + 1]]
    /\ \A y \in Sids : detached'[y] # 0 => detached'[y] = detached[y] /\ y # x

LEMMA UserAdded ==
    ASSUME TypeInv, AttachInv, NEW r \in Requests, NEW x \in Sids, NEW i \in Talk,
           BeginsToUse(r, x, i)
    PROVE  AttachInv'
<1> USE DEF BeginsToUse
<1>1. /\ talk \in [Talk -> Talked] /\ using \in [Requests -> 0..MaxTalk]
      /\ active \in [Sids -> [talk : 0..MaxTalk, count : Nat]]
      /\ detached \in [Sids -> 0..MaxTalk]
      /\ \A j \in 0..MaxTalk : j # 0 => j \in Talk
      /\ i # 0
    BY ConstantFacts DEF TypeInv, TypeOK, TalkTypeOK, Talk
<1>2. \A q \in Requests : using'[q] = IF q = r THEN i ELSE using[q]
    BY <1>1
<1>3. \A q \in Requests \ {r} : using[q] # 0 =>
          /\ q \notin holder /\ talk[using[q]].sid \in Sids
          /\ talk[using[q]].state = "open" /\ using[q] \in Talk
          /\ talk'[using'[q]] = talk[using[q]]
    <2> SUFFICES ASSUME NEW q \in Requests \ {r}, using[q] # 0
                 PROVE  /\ q \notin holder /\ talk[using[q]].sid \in Sids
                        /\ talk[using[q]].state = "open" /\ using[q] \in Talk
                        /\ talk'[using'[q]] = talk[using[q]]
        OBVIOUS
    <2>1. q \notin holder /\ talk[using[q]].sid \in Sids /\ using[q] \in Talk
        BY <1>1 DEF AttachInv, HolderIsAlone
    <2>2. talk[using[q]].state = "open"
        BY <2>1, AttachInvImplies DEF UsedIsOpen
    <2> QED
        BY <1>2, <2>1, <2>2
<1>4. Users(x)' = Users(x) \cup {r}
    <2> SUFFICES ASSUME NEW q \in Requests
                 PROVE  q \in Users(x)' <=> q \in Users(x) \/ q = r
        BY DEF Users
    <2>1. CASE q = r
        BY <1>1, <1>2, <2>1 DEF Users
    <2>2. CASE q # r
        BY <1>2, <1>3, <2>2 DEF Users
    <2> QED
        BY <2>1, <2>2
<1>5. \A y \in Sids \ {x} : Users(y)' = Users(y)
    <2> SUFFICES ASSUME NEW y \in Sids \ {x}, NEW q \in Requests
                 PROVE  q \in Users(y)' <=> q \in Users(y)
        BY DEF Users
    <2>1. CASE q = r
        BY <1>1, <1>2, <2>1 DEF Users
    <2>2. CASE q # r
        BY <1>2, <1>3, <2>2 DEF Users
    <2> QED
        BY <2>1, <2>2
<1>6. ActiveIsCounted'
    <2> SUFFICES ASSUME NEW y \in Sids
                 PROVE  IF active'[y].talk = 0
                        THEN active'[y].count = 0 /\ Users(y)' = {}
                        ELSE /\ talk'[active'[y].talk].sid = y
                             /\ talk'[active'[y].talk].state = "open"
                             /\ active'[y].count = Cardinality(Users(y)')
                             /\ \A q \in Users(y)' : using'[q] = active'[y].talk
        BY DEF ActiveIsCounted
    <2>1. CASE y = x
        <3>1. active'[x].talk = i /\ active'[x].count = active[x].count + 1
            BY <1>1
        <3>2. active[x].count = Cardinality(Users(x))
              /\ \A q \in Users(x) : using[q] = i
            <4>1. Cardinality({}) = 0
                BY FS_EmptySet
            <4>2. CASE active[x].talk = 0
                <5>1. active[x].count = 0 /\ Users(x) = {}
                    BY <4>2 DEF AttachInv, ActiveIsCounted
                <5> QED
                    BY <4>1, <5>1
            <4>3. CASE active[x].talk # 0
                <5>1. active[x].talk = i
                    BY <4>3
                <5> QED
                    BY <4>3, <5>1 DEF AttachInv, ActiveIsCounted
            <4> QED
                BY <4>2, <4>3
        <3>3. Users(x) \in SUBSET Requests
            BY DEF Users
        <3>4. active'[x].count = Cardinality(Users(x)')
            <4>1. Cardinality(Users(x) \cup {r}) = Cardinality(Users(x)) + 1
                BY <3>3, UsersCount
            <4> QED
                BY <1>4, <3>1, <3>2, <4>1
        <3>5. \A q \in Users(x)' : using'[q] = i
            BY <1>2, <1>4, <3>2, <3>3
        <3> QED
            BY <1>1, <2>1, <3>1, <3>4, <3>5
    <2>2. CASE y # x
        <3>1. active'[y] = active[y]
            BY <1>1, <2>2
        <3>2. active[y].talk # 0 => talk'[active[y].talk] = talk[active[y].talk]
            BY <1>1, <2>2 DEF AttachInv, ActiveIsCounted
        <3>3. \A q \in Users(y) : using'[q] = using[q]
            BY <1>2, <1>5, <2>2, <1>1 DEF Users
        <3> QED
            BY <1>5, <2>2, <3>1, <3>2, <3>3 DEF AttachInv, ActiveIsCounted
    <2> QED
        BY <2>1, <2>2
<1>7. DetachedIsOpen'
    <2> SUFFICES ASSUME NEW y \in Sids, detached'[y] # 0
                 PROVE  /\ active'[y].talk = 0
                        /\ talk'[detached'[y]].sid = y /\ talk'[detached'[y]].state = "open"
        BY DEF DetachedIsOpen
    <2>1. y # x /\ detached'[y] = detached[y] /\ active'[y] = active[y] /\ detached[y] \in Talk
        BY <1>1
    <2>2. talk'[detached[y]] = talk[detached[y]]
        BY <2>1 DEF AttachInv, DetachedIsOpen
    <2> QED
        BY <2>1, <2>2 DEF AttachInv, DetachedIsOpen
<1>8. HolderIsAlone'
    BY <1>2, <1>3 DEF HolderIsAlone
<1> QED
    BY <1>6, <1>7, <1>8 DEF AttachInv

LEMMA ReuseAttach ==
    ASSUME TypeInv, AttachInv, NEW r \in Requests, NEW x \in Sids, Attach_Reuse(r, x)
    PROVE  AttachInv'
<1>1. /\ talk \in [Talk -> Talked]
      /\ active \in [Sids -> [talk : 0..MaxTalk, count : Nat]]
      /\ detached \in [Sids -> 0..MaxTalk]
      /\ \A j \in 0..MaxTalk : j # 0 => j \in Talk
    BY ConstantFacts DEF TypeInv, TypeOK, TalkTypeOK, Talk
<1>2. PICK i \in Talk : i = IF active[x].talk # 0 THEN active[x].talk ELSE detached[x]
    BY <1>1 DEF Attach_Reuse
<1>3. /\ using[r] = 0 /\ holder = {} /\ holder' = {} /\ i # 0 /\ UNCHANGED talk
      /\ using' = [using EXCEPT ![r] = i]
      /\ active' = [active EXCEPT ![x] = [talk |-> i, count |-> @.count + 1]]
      /\ detached' = IF active[x].talk # 0 THEN detached ELSE [detached EXCEPT ![x] = 0]
    BY <1>2 DEF Attach_Reuse
<1>4. talk[i].sid = x /\ talk[i].state = "open"
    BY <1>2, <1>3 DEF AttachInv, ActiveIsCounted, DetachedIsOpen
<1>5. \A y \in Sids : active[y].talk # i \/ y = x
    BY <1>3, <1>4 DEF AttachInv, ActiveIsCounted
<1>6. \A y \in Sids : detached'[y] # 0 => detached'[y] = detached[y] /\ y # x
    <2>1. CASE active[x].talk # 0
        <3>1. detached' = detached /\ detached[x] = 0
            BY <1>3, <2>1 DEF AttachInv, DetachedIsOpen
        <3> QED
            BY <3>1
    <2>2. CASE active[x].talk = 0
        BY <1>1, <1>3, <2>2
    <2> QED
        BY <2>1, <2>2
<1>7. r \notin Users(x)
    BY <1>3 DEF Users
<1>8. active' = [active EXCEPT ![x] = [talk |-> i, count |-> active[x].count + 1]]
    BY <1>1, <1>3
<1>9. active[x].talk \in {0, i}
    BY <1>2
<1>10. talk'[i].sid = x /\ talk'[i].state = "open"
    BY <1>3, <1>4
<1>11. BeginsToUse(r, x, i)
    BY <1>3, <1>5, <1>6, <1>7, <1>8, <1>9, <1>10 DEF BeginsToUse
<1> QED
    BY <1>11, UserAdded

LEMMA ConnectedAttach ==
    ASSUME TypeInv, AttachInv, NEW r \in Requests, Attach_Connected(r)
    PROVE  AttachInv'
<1>1. /\ talk \in [Talk -> Talked] /\ using \in [Requests -> 0..MaxTalk]
      /\ active \in [Sids -> [talk : 0..MaxTalk, count : Nat]]
      /\ \A j \in 0..MaxTalk : j # 0 => j \in Talk
    BY ConstantFacts DEF TypeInv, TypeOK, TalkTypeOK, Talk
<1>a. /\ holder = {r} /\ using[r] # 0 /\ talk[using[r]].sid \in Sids
    BY DEF Attach_Connected, AttachInv, HolderIsAlone
<1>b. PICK i \in Talk : i = using[r]
    BY <1>1, <1>a
<1>c. PICK x \in Sids : x = talk[i].sid
    BY <1>a, <1>b
<1>2. /\ r \in holder /\ holder' = {} /\ talk' = [talk EXCEPT ![i].state = "open"]
      /\ active' = [active EXCEPT ![x] = [talk |-> i, count |-> 1]]
      /\ UNCHANGED <<detached, using>>
    BY <1>b, <1>c DEF Attach_Connected
<1>3. /\ holder = {r} /\ i # 0 /\ talk[i].state = "connecting" /\ x \in Sids
      /\ active[x].talk = 0 /\ detached[x] = 0
    BY <1>a, <1>b, <1>c DEF AttachInv, HolderIsAlone
<1>4. /\ talk'[i].sid = x /\ talk'[i].state = "open"
      /\ \A j \in Talk : j # i => talk'[j] = talk[j]
    <2>1. talk[i] \in Talked
        BY <1>1
    <2> QED
        BY <1>1, <1>2, <1>c, <2>1 DEF Talked
<1>5. \A j \in Talk : j # i \/ talk[j].state = "open" => talk'[j] = talk[j]
    BY <1>3, <1>4
<1>6. active[x].count = 0 /\ \A y \in Sids : active[y].talk # i
    BY <1>3 DEF AttachInv, ActiveIsCounted
<1>7. r \notin Users(x)
    BY <1>2 DEF Users
<1>8. using' = [using EXCEPT ![r] = i]
    BY <1>1, <1>2, <1>b
<1>9. active' = [active EXCEPT ![x] = [talk |-> i, count |-> active[x].count + 1]]
    BY <1>2, <1>6
<1>10. \A y \in Sids : detached'[y] # 0 => detached'[y] = detached[y] /\ y # x
    BY <1>2, <1>3
<1>11. /\ holder \subseteq {r} /\ (r \in holder \/ using[r] = 0)
       /\ active[x].talk \in {0, i} /\ holder' = {}
       /\ talk'[i].sid = x /\ talk'[i].state = "open"
       /\ \A y \in Sids : active[y].talk # i \/ y = x
    BY <1>2, <1>3, <1>4, <1>6
<1>12. BeginsToUse(r, x, i)
    BY <1>5, <1>7, <1>8, <1>9, <1>10, <1>11 DEF BeginsToUse
<1> QED
    BY <1>12, UserAdded

LEMMA NewAttach ==
    ASSUME TypeInv, AttachInv, NEW r \in Requests, NEW x \in Sids, Attach_New(r, x)
    PROVE  AttachInv'
<1> DEFINE shared == loops[x] # 0 /\ runtime[loops[x]] # "none"
           new == [sid |-> x, stream |-> loops[x], shared |-> shared,
                   state |-> IF shared THEN "open" ELSE "connecting"]
<1>1. /\ talk \in [Talk -> Talked] /\ using \in [Requests -> 0..MaxTalk]
      /\ active \in [Sids -> [talk : 0..MaxTalk, count : Nat]]
      /\ \A j \in 0..MaxTalk : j # 0 => j \in Talk
      /\ 0 \notin Talk
    BY ConstantFacts DEF TypeInv, TypeOK, TalkTypeOK, Talk
<1>2. /\ using[r] = 0 /\ holder = {} /\ active[x].talk = 0 /\ detached[x] = 0
      /\ UNCHANGED detached
    BY DEF Attach_New
<1>3. PICK i \in Talk :
          /\ talk[i].state = "none" /\ talk' = [talk EXCEPT ![i] = new]
          /\ using' = [using EXCEPT ![r] = i]
          /\ IF shared
             THEN /\ active' = [active EXCEPT ![x] = [talk |-> i, count |-> 1]]
                  /\ UNCHANGED holder
             ELSE holder' = {r} /\ UNCHANGED active
    BY DEF Attach_New
<1>4. /\ talk'[i].sid = x /\ talk'[i].state = (IF shared THEN "open" ELSE "connecting")
      /\ \A j \in Talk : j # i => talk'[j] = talk[j]
    BY <1>1, <1>3
<1>5. \A j \in Talk : j # i \/ talk[j].state = "open" => talk'[j] = talk[j]
    BY <1>3, <1>4
<1>6. active[x].count = 0 /\ \A y \in Sids : active[y].talk # i /\ detached[y] # i
    BY <1>1, <1>2, <1>3 DEF AttachInv, ActiveIsCounted, DetachedIsOpen
<1>7. r \notin Users(x)
    BY <1>2 DEF Users
<1>8. CASE shared
    <2>1. active' = [active EXCEPT ![x] = [talk |-> i, count |-> active[x].count + 1]]
        BY <1>3, <1>6, <1>8
    <2>2. holder' = {} /\ talk'[i].state = "open"
        BY <1>2, <1>3, <1>4, <1>8
    <2>3. \A y \in Sids : detached'[y] # 0 => detached'[y] = detached[y] /\ y # x
        BY <1>2
    <2>4. using' = [using EXCEPT ![r] = i] /\ talk'[i].sid = x
        BY <1>3, <1>4
    <2>5. /\ holder \subseteq {r} /\ (r \in holder \/ using[r] = 0)
          /\ active[x].talk \in {0, i}
          /\ \A y \in Sids : active[y].talk # i \/ y = x
        BY <1>2, <1>6
    <2> HIDE DEF new, shared
    <2> QED
        <3>1. BeginsToUse(r, x, i)
            BY <1>5, <1>7, <2>1, <2>2, <2>3, <2>4, <2>5 DEF BeginsToUse
        <3> QED
            BY <3>1, UserAdded
<1>9. CASE ~shared
    <2>1. holder' = {r} /\ active' = active
        BY <1>3, <1>9
    <2>2. \A q \in Requests : using'[q] = IF q = r THEN i ELSE using[q]
        BY <1>1, <1>3
    <2>3. \A q \in Requests \ {r} : using[q] # 0 =>
              using[q] # i /\ talk'[using'[q]] = talk[using[q]]
        <3> SUFFICES ASSUME NEW q \in Requests \ {r}, using[q] # 0
                     PROVE  using[q] # i /\ talk'[using'[q]] = talk[using[q]]
            OBVIOUS
        <3>1. using[q] \in Talk /\ talk[using[q]].state = "open"
            BY <1>1, <1>2, AttachInvImplies DEF UsedIsOpen
        <3> QED
            BY <1>3, <1>4, <2>2, <3>1
    <2>4. \A y \in Sids : Users(y)' = Users(y)
        <3> SUFFICES ASSUME NEW y \in Sids, NEW q \in Requests
                     PROVE  q \in Users(y)' <=> q \in Users(y)
            BY DEF Users
        <3> QED
            BY <1>2, <2>1, <2>2, <2>3 DEF Users
    <2>5. ActiveIsCounted'
        <3> SUFFICES ASSUME NEW y \in Sids
                     PROVE  IF active[y].talk = 0
                            THEN active[y].count = 0 /\ Users(y) = {}
                            ELSE /\ talk'[active[y].talk].sid = y
                                 /\ talk'[active[y].talk].state = "open"
                                 /\ active[y].count = Cardinality(Users(y))
                                 /\ \A q \in Users(y) : using'[q] = active[y].talk
            BY <2>1, <2>4 DEF ActiveIsCounted
        <3>1. active[y].talk # 0 => talk'[active[y].talk] = talk[active[y].talk]
            BY <1>1, <1>4, <1>6
        <3>2. \A q \in Users(y) : using'[q] = using[q]
            BY <1>2, <2>2 DEF Users
        <3> QED
            BY <3>1, <3>2 DEF AttachInv, ActiveIsCounted
    <2>6. DetachedIsOpen'
        <3>1. \A y \in Sids : detached[y] # 0 => detached[y] \in Talk
            BY <1>1 DEF TypeInv, TypeOK, TalkTypeOK
        <3> QED
            BY <1>2, <1>4, <1>6, <2>1, <3>1 DEF AttachInv, DetachedIsOpen
    <2>7. HolderIsAlone'
        <3>1. \A q \in Requests : using'[q] # 0 => talk'[using'[q]].sid \in Sids
            BY <1>4, <2>2, <2>3 DEF AttachInv, HolderIsAlone
        <3>2. using'[r] = i /\ i # 0
            BY <1>1, <2>2
        <3> QED
            BY <1>2, <1>4, <1>9, <2>1, <3>1, <3>2 DEF HolderIsAlone
    <2> QED
        BY <2>5, <2>6, <2>7 DEF AttachInv
<1> QED
    BY <1>8, <1>9

LEMMA DetachAttach ==
    ASSUME TypeInv, AttachInv, NEW r \in Requests, Detach(r)
    PROVE  AttachInv'
<1>1. /\ using \in [Requests -> 0..MaxTalk]
      /\ active \in [Sids -> [talk : 0..MaxTalk, count : Nat]]
      /\ detached \in [Sids -> 0..MaxTalk]
    BY DEF TypeInv, TypeOK, TalkTypeOK
<1>a. using[r] # 0 /\ talk[using[r]].sid \in Sids
    BY DEF Detach, AttachInv, HolderIsAlone
<1>b. PICK i \in 1..MaxTalk : i = using[r]
    BY <1>1, <1>a, ConstantFacts
<1>c. PICK x \in Sids : x = talk[i].sid
    BY <1>a, <1>b
<1>d. \A y \in Sids \ {x} : r \notin Users(y)
    BY <1>b, <1>c DEF Users
<1>2. /\ i # 0 /\ holder = {} /\ UNCHANGED <<talk, holder>>
      /\ using' = [using EXCEPT ![r] = 0]
      /\ IF active[x].talk = 0 THEN UNCHANGED <<active, detached>>
         ELSE IF active[x].count <= 1
         THEN /\ active' = [active EXCEPT ![x] = [talk |-> 0, count |-> 0]]
              /\ detached' = [detached EXCEPT ![x] = i]
         ELSE /\ active' = [active EXCEPT ![x].count = @ - 1]
              /\ UNCHANGED detached
    BY <1>b, <1>c, ConstantFacts DEF Detach, IsLast
<1>3. r \in Users(x)
    BY <1>2, <1>b, <1>c DEF Users
<1>4. /\ active[x].talk = i /\ talk[i].state = "open"
      /\ active[x].count = Cardinality(Users(x))
      /\ \A q \in Users(x) : using[q] = i
    <2>1. active[x].talk # 0
        BY <1>3 DEF AttachInv, ActiveIsCounted
    <2> QED
        BY <1>3, <1>b, <2>1 DEF AttachInv, ActiveIsCounted
<1>5. \A q \in Requests : using'[q] = IF q = r THEN 0 ELSE using[q]
    BY <1>1, <1>2
<1>6. Users(x)' = Users(x) \ {r} /\ \A y \in Sids \ {x} : Users(y)' = Users(y)
    <2>1. ASSUME NEW y \in Sids, NEW q \in Requests
          PROVE  q \in Users(y)' <=> q \in Users(y) /\ q # r
        BY <1>2, <1>5, <2>1 DEF Users
    <2>2. \A y \in Sids \ {x} : r \notin Users(y)
        BY <1>d
    <2>3. \A y \in Sids : Users(y) \subseteq Requests /\ Users(y)' \subseteq Requests
        BY DEF Users
    <2>4. \A y \in Sids : Users(y)' = Users(y) \ {r}
        BY <2>1, <2>3
    <2> QED
        BY <2>2, <2>4
<1>7. Users(x) \in SUBSET Requests
    BY DEF Users
<1>8. Cardinality(Users(x)) \in Nat
    BY <1>7, UsersCount
<1>9. \A y \in Sids \ {x} : active'[y] = active[y] /\ detached'[y] = detached[y]
    BY <1>1, <1>2, <1>3
<1>10. CASE active[x].count <= 1
    <2>1. /\ active'[x].talk = 0 /\ active'[x].count = 0 /\ detached'[x] = i
        BY <1>1, <1>2, <1>3, <1>4, <1>10
    <2>2. Users(x)' = {}
        <3>1. Users(x) = {r}
            <4>1. Cardinality(Users(x)) <= 1
                BY <1>4, <1>10
            <4>2. r \in Users(x) /\ Cardinality(Users(x)) <= 1 => Users(x) = {r}
                BY <1>7, UsersCount, Zenon
            <4> QED
                BY <1>3, <4>1, <4>2
        <3> QED
            BY <1>6, <3>1
    <2>3. ActiveIsCounted'
        <3> SUFFICES ASSUME NEW y \in Sids
                     PROVE  IF active'[y].talk = 0
                            THEN active'[y].count = 0 /\ Users(y)' = {}
                            ELSE /\ talk'[active'[y].talk].sid = y
                                 /\ talk'[active'[y].talk].state = "open"
                                 /\ active'[y].count = Cardinality(Users(y)')
                                 /\ \A q \in Users(y)' : using'[q] = active'[y].talk
            BY DEF ActiveIsCounted
        <3>1. CASE y = x
            BY <2>1, <2>2, <3>1
        <3>2. CASE y # x
            <4>1. \A q \in Users(y) : using'[q] = using[q]
                BY <1>5, <1>d, <3>2 DEF Users
            <4> QED
                BY <1>2, <1>6, <1>9, <3>2, <4>1 DEF AttachInv, ActiveIsCounted
        <3> QED
            BY <3>1, <3>2
    <2>4. DetachedIsOpen'
        BY <1>2, <1>4, <1>9, <1>c, <2>1 DEF AttachInv, DetachedIsOpen
    <2>5. HolderIsAlone'
        BY <1>2, <1>5 DEF AttachInv, HolderIsAlone
    <2> QED
        BY <2>3, <2>4, <2>5 DEF AttachInv
<1>11. CASE ~(active[x].count <= 1)
    <2>1. active'[x].talk = i /\ active'[x].count = active[x].count - 1 /\ UNCHANGED detached
        <3>1. active[x] \in [talk : 0..MaxTalk, count : Nat]
            BY <1>1, <1>3
        <3> QED
            BY <1>1, <1>2, <1>3, <1>4, <1>11, <3>1
    <2>2. Cardinality(Users(x)') = Cardinality(Users(x)) - 1
        BY <1>3, <1>6, <1>7, UsersCount
    <2>3. ActiveIsCounted'
        <3> SUFFICES ASSUME NEW y \in Sids
                     PROVE  IF active'[y].talk = 0
                            THEN active'[y].count = 0 /\ Users(y)' = {}
                            ELSE /\ talk'[active'[y].talk].sid = y
                                 /\ talk'[active'[y].talk].state = "open"
                                 /\ active'[y].count = Cardinality(Users(y)')
                                 /\ \A q \in Users(y)' : using'[q] = active'[y].talk
            BY DEF ActiveIsCounted
        <3>1. CASE y = x
            <4>1. \A q \in Users(x)' : using'[q] = i
                BY <1>4, <1>5, <1>6, <1>7
            <4> QED
                BY <1>2, <1>4, <1>c, <2>1, <2>2, <3>1, <4>1
        <3>2. CASE y # x
            <4>1. \A q \in Users(y) : using'[q] = using[q]
                BY <1>5, <1>d, <3>2 DEF Users
            <4> QED
                BY <1>2, <1>6, <1>9, <3>2, <4>1 DEF AttachInv, ActiveIsCounted
        <3> QED
            BY <3>1, <3>2
    <2>4. DetachedIsOpen'
        BY <1>2, <1>4, <1>9, <1>c, <2>1 DEF AttachInv, DetachedIsOpen
    <2>5. HolderIsAlone'
        BY <1>2, <1>5 DEF AttachInv, HolderIsAlone
    <2> QED
        BY <2>3, <2>4, <2>5 DEF AttachInv
<1> QED
    BY <1>10, <1>11

LEMMA AttachStep == TypeInv /\ AttachInv /\ [Next]_vars => AttachInv'
<1> SUFFICES ASSUME TypeInv, AttachInv, [Next]_vars PROVE AttachInv'
    OBVIOUS
<1>1. ASSUME NEW s \in Session, SessionStep(s) \/ CloseEnds(s) \/ ThreadStep(s)
      PROVE  AttachInv'
    BY <1>1, AttachUnchanged DEF SessionStep, CloseEnds, ThreadStep
<1>2. ASSUME NEW c \in Clients, Join(c) \/ Disconnect(c) \/ Message(c) PROVE AttachInv'
    BY <1>2, AttachUnchanged DEF Join, Join_Running, Join_Starts, Join_Limit, Join_Evict,
       Join_StartsAfterwards, Join_Fails, Disconnect, Message
<1>3. ASSUME NEW o \in Closers, Closing(o) PROVE AttachInv'
    BY <1>3, AttachUnchanged DEF Closing, CloseSession_Drop, CloseSession_Pop,
       CloseSession_Ready
<1>4. CASE Cleanup_End \/ Cleanup_Timeout \/ \E x \in Sids : StopRequest(x)
    BY <1>4, AttachUnchanged DEF Cleanup_End, Cleanup_Timeout, StopRequest
<1>5. ASSUME NEW r \in Requests,
             \/ \E x \in Sids : Attach_Reuse(r, x) \/ Attach_New(r, x)
             \/ Connecting(r) \/ Detach(r)
      PROVE  AttachInv'
    BY <1>5, ReuseAttach, NewAttach, ConnectedAttach, UnavailableAttach, DetachAttach
       DEF Connecting
<1>6. CASE UNCHANGED vars
    BY <1>6, AttachUnchanged DEF vars
<1> QED
    BY <1>1, <1>2, <1>3, <1>4, <1>5, <1>6, CleanupAttach DEF Next, LoopStep

\* A request keeps an open ServerConversation until it detaches, however many
\* requests there are (standalone_conversation_manager.py:98-106, 167-187).
THEOREM UsedStaysOpen == Spec => []UsedIsOpen
BY InitTypeInv, InitAttach, TypeStep, AttachStep, AttachInvImplies, PTL DEF Spec
=============================================================================
