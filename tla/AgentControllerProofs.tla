---------------------- MODULE AgentControllerProofs ----------------------
(***************************************************************************)
(* Proofs about AgentController, for any numbers of tool calls, messages,  *)
(* stops, failures and attempts and any iteration limit: types, that a     *)
(* stop keeps the LLM from being asked until the user writes, that a       *)
(* RUNNING agent is never left waiting, and that a call is executed only   *)
(* as the user approved it.                                                *)
(***************************************************************************)
EXTENDS AgentController, SequenceTheorems, TLAPS

\* What a user can ask for by a state change.
Asked == {"STOPPED"} \cup Decision

\* The argument of an event is a state exactly if the event asks for it, and
\* what is run is a tool call.
Proper == {e \in Event : /\ IF e.kind = "change" THEN e.arg \in Asked
                                                 ELSE e.arg \in Confirmation
                         /\ e.kind = "run" => e.call \in Calls}

\* What the agent's step ends with.
Emitted == {"run", "think", "say", "ask", "finish", "reject", "condense"}

\* An operation on a state has a state; what the agent emits is an action.
GoodOps == {o \in Ops : /\ o.op \in {"set", "publish", "write"} => o.arg \in AgentState
                        /\ o.ev \in Proper
                        /\ o.op = "emit" => o.ev.kind \in Emitted}

BusTypes ==
    /\ nextId \in Nat \ {0}
    /\ inC \in Seq(Sent) /\ inC \in Seq(Proper)
    /\ inR \in Seq(Sent) /\ inM \in Seq(Sent)
    /\ shown \in Sent \cup {NoAction}
    /\ shown # NoAction => shown \in Proper /\ shown.kind = "run"
    /\ wake \in BOOLEAN
    /\ forsaken \subseteq 1..(nextId - 1)

CtlTypes ==
    /\ agentState \in AgentState
    /\ pending \in Proper /\ pending.kind # "change"
    /\ iter \in Nat /\ maxIter \in Nat /\ hitLimit \in BOOLEAN
    /\ told \in AgentState /\ saved \in AgentState
    /\ results \in [Calls -> Nat] /\ plain \in BOOLEAN
    /\ used \in 0..MaxCalls

EnvTypes ==
    /\ statusErrs \in Nat /\ late \in Nat
    /\ msgs \in 0..MaxMsgs /\ stops \in 0..MaxStops /\ fails \in 0..MaxFails
    /\ running \in BOOLEAN
    /\ executed \in [Calls -> Nat]
    /\ approved \subseteq Calls /\ ruledOut \subseteq Calls
    /\ dropped \in BOOLEAN /\ unread \in BOOLEAN /\ halted \in BOOLEAN

\* The session's loop only reports errors.
SessOps == {o \in GoodOps :
              /\ o.op \in {"set", "clear", "announce", "publish", "pickle", "write"}
              /\ o.op = "set" => o.arg = "ERROR"}

\* What may bring the agent to the LLM, or takes a new event.
Starts(o) == o.op \in {"llm", "ensure running"} \/ (o.op = "set" /\ o.arg = "RUNNING")
Later == {o \in GoodOps : o.op \in {"announce", "publish", "pickle", "write", "step",
                                "step unless waiting", "emit"}}

Ctrl == todo["ctrl"]
TodoTypes ==
    /\ todo \in [Threads -> Seq(GoodOps)]
    /\ todo["sess"] \in Seq(SessOps)
    /\ Ctrl # <<>> => Tail(Ctrl) \in Seq(Later)

Types == BusTypes /\ CtlTypes /\ EnvTypes /\ TodoTypes

\* A stop clears the pending action before anything else is done.
StoppedIsClear ==
    agentState = "STOPPED" /\ pending # NoAction =>
        /\ Ctrl # <<>>
        /\ Head(Ctrl).op = "clear" \/ (Head(Ctrl).op # "llm" /\ Starts(Head(Ctrl)))
\* A step that has begun is not overtaken by a stop: only the controller's own
\* thread stops the agent.
AskingIsNotStopped == Doing("ctrl", "llm") => agentState # "STOPPED"

\* Since the stop was handled it is about to take effect, or the agent does not
\* run, nothing on the way makes it run, and there is no pending action whose
\* answer would.
HaltedIsQuiet ==
    halted => \/ Ctrl # <<>> /\ Head(Ctrl).op = "set" /\ Head(Ctrl).arg = "STOPPED"
              \/ /\ agentState # "RUNNING"
                 /\ Ctrl # <<>> => ~Starts(Head(Ctrl))
                 /\ pending = NoAction \/ Doing("ctrl", "clear")

StopInv == StoppedIsClear /\ AskingIsNotStopped /\ HaltedIsQuiet

IInv == Types /\ StopInv

-----------------------------------------------------------------------------
LEMMA Constructors ==
    /\ NoAction \in Proper
    /\ \A cause \in Nat \cup {NoId}, call \in 0..MaxCalls :
         /\ \A kind \in Kinds \ {"change", "run"}, arg \in Confirmation :
               NewEvent(kind, cause, call, arg) \in Proper
         /\ \A arg \in Asked : NewEvent("change", cause, call, arg) \in Proper
         /\ call \in Calls => \A arg \in Confirmation :
               NewEvent("run", cause, call, arg) \in Proper
<1>1. Confirmation \cap Asked = {} /\ Asked \subseteq AgentState
    BY DEF Confirmation, Asked, Decision, AgentState
<1>2. NoId \in Nat \cup {NoId} /\ NoCause \in Nat /\ NoCall \in 0..MaxCalls
    BY ConstantsAssumption DEF NoCause, NoCall
<1>3. ASSUME NEW kind \in Kinds \ {"change"}, NEW cause \in Nat \cup {NoId},
             NEW call \in 0..MaxCalls, NEW arg \in Confirmation,
             kind = "run" => call \in Calls
      PROVE  NewEvent(kind, cause, call, arg) \in Proper
    BY <1>1, <1>2, <1>3 DEF NewEvent, Proper, Event
<1>4. ASSUME NEW cause \in Nat \cup {NoId}, NEW call \in 0..MaxCalls, NEW arg \in Asked
      PROVE  NewEvent("change", cause, call, arg) \in Proper
    BY <1>1, <1>2 DEF NewEvent, Proper, Event, Kinds
<1>5. NoAction \in Proper
  <2>1. "null" \in Kinds \ {"change"} /\ "none" \in Confirmation
    BY DEF Kinds, Confirmation
  <2> QED
    BY <1>2, <1>3, <2>1 DEF NoAction
<1>6. "run" \in Kinds \ {"change"}
    BY DEF Kinds
<1> QED
    BY <1>3, <1>4, <1>5, <1>6

LEMMA Operations ==
    /\ \A name \in {"clear", "announce", "pickle", "ensure running", "step unless waiting",
                     "step", "llm", "react"} : Op(name, "none") \in GoodOps
    /\ \A new \in AgentState : \A name \in {"set", "publish", "write"} :
            Op(name, new) \in GoodOps
    /\ \A new \in Decision : Op("reissue", new) \in GoodOps
    /\ \A e \in Proper : OpOn("handle", e) \in GoodOps
    /\ \A e \in Proper : e.kind \in Emitted => OpOn("emit", e) \in GoodOps
<1> USE Constructors
<1>1. "none" \in Confirmation /\ Decision \subseteq AgentState /\ 0 \in 0..(Retries - 1)
    BY ConstantsAssumption DEF Confirmation, Decision, AgentState
<1>2. Proper \subseteq Event
    BY DEF Proper
<1> QED
    BY <1>1, <1>2 DEF GoodOps, Ops, Op, OpOn

LEMMA WithIdIsProper ==
    ASSUME NEW e \in Proper, nextId \in Nat \ {0}
    PROVE  /\ WithId(e) \in Proper
           /\ WithId(e).id = nextId /\ WithId(e).kind = e.kind
           /\ WithId(e).call = e.call
BY DEF WithId, Proper, Event

LEMMA Published ==
    ASSUME BusTypes, NEW e \in Proper, NEW R \in Seq(Sent), NEW M \in Seq(Sent),
           PublishTo(e, R, M), forsaken' \subseteq 1..nextId
    PROVE  BusTypes'
<1> DEFINE f == WithId(e)
<1>1. f \in Proper /\ f.id = nextId
    BY WithIdIsProper DEF BusTypes
<1>2. nextId' = nextId + 1 /\ nextId' \in Nat \ {0} /\ nextId' - 1 = nextId
    BY DEF PublishTo, BusTypes
<1>3. Sent \subseteq Sent' /\ f \in Sent'
    BY <1>1, <1>2 DEF Sent, Proper, BusTypes
<1>4. inC \in Seq(Sent') /\ R \in Seq(Sent') /\ M \in Seq(Sent')
    BY <1>3, SeqMonotonic DEF BusTypes
<1>5. inC' \in Seq(Sent') /\ inC' \in Seq(Proper)
    BY <1>1, <1>3, <1>4 DEF PublishTo, BusTypes
<1>6. inR' \in Seq(Sent') /\ inM' \in Seq(Sent')
    BY <1>3, <1>4 DEF PublishTo
<1>7. /\ shown' \in Sent' \cup {NoAction} /\ wake' \in BOOLEAN
      /\ shown' # NoAction => shown' \in Proper /\ shown'.kind = "run"
    BY <1>1, <1>3 DEF PublishTo
<1> QED
    BY <1>2, <1>5, <1>6, <1>7 DEF BusTypes

LEMMA ShortSequences ==
    ASSUME NEW S, NEW a \in S, NEW b \in S
    PROVE  <<>> \in Seq(S) /\ <<a>> \in Seq(S) /\ <<a, b>> \in Seq(S)
OBVIOUS

LEMMA Concatenations ==
    ASSUME NEW a \in GoodOps, NEW b \in GoodOps
    PROVE  /\ <<a>> \o <<>> \o <<b>> = <<a, b>>
           /\ <<>> \o <<a>> \o <<b>> = <<a, b>>
           /\ <<>> \o <<>> \o <<b>> = <<b>>
           /\ <<a>> \o <<b>> = <<a, b>>
           /\ <<>> \o <<b>> = <<b>>
           /\ <<b>> \o <<>> = <<b>>
<1> DEFINE s == <<a>>
           r == <<b>>
<1>1. s \in Seq(GoodOps) /\ r \in Seq(GoodOps)
    OBVIOUS
<1>2. s \o r = <<a, b>>
  <2>1. /\ s \o r \in Seq(GoodOps) /\ Len(s \o r) = 2
        /\ (s \o r)[1] = a /\ (s \o r)[2] = b
    BY <1>1, ConcatProperties
  <2>2. <<a, b>> \in Seq(GoodOps) /\ Len(<<a, b>>) = 2
    OBVIOUS
  <2>3. \A i \in 1..2 : (s \o r)[i] = <<a, b>>[i]
    BY <2>1
  <2> HIDE DEF s, r
  <2> QED
    BY <2>1, <2>2, <2>3, SeqEqual
<1>3. <<>> \o s = s /\ s \o <<>> = s /\ <<>> \o r = r /\ r \o <<>> = r
    BY <1>1, ConcatEmptySeq
<1>4. <<>> \o <<>> = <<>>
    BY ConcatEmptySeq, EmptySeq
<1> HIDE DEF s, r
<1>5. /\ s \o <<>> \o r = <<a, b>>
      /\ <<>> \o s \o r = <<a, b>>
      /\ <<>> \o <<>> \o r = r
    BY <1>2, <1>3, <1>4
<1> QED
    BY <1>2, <1>3, <1>5 DEF s, r

LEMMA PublishedInPlace ==
    ASSUME BusTypes, NEW e \in Proper, Publish(e), forsaken' = forsaken
    PROVE  BusTypes'
<1>1. forsaken' \subseteq 1..nextId
    BY DEF BusTypes
<1> QED
    BY <1>1, Published DEF Publish, BusTypes

LEMMA BusUntouched ==
    ASSUME BusTypes, UNCHANGED bus, forsaken' = forsaken
    PROVE  BusTypes'
BY DEF BusTypes, bus, inboxes, Sent

\* Operations put before the rest of a thread's work.
Fits(ops) == ops \in Seq(GoodOps) /\ (ops # <<>> => Tail(ops) \in Seq(Later))

LEMMA Fitting ==
    ASSUME NEW a \in GoodOps
    PROVE  Fits(<<>>) /\ Fits(<<a>>) /\ \A b \in Later : Fits(<<a, b>>)
<1>1. Fits(<<>>)
    BY DEF Fits
<1>2. Fits(<<a>>)
  <2>1. <<a>> \in Seq(GoodOps) /\ Tail(<<a>>) = <<>>
    OBVIOUS
  <2> QED
    BY <2>1 DEF Fits
<1>3. ASSUME NEW b \in Later PROVE Fits(<<a, b>>)
  <2>1. b \in GoodOps
    BY DEF Later
  <2>2. <<a, b>> \in Seq(GoodOps) /\ Tail(<<a, b>>) = <<b>>
    BY <2>1
  <2> QED
    BY <2>2 DEF Fits
<1> QED
    BY <1>1, <1>2, <1>3

LEMMA Prepended ==
    ASSUME NEW q \in Seq(Later), NEW ops, Fits(ops)
    PROVE  /\ ops \o q \in Seq(GoodOps)
           /\ ops \o q # <<>> => Tail(ops \o q) \in Seq(Later)
           /\ ops # <<>> => ops \o q # <<>> /\ Head(ops \o q) = Head(ops)
           /\ ops = <<>> => ops \o q = q
<1>1. q \in Seq(GoodOps)
    BY SeqMonotonic DEF Later
<1>2. ops \o q \in Seq(GoodOps)
    BY <1>1 DEF Fits
<1>3. CASE ops = <<>>
    BY <1>1, <1>2, <1>3
<1>4. CASE ops # <<>>
  <2>1. ops \o q # <<>> /\ Head(ops \o q) = Head(ops)
    BY <1>1, <1>4 DEF Fits
  <2>2. Tail(ops \o q) = Tail(ops) \o q
    BY <1>1, <1>4 DEF Fits
  <2> QED
    BY <1>2, <1>4, <2>1, <2>2 DEF Fits
<1> QED
    BY <1>3, <1>4

LEMMA CtrlGoesOn ==
    ASSUME TodoTypes, Ctrl # <<>>, NEW ops, Fits(ops), Then("ctrl", ops)
    PROVE  /\ TodoTypes'
           /\ ops # <<>> => Ctrl' # <<>> /\ Head(Ctrl') = Head(ops)
           /\ ops = <<>> => /\ Ctrl' = Tail(Ctrl)
                            /\ Ctrl' # <<>> => Head(Ctrl') \in Later
<1>1. Ctrl' = ops \o Tail(Ctrl) /\ todo'["sess"] = todo["sess"]
    BY DEF Then, Ctrl, TodoTypes, Threads
<1>2. Tail(Ctrl) \in Seq(Later)
    BY DEF TodoTypes
<1>3. /\ Ctrl' \in Seq(GoodOps)
      /\ Ctrl' # <<>> => Tail(Ctrl') \in Seq(Later)
      /\ ops # <<>> => Ctrl' # <<>> /\ Head(Ctrl') = Head(ops)
      /\ ops = <<>> => Ctrl' = Tail(Ctrl)
    BY <1>1, <1>2, Prepended
<1>4. todo' \in [Threads -> Seq(GoodOps)]
    BY <1>1, <1>3 DEF Then, TodoTypes, Ctrl, Threads
<1>5. TodoTypes'
    BY <1>1, <1>3, <1>4 DEF TodoTypes
<1>6. ops = <<>> => (Ctrl' # <<>> => Head(Ctrl') \in Later)
    <2>1. ops = <<>> => Ctrl' \in Seq(Later)
        BY <1>2, <1>3
    <2> QED
        BY <2>1
<1> QED
    BY <1>3, <1>5, <1>6

LEMMA SessGoesOn ==
    ASSUME TodoTypes, todo["sess"] # <<>>, NEW ops \in Seq(SessOps), Then("sess", ops)
    PROVE  TodoTypes' /\ Ctrl' = Ctrl
<1>1. Ctrl' = Ctrl /\ todo'["sess"] = ops \o Tail(todo["sess"])
    BY DEF Then, Ctrl, TodoTypes, Threads
<1>2. todo'["sess"] \in Seq(SessOps)
    BY <1>1 DEF TodoTypes
<1>3. todo'["sess"] \in Seq(GoodOps)
    BY <1>2, SeqMonotonic DEF SessOps
<1>4. todo' \in [Threads -> Seq(GoodOps)]
    BY <1>1, <1>3 DEF Then, TodoTypes, Ctrl, Threads
<1> QED
    BY <1>1, <1>2, <1>4 DEF TodoTypes, Ctrl

LEMMA HeadIsTyped ==
    ASSUME TodoTypes, NEW t \in Threads, todo[t] # <<>>
    PROVE  /\ Head(todo[t]) \in GoodOps
           /\ t = "sess" => Head(todo[t]) \in SessOps
BY DEF TodoTypes, Threads

LEMMA QuietStep ==
    ASSUME StopInv, TodoTypes, Ctrl # <<>>, NEW ops, Fits(ops), Then("ctrl", ops),
           ~Starts(Head(Ctrl)), Head(Ctrl).op # "clear",
           Head(Ctrl).op = "set" => Head(Ctrl).arg # "STOPPED",
           ops # <<>> => ~Starts(Head(ops)),
           UNCHANGED <<agentState, pending, halted>>
    PROVE  StopInv'
<1>1. Ctrl' # <<>> => ~Starts(Head(Ctrl'))
  <2>0. /\ ops # <<>> => Ctrl' # <<>> /\ Head(Ctrl') = Head(ops)
        /\ ops = <<>> => /\ Ctrl' = Tail(Ctrl)
                         /\ Ctrl' # <<>> => Head(Ctrl') \in Later
    BY CtrlGoesOn
  <2>1. CASE ops = <<>>
    <3>1. Ctrl' # <<>> => Head(Ctrl') \in Later
      BY <2>0, <2>1
    <3> QED
      BY <3>1 DEF Later, Starts
  <2>2. CASE ops # <<>>
    <3>1. Head(Ctrl') = Head(ops)
      BY <2>0, <2>2
    <3> QED
      BY <2>2, <3>1
  <2> QED
    BY <2>1, <2>2
<1>2. ~(agentState = "STOPPED" /\ pending # NoAction)
    BY DEF StopInv, StoppedIsClear
<1>3. halted => agentState # "RUNNING" /\ pending = NoAction
    BY DEF StopInv, HaltedIsQuiet, Doing, Ctrl
<1>4. ~Doing("ctrl", "llm")'
    BY <1>1 DEF Doing, Ctrl, Starts
<1> QED
    BY <1>1, <1>2, <1>3, <1>4 DEF StopInv, StoppedIsClear, AskingIsNotStopped, HaltedIsQuiet

LEMMA AskingStep ==
    ASSUME StopInv, Doing("ctrl", "llm"), UNCHANGED <<agentState, halted>>
    PROVE  StopInv'
<1>1. agentState # "STOPPED" /\ ~halted
    BY DEF StopInv, AskingIsNotStopped, HaltedIsQuiet, Doing, Ctrl, Starts
<1> QED
    BY <1>1 DEF StopInv, StoppedIsClear, AskingIsNotStopped, HaltedIsQuiet

\* A step of another thread that leaves the controller alone.
LEMMA OtherStep ==
    ASSUME StopInv, Ctrl' = Ctrl, UNCHANGED <<agentState, pending, halted>>
    PROVE  StopInv'
BY DEF StopInv, StoppedIsClear, AskingIsNotStopped, HaltedIsQuiet, Doing, Ctrl

-----------------------------------------------------------------------------
LEMMA InitIInv == Init => IInv
<1> SUFFICES ASSUME Init PROVE IInv
    OBVIOUS
<1>1. BusTypes
  <2>1. wake \in BOOLEAN
    BY DEF Init
  <2> QED
    BY <2>1 DEF Init, BusTypes
<1>2. CtlTypes
  <2>1. agentState \in AgentState /\ told \in AgentState /\ saved \in AgentState
    BY DEF Init, AgentState
  <2>2. pending \in Proper /\ pending.kind # "change"
    BY Constructors DEF Init, NoAction, NewEvent
  <2>3. iter \in Nat /\ maxIter \in Nat /\ results \in [Calls -> Nat] /\ used \in 0..MaxCalls
    BY ConstantsAssumption DEF Init
  <2>4. hitLimit \in BOOLEAN /\ plain \in BOOLEAN
    BY DEF Init
  <2> QED
    BY <2>1, <2>2, <2>3, <2>4 DEF CtlTypes
<1>3. EnvTypes
  <2>1. /\ statusErrs \in Nat /\ late \in Nat
        /\ msgs \in 0..MaxMsgs /\ stops \in 0..MaxStops /\ fails \in 0..MaxFails
        /\ executed \in [Calls -> Nat]
    BY ConstantsAssumption DEF Init
  <2>2. approved \subseteq Calls /\ ruledOut \subseteq Calls
    BY DEF Init
  <2>3. /\ running \in BOOLEAN /\ dropped \in BOOLEAN
        /\ unread \in BOOLEAN /\ halted \in BOOLEAN
    BY DEF Init
  <2> QED
    BY <2>1, <2>2, <2>3 DEF EnvTypes
<1>4. TodoTypes
    BY DEF Init, TodoTypes, Ctrl, Threads
<1>5. StopInv
    BY DEF Init, StopInv, StoppedIsClear, AskingIsNotStopped, HaltedIsQuiet, Doing
<1> QED
    BY <1>1, <1>2, <1>3, <1>4, <1>5 DEF IInv, Types

(* One lemma per action, or per group of like actions: each keeps IInv.    *)

\* The work of set_agent_state_to for a new state.
SetWork(new) == When(new # agentState,
                     When(new \in Halting, <<Op("clear", "none")>>)
                     \o When(new \in Decision, <<Op("reissue", new)>>)
                     \o <<Op("announce", "none")>>)

LEMMA SetWorks ==
    ASSUME NEW new \in AgentState
    PROVE  \/ SetWork(new) = <<>> /\ new = agentState
           \/ /\ new # agentState
              /\ \/ /\ SetWork(new) = <<Op("clear", "none"), Op("announce", "none")>>
                    /\ new \in Halting
                 \/ /\ SetWork(new) = <<Op("reissue", new), Op("announce", "none")>>
                    /\ new \in Decision
                 \/ /\ SetWork(new) = <<Op("announce", "none")>>
                    /\ new \notin Halting /\ new \notin Decision
<1> DEFINE ops == SetWork(new)
           clear == Op("clear", "none")
           announce == Op("announce", "none")
           reissue == Op("reissue", new)
<1>1. /\ clear \in GoodOps /\ announce \in GoodOps
      /\ new \in Decision => reissue \in GoodOps
    BY Operations
<1>2. CASE new = agentState
    BY <1>2 DEF When, SetWork
<1>3. CASE new # agentState /\ new \in Halting
  <2>1. ops = <<clear>> \o <<>> \o <<announce>>
    BY <1>3 DEF When, SetWork, Halting, Decision
  <2> HIDE DEF ops, clear, announce, reissue
  <2>2. ops = <<clear, announce>>
    BY <1>1, <2>1, Concatenations
  <2> QED
    BY <1>3, <2>2 DEF ops, clear, announce
<1>4. CASE new # agentState /\ new \in Decision
  <2>1. ops = <<>> \o <<reissue>> \o <<announce>>
    BY <1>4 DEF When, SetWork, Halting, Decision
  <2> HIDE DEF ops, clear, announce, reissue
  <2>2. ops = <<reissue, announce>>
    BY <1>1, <1>4, <2>1, Concatenations
  <2> QED
    BY <1>4, <2>2 DEF ops, reissue, announce
<1>5. CASE new # agentState /\ new \notin Halting /\ new \notin Decision
  <2>1. ops = <<>> \o <<>> \o <<announce>>
    BY <1>5 DEF When, SetWork
  <2> HIDE DEF ops, clear, announce, reissue
  <2>2. ops = <<announce>>
    BY <1>1, <2>1, Concatenations
  <2> QED
    BY <1>5, <2>2 DEF ops, announce
<1> QED
    BY <1>2, <1>3, <1>4, <1>5

LEMMA SetStateKeeps ==
    ASSUME IInv, NEW t \in Threads, SetState(t)
    PROVE  IInv'
<1> DEFINE new == Arg(t)
           ops == SetWork(new)
<1>0. Types /\ StopInv
    BY DEF IInv
<1>1. todo[t] # <<>> /\ Head(todo[t]) \in GoodOps /\ Head(todo[t]).op = "set"
    BY <1>0, HeadIsTyped DEF SetState, Doing, Types
<1>2. new \in AgentState /\ (t = "sess" => new = "ERROR")
    BY <1>0, <1>1, HeadIsTyped DEF GoodOps, SessOps, Arg, Types
<1>3. Then(t, ops) /\ agentState' = new /\ UNCHANGED <<pending, halted>>
    BY DEF SetState, SetWork
<1>4. /\ Op("clear", "none") \in GoodOps /\ Op("announce", "none") \in GoodOps
      /\ new \in Decision => Op("reissue", new) \in GoodOps
    BY Operations
<1>5. \/ ops = <<>> /\ new = agentState
      \/ /\ new # agentState
         /\ \/ ops = <<Op("clear", "none"), Op("announce", "none")>> /\ new \in Halting
            \/ ops = <<Op("reissue", new), Op("announce", "none")>> /\ new \in Decision
            \/ /\ ops = <<Op("announce", "none")>>
               /\ new \notin Halting /\ new \notin Decision
    BY <1>2, SetWorks
<1> HIDE DEF ops
<1>6. BusTypes' /\ ruledOut' \subseteq Calls
  <2>1. CASE UNCHANGED <<bus, ruledOut>>
    BY <1>0, <2>1, BusUntouched DEF Types, EnvTypes, SetState
  <2>2. CASE /\ Publish(NotExecuted)
             /\ ruledOut' = ruledOut \cup
                   {c \in Calls : new = "STOPPED" /\ pending.call = c}
    <3>1. NotExecuted \in Proper
      <4>1. pending.id \in Nat \cup {NoId} /\ pending.call \in 0..MaxCalls
        BY <1>0 DEF Types, CtlTypes, Proper, Event
      <4> QED
        BY <4>1, Constructors DEF NotExecuted, Kinds, Confirmation
    <3>2. BusTypes'
      BY <1>0, <2>2, <3>1, PublishedInPlace DEF SetState, Types
    <3> QED
      BY <1>0, <2>2, <3>2 DEF Types, EnvTypes
  <2> QED
    BY <2>1, <2>2 DEF SetState
<1>7. CtlTypes'
  <2>1. maxIter' \in Nat
    BY <1>0, ConstantsAssumption DEF SetState, Types, CtlTypes
  <2>2. hitLimit' \in BOOLEAN
    BY <1>0 DEF SetState, Types, CtlTypes
  <2> QED
    BY <1>0, <1>2, <1>3, <2>1, <2>2 DEF SetState, Types, CtlTypes, chron
<1>8. EnvTypes'
    BY <1>0, <1>6 DEF SetState, Types, EnvTypes, status, env, exec
<1>9. CASE t = "ctrl"
  <2>1. Fits(ops)
    <3>1. Op("announce", "none") \in Later
      BY <1>4 DEF Later, Op
    <3> QED
      BY <1>4, <1>5, <3>1, Fitting
  <2>2. TodoTypes'
    BY <1>0, <1>1, <1>3, <1>9, <2>1, CtrlGoesOn DEF Types, Ctrl
  <2>3. StopInv'
    <3>1. Ctrl # <<>> /\ Head(Ctrl).op = "set" /\ Head(Ctrl).arg = new
      BY <1>1, <1>9 DEF Ctrl, Arg
    <3>2. agentState = "STOPPED" /\ pending # NoAction => new = "RUNNING"
      BY <1>0, <3>1 DEF StopInv, StoppedIsClear, Starts
    <3>3. halted => \/ new = "STOPPED"
                    \/ agentState # "RUNNING" /\ new # "RUNNING" /\ pending = NoAction
      BY <1>0, <3>1 DEF StopInv, HaltedIsQuiet, Starts, Doing, Ctrl
    <3>4. CASE ops = <<>>
      <4>1. Ctrl' # <<>> => ~Starts(Head(Ctrl'))
        <5>1. Ctrl' # <<>> => Head(Ctrl') \in Later
          BY <1>0, <1>3, <1>9, <2>1, <3>1, <3>4, CtrlGoesOn DEF Types
        <5> QED
          BY <5>1 DEF Later, Starts
      <4>2. new = agentState /\ agentState' = agentState
        BY <1>3, <1>5, <3>4
      <4>3. halted => agentState # "RUNNING" /\ pending = NoAction
        BY <3>2, <3>3, <4>2
      <4>4. ~(agentState = "STOPPED" /\ pending # NoAction)
        BY <3>2, <4>2
      <4>5. ~Doing("ctrl", "llm")'
        BY <4>1 DEF Doing, Ctrl, Starts
      <4> QED
        BY <1>3, <4>1, <4>2, <4>3, <4>4, <4>5
        DEF StopInv, StoppedIsClear, AskingIsNotStopped, HaltedIsQuiet
    <3>5. CASE ops # <<>>
      <4>1. Ctrl' # <<>> /\ Head(Ctrl') = Head(ops)
        BY <1>0, <1>3, <1>9, <2>1, <3>1, <3>5, CtrlGoesOn DEF Types
      <4>2. /\ Head(Ctrl').op \in {"clear", "reissue", "announce"}
            /\ new \in Halting => Head(Ctrl').op = "clear"
        BY <1>5, <3>5, <4>1 DEF Op, Decision, Halting
      <4>3. ~Starts(Head(Ctrl')) /\ ~Doing("ctrl", "llm")'
        BY <4>2 DEF Starts, Doing, Ctrl
      <4>4. new = "STOPPED" => Doing("ctrl", "clear")'
        BY <4>1, <4>2 DEF Doing, Ctrl, Halting
      <4> QED
        BY <1>3, <3>3, <4>1, <4>2, <4>3, <4>4
        DEF StopInv, StoppedIsClear, AskingIsNotStopped, HaltedIsQuiet, Halting
    <3> QED
      BY <3>4, <3>5
  <2> QED
    BY <1>6, <1>7, <1>8, <2>2, <2>3 DEF IInv, Types
<1>10. CASE t = "sess"
  <2>1. new = "ERROR" /\ new \notin Decision
    BY <1>2, <1>10 DEF Decision
  <2>2. ops \in Seq(SessOps)
    <3>1. Op("clear", "none") \in SessOps /\ Op("announce", "none") \in SessOps
      BY <1>4 DEF SessOps, Op
    <3> QED
      BY <1>5, <2>1, <3>1, ShortSequences
  <2>3. TodoTypes' /\ Ctrl' = Ctrl
    BY <1>0, <1>1, <1>3, <1>10, <2>2, SessGoesOn DEF Types
  <2>4. StopInv'
    BY <1>0, <1>3, <2>1, <2>3
    DEF StopInv, StoppedIsClear, AskingIsNotStopped, HaltedIsQuiet, Doing, Ctrl
  <2> QED
    BY <1>6, <1>7, <1>8, <2>3, <2>4 DEF IInv, Types
<1> QED
    BY <1>9, <1>10 DEF Threads

LEMMA ClearPendingKeeps ==
    ASSUME IInv, NEW t \in Threads, ClearPending(t)
    PROVE  IInv'
<1>0. Types /\ StopInv
    BY DEF IInv
<1>1. todo[t] # <<>> /\ Head(todo[t]).op = "clear"
    BY DEF ClearPending, Doing
<1>2. Then(t, <<>>) /\ pending' = NoAction /\ UNCHANGED <<agentState, halted>>
    BY DEF ClearPending
<1>3. BusTypes'
    BY <1>0, BusUntouched DEF ClearPending, Types
<1>4. CtlTypes'
  <2>1. NoAction.kind # "change"
    BY DEF NoAction, NewEvent
  <2> QED
    BY <1>0, <2>1, Constructors DEF ClearPending, Types, CtlTypes, flags, chron
<1>5. EnvTypes'
  <2>1. dropped' \in BOOLEAN
    BY DEF ClearPending
  <2> QED
    BY <1>0, <2>1 DEF ClearPending, Types, EnvTypes, status, env, exec
<1>6. CASE t = "ctrl"
  <2>1. /\ TodoTypes'
        /\ Ctrl' # <<>> => Head(Ctrl') \in Later
    BY <1>0, <1>1, <1>2, <1>6, Operations, Fitting, CtrlGoesOn DEF Types, Ctrl
  <2>2. Ctrl' # <<>> => ~Starts(Head(Ctrl'))
    BY <2>1 DEF Later, Starts
  <2>3. halted => agentState # "RUNNING"
    BY <1>0, <1>1, <1>6 DEF StopInv, HaltedIsQuiet, Ctrl
  <2>4. StopInv'
    BY <1>2, <2>2, <2>3
    DEF StopInv, StoppedIsClear, AskingIsNotStopped, HaltedIsQuiet, Doing, Ctrl, Starts
  <2> QED
    BY <1>3, <1>4, <1>5, <2>1, <2>4 DEF IInv, Types
<1>7. CASE t = "sess"
  <2>1. TodoTypes' /\ Ctrl' = Ctrl
    BY <1>0, <1>1, <1>2, <1>7, SessGoesOn, EmptySeq DEF Types
  <2>2. StopInv'
    BY <1>0, <1>2, <2>1
    DEF StopInv, StoppedIsClear, AskingIsNotStopped, HaltedIsQuiet, Doing, Ctrl
  <2> QED
    BY <1>3, <1>4, <1>5, <2>1, <2>2 DEF IInv, Types
<1> QED
    BY <1>6, <1>7 DEF Threads

LEMMA ReissueKeeps ==
    ASSUME IInv, NEW t \in Threads, Reissue(t)
    PROVE  IInv'
<1> DEFINE arg == IF Arg(t) = "USER_CONFIRMED" THEN "confirmed" ELSE "rejected"
           decided == [pending EXCEPT !.arg = arg]
<1>0. Types /\ StopInv
    BY DEF IInv
<1>1. todo[t] # <<>> /\ Head(todo[t]).op = "reissue"
    BY DEF Reissue, Doing
<1>2. t = "ctrl"
    BY <1>0, <1>1, HeadIsTyped DEF Types, SessOps, Threads
<1>3. Then(t, <<>>) /\ UNCHANGED <<agentState, halted, forsaken>>
    BY DEF Reissue, hist
<1>4. decided \in Proper /\ decided.kind # "change"
  <2>1. arg \in Confirmation
    BY DEF Confirmation
  <2>2. pending \in Proper /\ pending.kind # "change"
    BY <1>0 DEF Types, CtlTypes
  <2> QED
    BY <2>1, <2>2 DEF Proper, Event
<1>5. BusTypes' /\ pending' \in Proper /\ pending'.kind # "change"
  <2>1. CASE pending = NoAction
    BY <1>0, <1>3, <2>1, BusUntouched DEF Reissue, Types, CtlTypes
  <2>2. CASE pending # NoAction
    <3>1. pending' = WithId(decided) /\ Publish(decided)
      BY <2>2 DEF Reissue
    <3>2. BusTypes'
      BY <1>0, <1>3, <1>4, <3>1, PublishedInPlace DEF Types
    <3> QED
      BY <1>0, <1>4, <3>1, <3>2, WithIdIsProper DEF Types, BusTypes
  <2> QED
    BY <2>1, <2>2
<1>6. CtlTypes'
    BY <1>0, <1>5 DEF Reissue, Types, CtlTypes, flags, chron
<1>7. EnvTypes'
    BY <1>0 DEF Reissue, Types, EnvTypes, status, env, exec, hist
<1>8. /\ TodoTypes'
      /\ Ctrl' # <<>> => Head(Ctrl') \in Later
    BY <1>0, <1>1, <1>2, <1>3, Operations, Fitting, CtrlGoesOn DEF Types, Ctrl
<1>9. StopInv'
  <2>1. Ctrl' # <<>> => ~Starts(Head(Ctrl'))
    BY <1>8 DEF Later, Starts
  <2>2. halted => agentState # "RUNNING" /\ pending = NoAction
    BY <1>0, <1>1, <1>2 DEF StopInv, HaltedIsQuiet, Ctrl, Doing
  <2>3. agentState = "STOPPED" => pending = NoAction
    BY <1>0, <1>1, <1>2 DEF StopInv, StoppedIsClear, Ctrl, Starts
  <2>4. pending = NoAction => pending' = NoAction
    BY DEF Reissue
  <2>5. ~Doing("ctrl", "llm")'
    BY <2>1 DEF Doing, Ctrl, Starts
  <2> QED
    BY <1>3, <2>1, <2>2, <2>3, <2>4, <2>5
    DEF StopInv, StoppedIsClear, AskingIsNotStopped, HaltedIsQuiet
<1> QED
    BY <1>5, <1>6, <1>7, <1>8, <1>9 DEF IInv, Types

\* A step of set_agent_state_to that only announces or saves.
LEMMA ThreadGoesOn ==
    ASSUME IInv, NEW t \in Threads, todo[t] # <<>>,
           Head(todo[t]).op \in {"announce", "publish", "pickle", "write"},
           NEW ops, Fits(ops), ops \in Seq(SessOps), Then(t, ops),
           ops # <<>> => ~Starts(Head(ops)),
           UNCHANGED <<agentState, pending, halted>>
    PROVE  TodoTypes' /\ StopInv'
<1>0. Types /\ StopInv
    BY DEF IInv
<1>1. CASE t = "ctrl"
  <2>1. /\ Ctrl # <<>> /\ ~Starts(Head(Ctrl)) /\ Head(Ctrl).op # "clear"
        /\ Head(Ctrl).op # "set"
    BY <1>1 DEF Ctrl, Starts
  <2> QED
    BY <1>0, <1>1, <2>1, QuietStep, CtrlGoesOn DEF Types
<1>2. CASE t = "sess"
    BY <1>0, <1>2, SessGoesOn, OtherStep DEF Types
<1> QED
    BY <1>1, <1>2 DEF Threads

LEMMA AnnounceKeeps ==
    ASSUME IInv, NEW t \in Threads,
           Announce(t) \/ PublishState(t) \/ PickleState(t) \/ WriteState(t)
    PROVE  IInv'
<1> DEFINE publish == Op("publish", agentState)
           pickle == Op("pickle", "none")
           write == Op("write", agentState)
<1>0. Types /\ StopInv /\ agentState \in AgentState
    BY DEF IInv, Types, CtlTypes
<1>1. /\ todo[t] # <<>>
      /\ Head(todo[t]).op \in {"announce", "publish", "pickle", "write"}
      /\ UNCHANGED <<agentState, pending, halted>>
    BY DEF Announce, PublishState, PickleState, WriteState, Doing, hist
<1>2. \A o \in {publish, pickle, write} : o \in SessOps /\ o \in Later /\ ~Starts(o)
  <2>1. publish \in GoodOps /\ pickle \in GoodOps /\ write \in GoodOps
    BY <1>0, Operations
  <2>2. publish.op = "publish" /\ pickle.op = "pickle" /\ write.op = "write"
    BY DEF Op
  <2> HIDE DEF publish, pickle, write
  <2> QED
    BY <2>1, <2>2 DEF SessOps, Later, Starts
<1>3. PICK ops \in {<<>>, <<publish, pickle>>, <<write>>} : Then(t, ops)
    BY DEF Announce, PublishState, PickleState, WriteState
<1>4. Fits(ops) /\ ops \in Seq(SessOps) /\ (ops # <<>> => ~Starts(Head(ops)))
  <2> HIDE DEF publish, pickle, write
  <2>1. publish \in GoodOps /\ pickle \in GoodOps /\ write \in GoodOps
    BY <1>2 DEF Later
  <2>2. Fits(ops)
    BY <1>2, <2>1, Fitting
  <2>3. ops \in Seq(SessOps)
    BY <1>2, ShortSequences
  <2>4. ops # <<>> => Head(ops) \in {publish, write}
    OBVIOUS
  <2> QED
    BY <1>2, <2>2, <2>3, <2>4
<1>5. TodoTypes' /\ StopInv'
    BY <1>1, <1>3, <1>4, ThreadGoesOn
<1>6. BusTypes'
  <2>1. wake' \in BOOLEAN
    BY <1>0 DEF Announce, PublishState, PickleState, WriteState, bus, Types, BusTypes
  <2> QED
    BY <1>0, <2>1
    DEF Announce, PublishState, PickleState, WriteState, bus, inboxes, hist,
        Types, BusTypes, Sent
<1>7. CtlTypes'
  <2>1. told' \in AgentState /\ saved' \in AgentState
    <3>1. Head(todo[t]).op \in {"publish", "write"} => Arg(t) \in AgentState
      BY <1>0, <1>1, HeadIsTyped DEF Types, GoodOps, Arg
    <3> QED
      BY <1>0, <3>1 DEF Announce, PublishState, PickleState, WriteState, Doing, Types, CtlTypes
  <2> QED
    BY <1>0, <2>1
    DEF Announce, PublishState, PickleState, WriteState, flags, chron, Types, CtlTypes
<1>8. EnvTypes'
    BY <1>0
    DEF Announce, PublishState, PickleState, WriteState, status, env, exec, hist,
        Types, EnvTypes
<1> QED
    BY <1>5, <1>6, <1>7, <1>8 DEF IInv, Types

-----------------------------------------------------------------------------
LEMMA OnEventKeeps ==
    ASSUME IInv, OnEvent
    PROVE  IInv'
<1> DEFINE o == OpOn("handle", Head(inC))
<1>0. Types /\ StopInv /\ Ctrl = <<>>
    BY DEF IInv, OnEvent, Ctrl
<1>1. /\ Head(inC) \in Proper
      /\ Tail(inC) \in Seq(Proper) /\ Tail(inC) \in Seq(Sent)
    BY <1>0 DEF OnEvent, Types, BusTypes
<1>2. o \in GoodOps /\ o.op = "handle"
    BY <1>1, Operations DEF OpOn
<1> HIDE DEF o
<1>3. Ctrl' = <<o>> /\ todo'["sess"] = todo["sess"]
    BY <1>0 DEF OnEvent, Ctrl, Types, TodoTypes, Threads, o
<1>4. TodoTypes'
  <2>1. <<o>> \in Seq(GoodOps) /\ Tail(<<o>>) = <<>> /\ <<>> \in Seq(Later)
    BY <1>2
  <2>2. todo' \in [Threads -> Seq(GoodOps)]
    BY <1>0, <1>3, <2>1 DEF OnEvent, Types, TodoTypes, Threads, Ctrl
  <2> QED
    BY <1>0, <1>3, <2>1, <2>2 DEF Types, TodoTypes
<1>5. StopInv'
  <2>1. Ctrl' # <<>> /\ Head(Ctrl') = o
    BY <1>3
  <2>2. ~Starts(Head(Ctrl')) /\ ~Doing("ctrl", "llm")'
    BY <1>2, <2>1 DEF Starts, Doing, Ctrl
  <2>3. UNCHANGED <<agentState, pending, halted>>
    BY DEF OnEvent, hist
  <2>4. /\ ~(agentState = "STOPPED" /\ pending # NoAction)
        /\ halted => agentState # "RUNNING" /\ pending = NoAction
    BY <1>0 DEF StopInv, StoppedIsClear, HaltedIsQuiet, Doing, Ctrl
  <2> QED
    BY <2>2, <2>3, <2>4
    DEF StopInv, StoppedIsClear, AskingIsNotStopped, HaltedIsQuiet
<1>6. BusTypes' /\ CtlTypes' /\ EnvTypes'
    BY <1>0, <1>1
    DEF OnEvent, Types, BusTypes, CtlTypes, EnvTypes, Sent, flags, chron, status,
        env, exec, hist
<1> QED
    BY <1>4, <1>5, <1>6 DEF IInv, Types

LEMMA HandleUserMessageKeeps ==
    ASSUME IInv, HandleUserMessage
    PROVE  IInv'
<1> DEFINE recall == NewEvent("recall", NoCause, NoCall, "none")
           ensure == Op("ensure running", "none")
           step == Op("step", "none")
<1>0. Types /\ StopInv /\ Ctrl # <<>>
    BY DEF IInv, HandleUserMessage, Handling, Doing, Ctrl
<1>1. recall \in Proper /\ recall.kind = "recall"
  <2>1. /\ NoCause \in Nat \cup {NoId} /\ NoCall \in 0..MaxCalls
        /\ "recall" \in Kinds /\ "none" \in Confirmation
    BY ConstantsAssumption DEF NoCause, NoCall, Kinds, Confirmation
  <2>2. recall \in Proper
    BY <2>1, Constructors
  <2> QED
    BY <2>2 DEF NewEvent
<1>2. pending' = WithId(recall) /\ Publish(recall) /\ forsaken' = forsaken
    BY DEF HandleUserMessage
<1>3. BusTypes'
    BY <1>0, <1>1, <1>2, PublishedInPlace DEF Types
<1>4. CtlTypes'
  <2>1. pending' \in Proper /\ pending'.kind # "change"
    BY <1>0, <1>1, <1>2, WithIdIsProper DEF Types, BusTypes
  <2> QED
    BY <1>0, <2>1 DEF HandleUserMessage, Types, CtlTypes, flags, chron
<1>5. EnvTypes'
  <2>1. unread' \in BOOLEAN /\ halted' \in BOOLEAN
    BY DEF HandleUserMessage
  <2> QED
    BY <1>0, <2>1 DEF HandleUserMessage, Types, EnvTypes, status, env, exec
<1>6. ensure \in GoodOps /\ step \in Later /\ ensure.op = "ensure running"
    BY Operations DEF Later, Starts, Op
<1>7. Then("ctrl", <<ensure, step>>)
    BY DEF HandleUserMessage
<1> HIDE DEF ensure, step
<1>8. /\ TodoTypes'
      /\ Ctrl' # <<>> /\ Head(Ctrl') = ensure
  <2>1. Fits(<<ensure, step>>)
    BY <1>6, Fitting
  <2>2. <<ensure, step>> # <<>> /\ Head(<<ensure, step>>) = ensure
    OBVIOUS
  <2> QED
    BY <1>0, <1>7, <2>1, <2>2, CtrlGoesOn DEF Types
<1>9. StopInv'
  <2>1. ~halted'
    BY DEF HandleUserMessage
  <2>2. Head(Ctrl').op # "llm" /\ Starts(Head(Ctrl'))
    BY <1>6, <1>8 DEF Starts
  <2> QED
    BY <1>8, <2>1, <2>2
    DEF StopInv, StoppedIsClear, AskingIsNotStopped, HaltedIsQuiet, Doing, Ctrl
<1> QED
    BY <1>3, <1>4, <1>5, <1>8, <1>9 DEF IInv, Types

\* What a step of the controller that changes nothing but its work keeps.
LEMMA TypesUntouched ==
    ASSUME Types,
           UNCHANGED <<bus, agentState, pending, flags, status, told, saved,
                       chron, used, env, exec, hist>>
    PROVE  BusTypes' /\ CtlTypes' /\ EnvTypes'
<1>1. BusTypes'
    BY BusUntouched DEF Types, hist
<1> QED
    BY <1>1 DEF Types, CtlTypes, EnvTypes, flags, chron, status, env, exec, hist

LEMMA EnsureRunningKeeps ==
    ASSUME IInv, EnsureRunning
    PROVE  IInv'
<1> DEFINE run == Op("set", "RUNNING")
           ops == When(agentState # "RUNNING", <<run>>)
<1>0. Types /\ StopInv /\ Ctrl # <<>> /\ Head(Ctrl).op = "ensure running"
    BY DEF IInv, EnsureRunning, Doing, Ctrl
<1>1. Then("ctrl", ops) /\ UNCHANGED <<agentState, pending, halted>>
    BY DEF EnsureRunning, hist
<1>2. run \in GoodOps /\ run.op = "set" /\ run.arg = "RUNNING"
    BY Operations DEF AgentState, Op
<1>3. \/ ops = <<>> /\ agentState = "RUNNING"
      \/ ops = <<run>> /\ agentState # "RUNNING"
    BY DEF When
<1> HIDE DEF ops, run
<1>4. Fits(ops)
    BY <1>2, <1>3, Fitting
<1>5. /\ TodoTypes'
      /\ ops # <<>> => Ctrl' # <<>> /\ Head(Ctrl') = Head(ops)
      /\ ops = <<>> => (Ctrl' # <<>> => Head(Ctrl') \in Later)
    BY <1>0, <1>1, <1>4, CtrlGoesOn DEF Types
<1>6. ~halted
    BY <1>0 DEF StopInv, HaltedIsQuiet, Starts
<1>7. CASE ops = <<>>
  <2>1. ~Doing("ctrl", "llm")'
    BY <1>5, <1>7 DEF Later, Starts, Doing, Ctrl
  <2>2. StopInv'
    BY <1>1, <1>3, <1>6, <1>7, <2>1
    DEF StopInv, StoppedIsClear, AskingIsNotStopped, HaltedIsQuiet
  <2> QED
    BY <1>0, <1>5, <2>2, TypesUntouched DEF IInv, Types, EnsureRunning
<1>8. CASE ops # <<>>
  <2>1. Ctrl' # <<>> /\ Head(Ctrl') = run
    BY <1>3, <1>5, <1>8
  <2>2. Head(Ctrl').op # "llm" /\ Starts(Head(Ctrl')) /\ ~Doing("ctrl", "llm")'
    BY <1>2, <2>1 DEF Starts, Doing, Ctrl
  <2>3. StopInv'
    BY <1>1, <1>6, <2>1, <2>2
    DEF StopInv, StoppedIsClear, AskingIsNotStopped, HaltedIsQuiet
  <2> QED
    BY <1>0, <1>5, <2>3, TypesUntouched DEF IInv, Types, EnsureRunning
<1> QED
    BY <1>7, <1>8

\* The work of _handle_action for an event that is not the user's message.
ActionWork(e) == CASE e.kind = "change" -> <<Op("set", e.arg)>>
                   [] e.kind = "finish" -> <<Op("set", "FINISHED")>>
                   [] e.kind = "reject" -> <<Op("set", "REJECTED")>>
                   [] e.kind = "condense" -> <<Op("step", "none")>>
                   [] e.kind = "ask" -> <<Op("set", "AWAITING_USER_INPUT"),
                                          Op("step unless waiting", "none")>>
                   [] e.kind = "say" -> <<Op("step unless waiting", "none")>>
                   [] OTHER -> <<>>

LEMMA ActionWorks ==
    ASSUME NEW e \in Proper
    PROVE  \E s \in AgentState :
             \/ /\ \/ ActionWork(e) = <<Op("set", s)>>
                   \/ ActionWork(e) = <<Op("set", s), Op("step unless waiting", "none")>>
                /\ s # "RUNNING" /\ (e.arg = "STOPPED" => s = "STOPPED")
                /\ s \in Decision => e.kind = "change" /\ e.arg = s
             \/ /\ \/ ActionWork(e) = <<Op("step", "none")>>
                   \/ ActionWork(e) = <<Op("step unless waiting", "none")>>
                   \/ /\ ActionWork(e) = <<>>
                      /\ e.kind \notin {"change", "finish", "reject", "condense", "ask",
                                        "say"}
                /\ e.arg # "STOPPED"
<1> DEFINE set(s) == Op("set", s)
           step == Op("step", "none")
           unless == Op("step unless waiting", "none")
           ops == ActionWork(e)
<1>1. e.kind = "change" => e.arg \in Asked
    BY DEF Proper
<1>2. e.arg = "STOPPED" => e.kind = "change"
    BY DEF Proper, Confirmation
<1>3. CASE e.kind = "change"
  <2>1. e.arg \in AgentState /\ e.arg # "RUNNING"
    BY <1>1, <1>3 DEF Asked, Decision, AgentState
  <2>2. ops = <<set(e.arg)>>
    BY <1>3 DEF ActionWork
  <2> HIDE DEF ops, set, step, unless
  <2> SUFFICES \E s \in AgentState : /\ ops = <<set(s)>> /\ s # "RUNNING"
                                     /\ e.arg = "STOPPED" => s = "STOPPED"
                                     /\ s \in Decision => e.arg = s
    BY <1>3 DEF ops, set, step, unless
  <2> QED
    BY <2>1, <2>2
<1>4. CASE e.kind \in {"finish", "reject"}
  <2>1. PICK s \in {"FINISHED", "REJECTED"} : ops = <<set(s)>>
    BY <1>4 DEF ActionWork
  <2>2. s \in AgentState /\ s # "RUNNING" /\ s \notin Decision
    BY DEF AgentState, Decision
  <2> QED
    BY <1>2, <1>4, <2>1, <2>2
<1>5. CASE e.kind = "ask"
  <2>1. ops = <<set("AWAITING_USER_INPUT"), unless>>
    BY <1>5 DEF ActionWork
  <2>2. "AWAITING_USER_INPUT" \in AgentState \ Decision
    BY DEF AgentState, Decision
  <2> QED
    BY <1>2, <1>5, <2>1, <2>2
<1>6. CASE e.kind \notin {"change", "finish", "reject", "ask"}
  <2>1. \/ ops = <<step>> \/ ops = <<unless>>
        \/ ops = <<>> /\ e.kind \notin {"condense", "say"}
    BY <1>6 DEF ActionWork
  <2>2. "RUNNING" \in AgentState
    BY DEF AgentState
  <2> QED
    BY <1>2, <1>6, <2>1, <2>2
<1> QED
    BY <1>3, <1>4, <1>5, <1>6

LEMMA HandleActionKeeps ==
    ASSUME IInv, HandleAction
    PROVE  IInv'
<1> DEFINE e == Ev("ctrl")
           set(s) == Op("set", s)
           step == Op("step", "none")
           unless == Op("step unless waiting", "none")
           ops == ActionWork(e)
<1>0. Types /\ StopInv /\ Ctrl # <<>> /\ Head(Ctrl).op = "handle"
    BY DEF IInv, HandleAction, Handling, Doing, Ctrl
<1>1. e \in Proper
    BY <1>0, HeadIsTyped DEF Types, GoodOps, Ev, Ctrl, Threads
<1>4. /\ Then("ctrl", ops) /\ halted' = (halted \/ e.arg = "STOPPED")
      /\ UNCHANGED <<agentState, pending>>
    BY DEF HandleAction, ActionWork
<1>5. /\ \A s \in AgentState : set(s) \in GoodOps /\ set(s).op = "set" /\ set(s).arg = s
      /\ unless \in Later /\ step \in Later
    BY Operations DEF Op, Later, Starts
<1>6. PICK s \in AgentState :
         \/ /\ ops = <<set(s)>> \/ ops = <<set(s), unless>>
            /\ s # "RUNNING" /\ (e.arg = "STOPPED" => s = "STOPPED")
         \/ /\ ops = <<step>> \/ ops = <<unless>> \/ ops = <<>>
            /\ e.arg # "STOPPED"
    BY <1>1, ActionWorks
<1> HIDE DEF ops, set, step, unless, e
<1>7. Fits(ops)
  <2>1. step \in GoodOps /\ unless \in GoodOps
    BY <1>5 DEF Later
  <2> QED
    BY <1>5, <1>6, <2>1, Fitting
<1>8. /\ TodoTypes'
      /\ ops # <<>> => Ctrl' # <<>> /\ Head(Ctrl') = Head(ops)
      /\ ops = <<>> => (Ctrl' # <<>> => Head(Ctrl') \in Later)
    BY <1>0, <1>4, <1>7, CtrlGoesOn DEF Types
<1>9. \/ /\ Ctrl' # <<>> /\ Head(Ctrl') = set(s)
         /\ s # "RUNNING" /\ (e.arg = "STOPPED" => s = "STOPPED")
      \/ /\ Ctrl' # <<>> => Head(Ctrl') \in Later
         /\ e.arg # "STOPPED"
    BY <1>5, <1>6, <1>8
<1>10. Ctrl' # <<>> => ~Starts(Head(Ctrl'))
    BY <1>5, <1>9 DEF Starts, Later
<1>11. e.arg = "STOPPED" =>
          Ctrl' # <<>> /\ Head(Ctrl').op = "set" /\ Head(Ctrl').arg = "STOPPED"
    BY <1>5, <1>9
<1>12. StopInv'
  <2>1. /\ ~(agentState = "STOPPED" /\ pending # NoAction)
        /\ halted => agentState # "RUNNING" /\ pending = NoAction
    BY <1>0 DEF StopInv, StoppedIsClear, HaltedIsQuiet, Starts, Doing, Ctrl
  <2>2. ~Doing("ctrl", "llm")'
    BY <1>10 DEF Starts, Doing, Ctrl
  <2> QED
    BY <1>4, <1>10, <1>11, <2>1, <2>2
    DEF StopInv, StoppedIsClear, AskingIsNotStopped, HaltedIsQuiet
<1>13. BusTypes'
    BY <1>0, BusUntouched DEF HandleAction, Types
<1>14. CtlTypes'
    BY <1>0 DEF HandleAction, Types, CtlTypes, flags, chron
<1>15. EnvTypes'
  <2>1. halted' \in BOOLEAN
    BY DEF HandleAction
  <2> QED
    BY <1>0, <2>1 DEF HandleAction, Types, EnvTypes, status, env, exec
<1> QED
    BY <1>8, <1>12, <1>13, <1>14, <1>15 DEF IInv, Types

\* The work of _handle_observation and the step, for an observation that is
\* the pending action's answer or not.
ObservationWork(answers, e) ==
    When(answers /\ agentState = "USER_CONFIRMED", <<Op("set", "RUNNING")>>)
    \o When(answers /\ agentState = "USER_REJECTED", <<Op("set", "AWAITING_USER_INPUT")>>)
    \o When(StepsOn(e), <<Op("step", "none")>>)

LEMMA ObservationWorks ==
    ASSUME NEW answers \in BOOLEAN, NEW e
    PROVE  \/ ObservationWork(answers, e) = <<>> /\ ~StepsOn(e)
           \/ ObservationWork(answers, e) = <<Op("step", "none")>> /\ StepsOn(e)
           \/ /\ answers
              /\ \E s \in {"RUNNING", "AWAITING_USER_INPUT"} :
                    /\ s = "RUNNING" => agentState = "USER_CONFIRMED"
                    /\ \/ ObservationWork(answers, e) = <<Op("set", s)>> /\ ~StepsOn(e)
                       \/ /\ ObservationWork(answers, e) =
                                <<Op("set", s), Op("step", "none")>>
                          /\ StepsOn(e)
<1> DEFINE run == Op("set", "RUNNING")
           wait == Op("set", "AWAITING_USER_INPUT")
           step == Op("step", "none")
           next == When(StepsOn(e), <<step>>)
           ops == ObservationWork(answers, e)
<1>1. run \in GoodOps /\ wait \in GoodOps /\ step \in GoodOps
    BY Operations DEF AgentState
<1>2. (next = <<>> /\ ~StepsOn(e)) \/ (next = <<step>> /\ StepsOn(e))
    BY DEF When
<1>3. /\ answers /\ agentState = "USER_CONFIRMED" => ops = <<run>> \o <<>> \o next
      /\ answers /\ agentState = "USER_REJECTED" => ops = <<>> \o <<wait>> \o next
      /\ ~answers \/ agentState \notin {"USER_CONFIRMED", "USER_REJECTED"}
            => ops = <<>> \o <<>> \o next
    BY DEF ObservationWork, When
<1> HIDE DEF next, run, wait, step, ops
<1>4. CASE answers /\ agentState = "USER_CONFIRMED"
  <2>1. (ops = <<run>> /\ ~StepsOn(e)) \/ (ops = <<run, step>> /\ StepsOn(e))
    BY <1>1, <1>2, <1>3, <1>4, Concatenations
  <2> QED
    BY <1>4, <2>1 DEF run, step, ops
<1>5. CASE answers /\ agentState = "USER_REJECTED"
  <2>1. (ops = <<wait>> /\ ~StepsOn(e)) \/ (ops = <<wait, step>> /\ StepsOn(e))
    BY <1>1, <1>2, <1>3, <1>5, Concatenations
  <2> QED
    BY <1>5, <2>1 DEF wait, step, ops
<1>6. CASE ~answers \/ agentState \notin {"USER_CONFIRMED", "USER_REJECTED"}
  <2>1. (ops = <<>> /\ ~StepsOn(e)) \/ (ops = <<step>> /\ StepsOn(e))
    BY <1>1, <1>2, <1>3, <1>6, Concatenations
  <2> QED
    BY <2>1 DEF step, ops
<1> QED
    BY <1>4, <1>5, <1>6

LEMMA HandleObservationKeeps ==
    ASSUME IInv, HandleObservation
    PROVE  IInv'
<1> DEFINE e == Ev("ctrl")
           answers == /\ pending # NoAction /\ pending.id = e.cause
                      /\ agentState # "AWAITING_USER_CONFIRMATION"
           set(s) == Op("set", s)
           step == Op("step", "none")
           ops == ObservationWork(answers, e)
<1>0. Types /\ StopInv /\ Ctrl # <<>> /\ Head(Ctrl).op = "handle"
    BY DEF IInv, HandleObservation, Handling, Doing, Ctrl
<1>1. e \in Proper
    BY <1>0, HeadIsTyped DEF Types, GoodOps, Ev, Ctrl, Threads
<1>2. /\ Then("ctrl", ops) /\ UNCHANGED <<agentState, halted>>
      /\ pending' = IF answers THEN NoAction ELSE pending
    BY DEF HandleObservation, ObservationWork, hist
<1>3. /\ set("RUNNING") \in GoodOps /\ set("RUNNING").op = "set"
      /\ set("AWAITING_USER_INPUT") \in GoodOps /\ set("AWAITING_USER_INPUT").op = "set"
      /\ step \in Later /\ step \in GoodOps
    BY Operations DEF Op, Later, Starts, AgentState
<1>4. \/ ops = <<>> \/ ops = <<step>>
      \/ /\ answers
         /\ \E s \in {"RUNNING", "AWAITING_USER_INPUT"} :
               ops = <<set(s)>> \/ ops = <<set(s), step>>
  <2>1. answers \in BOOLEAN
    OBVIOUS
  <2> HIDE DEF answers
  <2> QED
    BY <2>1, ObservationWorks
<1> HIDE DEF ops, set, step
<1>5. Fits(ops)
    BY <1>3, <1>4, Fitting
<1>6. /\ TodoTypes'
      /\ ops # <<>> => Ctrl' # <<>> /\ Head(Ctrl') = Head(ops)
      /\ ops = <<>> => (Ctrl' # <<>> => Head(Ctrl') \in Later)
    BY <1>0, <1>2, <1>5, CtrlGoesOn DEF Types
<1>7. /\ Ctrl' # <<>> => Head(Ctrl').op # "llm"
      /\ ~answers => (Ctrl' # <<>> => ~Starts(Head(Ctrl')))
  <2> HIDE DEF answers
  <2>0. \A o \in Later : o.op # "llm" /\ ~Starts(o)
    BY DEF Later, Starts
  <2>1. CASE ops = <<>>
    BY <1>6, <2>0, <2>1
  <2>2. CASE ops = <<step>>
    <3>1. Head(Ctrl') = step
      BY <1>6, <2>2
    <3> QED
      BY <1>3, <2>0, <3>1
  <2>3. CASE ops # <<>> /\ ops # <<step>>
    <3>1. answers
      BY <1>4, <2>3
    <3>2. PICK s \in {"RUNNING", "AWAITING_USER_INPUT"} :
             ops = <<set(s)>> \/ ops = <<set(s), step>>
      BY <1>4, <2>3
    <3>3. Head(Ctrl') = set(s)
      BY <1>6, <2>3, <3>2
    <3>4. set(s).op = "set"
      BY <1>3, <3>2
    <3> QED
      BY <3>1, <3>3, <3>4
  <2> QED
    BY <2>1, <2>2, <2>3
<1>8. StopInv'
  <2>1. /\ ~(agentState = "STOPPED" /\ pending # NoAction)
        /\ halted => agentState # "RUNNING" /\ pending = NoAction
    BY <1>0 DEF StopInv, StoppedIsClear, HaltedIsQuiet, Starts, Doing, Ctrl
  <2>2. ~Doing("ctrl", "llm")'
    BY <1>7 DEF Doing, Ctrl
  <2>3. pending = NoAction => ~answers /\ pending' = NoAction
    BY <1>2
  <2> QED
    BY <1>2, <1>7, <2>1, <2>2, <2>3
    DEF StopInv, StoppedIsClear, AskingIsNotStopped, HaltedIsQuiet
<1>9. BusTypes'
    BY <1>0, BusUntouched DEF HandleObservation, Types, hist
<1>10. CtlTypes'
  <2>1. pending' \in Proper /\ pending'.kind # "change"
    <3>1. NoAction.kind # "change"
      BY DEF NoAction, NewEvent
    <3> QED
      BY <1>0, <1>2, <3>1, Constructors DEF Types, CtlTypes
  <2>2. results' \in [Calls -> Nat]
    <3>1. e.call \in 0..MaxCalls
      BY <1>1 DEF Proper, Event
    <3>2. CASE e.call = NoCall
      BY <1>0, <3>2 DEF HandleObservation, Types, CtlTypes
    <3>3. CASE e.call # NoCall
      <4>1. e.call \in Calls
        BY <3>1, <3>3, ConstantsAssumption DEF Calls, NoCall
      <4>2. results' = [results EXCEPT ![e.call] = @ + 1]
        BY <3>3 DEF HandleObservation
      <4> QED
        BY <1>0, <4>1, <4>2 DEF Types, CtlTypes
    <3> QED
      BY <3>2, <3>3
  <2>3. plain' \in BOOLEAN
    BY DEF HandleObservation
  <2> QED
    BY <1>0, <2>1, <2>2, <2>3 DEF HandleObservation, Types, CtlTypes, flags
<1>11. EnvTypes'
    BY <1>0 DEF HandleObservation, Types, EnvTypes, status, env, exec, hist
<1> QED
    BY <1>6, <1>8, <1>9, <1>10, <1>11 DEF IInv, Types

\* A step of the controller that changes nothing but its work, which it does
\* not bring nearer to the LLM.
LEMMA QuietlyKeeps ==
    ASSUME IInv, Ctrl # <<>>,
           Head(Ctrl).op \in {"step", "step unless waiting"},
           NEW ops, Fits(ops), Then("ctrl", ops), ops # <<>> => ~Starts(Head(ops)),
           UNCHANGED <<agentState, pending, halted>>
    PROVE  StopInv' /\ TodoTypes'
<1>1. ~Starts(Head(Ctrl)) /\ Head(Ctrl).op \notin {"clear", "set"}
    BY DEF Starts
<1> QED
    BY <1>1, QuietStep, CtrlGoesOn DEF IInv, Types

LEMMA StepUnlessWaitingKeeps ==
    ASSUME IInv, StepUnlessWaiting
    PROVE  IInv'
<1> DEFINE step == Op("step", "none")
           ops == When(agentState # "AWAITING_USER_INPUT", <<step>>)
<1>1. Ctrl # <<>> /\ Head(Ctrl).op = "step unless waiting" /\ Types
    BY DEF IInv, StepUnlessWaiting, Doing, Ctrl
<1>2. ops \in {<<>>, <<step>>} /\ Then("ctrl", ops)
    BY DEF StepUnlessWaiting, When
<1>3. step \in GoodOps /\ ~Starts(step)
    BY Operations DEF Op, Starts
<1> HIDE DEF ops, step
<1>4. Fits(ops) /\ (ops # <<>> => Head(ops) = step)
  <2>1. CASE ops = <<>>
    BY <1>3, <2>1, Fitting
  <2>2. CASE ops = <<step>>
    <3>1. Head(<<step>>) = step
      OBVIOUS
    <3> QED
      BY <1>3, <2>2, <3>1, Fitting
  <2> QED
    BY <1>2, <2>1, <2>2
<1>5. StopInv' /\ TodoTypes'
    BY <1>1, <1>2, <1>3, <1>4, QuietlyKeeps DEF StepUnlessWaiting, hist
<1> QED
    BY <1>1, <1>5, TypesUntouched DEF StepUnlessWaiting, IInv, Types

-----------------------------------------------------------------------------
LEMMA StepBeginKeeps ==
    ASSUME IInv, StepBegin
    PROVE  IInv'
<1> DEFINE react == Op("react", "none")
           llm == Op("llm", "none")
<1>0. Types /\ StopInv /\ Ctrl # <<>> /\ Head(Ctrl).op = "step"
    BY DEF IInv, StepBegin, Doing, Ctrl
<1>1. UNCHANGED <<agentState, pending, halted>>
    BY DEF StepBegin
<1>2. /\ react \in GoodOps /\ ~Starts(react)
      /\ llm \in GoodOps
    BY Operations DEF Op, Starts
<1>3. \/ Then("ctrl", <<>>)
      \/ Then("ctrl", <<react>>)
      \/ Then("ctrl", <<llm>>) /\ MayStep
    BY DEF StepBegin
<1> HIDE DEF react, llm
<1>4. StopInv' /\ TodoTypes'
  <2>1. CASE Then("ctrl", <<>>)
    BY <1>0, <1>1, <1>2, <2>1, Fitting, QuietlyKeeps
  <2>2. CASE Then("ctrl", <<react>>)
    <3>1. Fits(<<react>>) /\ Head(<<react>>) = react
      BY <1>2, Fitting
    <3> QED
      BY <1>0, <1>1, <1>2, <2>2, <3>1, QuietlyKeeps
  <2>3. CASE Then("ctrl", <<llm>>) /\ MayStep
    <3>1. Fits(<<llm>>)
      BY <1>2, Fitting
    <3>2. TodoTypes'
      BY <1>0, <2>3, <3>1, CtrlGoesOn DEF Types
    <3>3. agentState = "RUNNING"
      BY <2>3 DEF MayStep
    <3>4. ~halted
      BY <1>0, <3>3 DEF StopInv, HaltedIsQuiet
    <3>5. StopInv'
      BY <1>1, <3>3, <3>4 DEF StopInv, StoppedIsClear, AskingIsNotStopped, HaltedIsQuiet
    <3> QED
      BY <3>2, <3>5
  <2> QED
    BY <1>3, <2>1, <2>2, <2>3
<1>5. BusTypes'
    BY <1>0, BusUntouched DEF StepBegin, Types
<1>6. CtlTypes'
  <2>1. hitLimit' \in BOOLEAN
    <3>1. CASE MayStep
      <4>1. hitLimit' = (iter >= maxIter)
        BY <3>1 DEF StepBegin
      <4> QED
        BY <4>1
    <3>2. CASE ~MayStep
      BY <1>0, <3>2 DEF StepBegin, Types, CtlTypes
    <3> QED
      BY <3>1, <3>2
  <2>2. iter' \in Nat
    BY <1>0 DEF StepBegin, Types, CtlTypes
  <2> QED
    BY <1>0, <2>1, <2>2 DEF StepBegin, Types, CtlTypes, chron
<1>7. EnvTypes'
  <2>1. unread' \in BOOLEAN
    BY <1>0 DEF StepBegin, Types, EnvTypes
  <2> QED
    BY <1>0, <2>1 DEF StepBegin, Types, EnvTypes, status, env, exec
<1> QED
    BY <1>4, <1>5, <1>6, <1>7 DEF IInv, Types

LEMMA StepStuckKeeps ==
    ASSUME IInv, StepStuck
    PROVE  IInv'
<1> DEFINE react == Op("react", "none")
<1>0. Types /\ Ctrl # <<>> /\ Head(Ctrl).op = "step"
    BY DEF IInv, StepStuck, Doing, Ctrl
<1>1. react \in GoodOps /\ ~Starts(react)
    BY Operations DEF Op, Starts
<1>2. Then("ctrl", <<react>>) /\ UNCHANGED <<agentState, pending, halted>>
    BY DEF StepStuck, hist
<1> HIDE DEF react
<1>3. Fits(<<react>>) /\ Head(<<react>>) = react
    BY <1>1, Fitting
<1>4. StopInv' /\ TodoTypes'
    BY <1>0, <1>1, <1>2, <1>3, QuietlyKeeps
<1>5. BusTypes'
    BY <1>0, BusUntouched DEF StepStuck, Types, hist
<1>6. fails' \in 0..MaxFails
    BY <1>0, ConstantsAssumption DEF StepStuck, Types, EnvTypes
<1> QED
    BY <1>0, <1>4, <1>5, <1>6
    DEF IInv, Types, CtlTypes, EnvTypes, StepStuck, flags, chron, status, exec, hist

\* The LLM's answers, whatever work they lead to.
LEMMA AnswerKeeps ==
    ASSUME IInv, Doing("ctrl", "llm"), NEW ops, Fits(ops), Then("ctrl", ops),
           UNCHANGED <<agentState, halted>>
    PROVE  StopInv' /\ TodoTypes'
BY AskingStep, CtrlGoesOn DEF IInv, Types, Doing, Ctrl

LEMMA LLMRunsKeeps ==
    ASSUME IInv, NEW conf \in {"none", "awaiting"}, LLMRuns(conf)
    PROVE  IInv'
<1> DEFINE ask == Op("set", "AWAITING_USER_CONFIRMATION")
           emit == OpOn("emit", pending')
           ops == When(conf = "awaiting", <<ask>>) \o <<emit>>
<1>0. Types
    BY DEF IInv
<1>1. used' \in 0..MaxCalls /\ used' \in Calls
    BY <1>0, ConstantsAssumption DEF LLMRuns, Types, CtlTypes, Calls
<1>2. pending' \in Proper /\ pending'.kind = "run"
  <2>1. /\ NoCause \in Nat \cup {NoId} /\ "run" \in Kinds
        /\ conf \in Confirmation
    BY DEF NoCause, Kinds, Confirmation
  <2>2. pending' = NewEvent("run", NoCause, used', conf)
    BY DEF LLMRuns
  <2>3. pending' \in Proper
    BY <1>1, <2>1, <2>2, Constructors
  <2> QED
    BY <2>2, <2>3 DEF NewEvent
<1>3. /\ ask \in GoodOps
      /\ emit \in GoodOps /\ emit \in Later
  <2>1. emit \in GoodOps
    BY <1>2, Operations DEF Emitted
  <2>2. "AWAITING_USER_CONFIRMATION" \in AgentState
    BY DEF AgentState
  <2> QED
    BY <2>1, <2>2, Operations DEF Later, Starts, OpOn
<1>4. Then("ctrl", ops) /\ Doing("ctrl", "llm") /\ UNCHANGED <<agentState, halted>>
    BY DEF LLMRuns, hist
<1>5. ops = <<ask, emit>> \/ ops = <<emit>>
  <2>1. ops = <<ask>> \o <<emit>> \/ ops = <<>> \o <<emit>>
    BY DEF When
  <2> HIDE DEF ops, ask, emit
  <2> QED
    BY <1>3, <2>1, Concatenations
<1> HIDE DEF ops, ask, emit
<1>6. Fits(ops)
    BY <1>3, <1>5, Fitting
<1>7. StopInv' /\ TodoTypes'
    BY <1>4, <1>6, AnswerKeeps
<1>8. BusTypes'
    BY <1>0, BusUntouched DEF LLMRuns, Types, hist
<1>9. CtlTypes'
    BY <1>0, <1>1, <1>2 DEF LLMRuns, Types, CtlTypes, flags, chron
<1>10. EnvTypes'
    BY <1>0 DEF LLMRuns, Types, EnvTypes, status, env, exec, hist
<1> QED
    BY <1>7, <1>8, <1>9, <1>10 DEF IInv, Types

\* What the agent says or thinks, its end, a condensation.
LEMMA LLMEmitsKeeps ==
    ASSUME IInv,
           LLMThinks \/ \E kind \in {"say", "ask", "finish", "reject", "condense"} :
                           LLMTalks(kind)
    PROVE  IInv'
<1>0. Types
    BY DEF IInv
<1>1. used' \in 0..MaxCalls
    BY <1>0, ConstantsAssumption DEF LLMThinks, LLMTalks, Types, CtlTypes
<1>2. PICK kind \in {"think", "say", "ask", "finish", "reject", "condense"},
           call \in 0..MaxCalls :
              Then("ctrl", <<OpOn("emit", NewEvent(kind, NoCause, call, "none"))>>)
  <2>1. NoCall \in 0..MaxCalls
    BY ConstantsAssumption DEF NoCall
  <2> QED
    BY <1>1, <2>1 DEF LLMThinks, LLMTalks
<1> DEFINE e == NewEvent(kind, NoCause, call, "none")
<1>3. e \in Proper /\ e.kind = kind
  <2>1. /\ NoCause \in Nat \cup {NoId} /\ kind \in Kinds \ {"change", "run"}
        /\ "none" \in Confirmation
    BY DEF NoCause, Kinds, Confirmation
  <2>2. e \in Proper
    BY <2>1, Constructors
  <2> QED
    BY <2>2 DEF NewEvent
<1> HIDE DEF e
<1>4. OpOn("emit", e) \in GoodOps
    BY <1>3, Operations DEF Emitted
<1>5. Then("ctrl", <<OpOn("emit", e)>>)
    BY <1>2 DEF e
<1>6. StopInv' /\ TodoTypes'
    BY <1>4, <1>5, Fitting, AnswerKeeps DEF LLMThinks, LLMTalks, hist
<1>7. BusTypes'
    BY <1>0, BusUntouched DEF LLMThinks, LLMTalks, Types, hist
<1>8. CtlTypes' /\ EnvTypes'
    BY <1>0, <1>1
    DEF LLMThinks, LLMTalks, Types, CtlTypes, EnvTypes, flags, chron, status, env, exec, hist
<1> QED
    BY <1>6, <1>7, <1>8 DEF IInv, Types

LEMMA LLMUnusableKeeps ==
    ASSUME IInv, NEW kind \in {"err", "condense"}, LLMUnusable(kind)
    PROVE  IInv'
<1>0. Types
    BY DEF IInv
<1>1. NewEvent(kind, NoCause, NoCall, "none") \in Proper
  <2>1. /\ NoCause \in Nat \cup {NoId} /\ NoCall \in 0..MaxCalls
        /\ kind \in Kinds \ {"change", "run"} /\ "none" \in Confirmation
    BY ConstantsAssumption DEF NoCause, NoCall, Kinds, Confirmation
  <2> QED
    BY <2>1, Constructors
<1>2. BusTypes'
    BY <1>0, <1>1, PublishedInPlace DEF LLMUnusable, Types, hist
<1>3. StopInv' /\ TodoTypes'
    BY Operations, Fitting, AnswerKeeps DEF LLMUnusable, hist
<1>4. CtlTypes' /\ EnvTypes'
    BY <1>0
    DEF LLMUnusable, Types, CtlTypes, EnvTypes, flags, chron, status, env, exec, hist
<1> QED
    BY <1>2, <1>3, <1>4 DEF IInv, Types

LEMMA LLMRetriesKeeps ==
    ASSUME IInv, LLMRetries
    PROVE  IInv'
<1> DEFINE again == [Head(Ctrl) EXCEPT !.failed = @ + 1]
<1>0. Types /\ Ctrl # <<>> /\ Doing("ctrl", "llm")
    BY DEF IInv, LLMRetries, Doing, Ctrl
<1>1. Head(Ctrl) \in GoodOps
    BY <1>0, HeadIsTyped DEF Types, Ctrl, Threads
<1>2. again \in GoodOps
  <2>1. Head(Ctrl).failed \in Nat /\ Head(Ctrl).failed + 1 \in 0..(Retries - 1)
    <3>1. Head(Ctrl).failed \in 0..(Retries - 1)
      BY <1>1 DEF GoodOps, Ops
    <3>2. Head(Ctrl).failed + 1 < Retries
      BY DEF LLMRetries, Ctrl
    <3> QED
      BY <3>1, <3>2, ConstantsAssumption
  <2> QED
    BY <1>1, <2>1 DEF GoodOps, Ops
<1>3. Then("ctrl", <<again>>) /\ UNCHANGED <<agentState, halted>>
    BY DEF LLMRetries, Ctrl, hist
<1> HIDE DEF again
<1>4. StopInv' /\ TodoTypes'
    BY <1>0, <1>2, <1>3, Fitting, AnswerKeeps
<1> QED
    BY <1>0, <1>4, TypesUntouched DEF LLMRetries, IInv, Types

LEMMA LLMFailsKeeps ==
    ASSUME IInv, LLMRateLimited \/ LLMFails
    PROVE  IInv'
<1>0. Types
    BY DEF IInv
<1>1. \A n : Op("set", RateLimitState(n)) \in GoodOps
    BY Operations DEF RateLimitState, AgentState
<1>2. PICK o \in GoodOps : Then("ctrl", <<o>>)
    BY <1>1, Operations DEF LLMRateLimited, LLMFails
<1>3. StopInv' /\ TodoTypes'
    BY <1>2, Fitting, AnswerKeeps DEF LLMRateLimited, LLMFails, hist
<1>4. fails' \in 0..MaxFails
    BY <1>0, ConstantsAssumption DEF LLMRateLimited, LLMFails, Types, EnvTypes
<1>5. BusTypes'
    BY <1>0, BusUntouched DEF LLMRateLimited, LLMFails, Types, hist
<1>6. CtlTypes' /\ EnvTypes'
    BY <1>0, <1>4
    DEF LLMRateLimited, LLMFails, Types, CtlTypes, EnvTypes, flags, chron, status, exec, hist
<1> QED
    BY <1>3, <1>5, <1>6 DEF IInv, Types

LEMMA EmitActionKeeps ==
    ASSUME IInv, EmitAction
    PROVE  IInv'
<1> DEFINE e == Ev("ctrl")
<1>0. Types /\ StopInv /\ Ctrl # <<>> /\ Head(Ctrl).op = "emit"
    BY DEF IInv, EmitAction, Doing, Ctrl
<1>1. e \in Proper /\ e.kind \notin {"change", "null"}
    BY <1>0, HeadIsTyped DEF Types, GoodOps, Emitted, Ev, Ctrl, Threads
<1>2. /\ Publish(e) /\ Then("ctrl", <<>>)
      /\ pending' = IF pending = e THEN WithId(pending) ELSE pending
      /\ UNCHANGED <<agentState, halted, forsaken>>
    BY DEF EmitAction, hist
<1>3. pending = NoAction => pending' = NoAction
    BY <1>1, <1>2 DEF NoAction, NewEvent
<1> HIDE DEF e
<1>4. /\ TodoTypes'
      /\ Ctrl' # <<>> => Head(Ctrl') \in Later
    BY <1>0, <1>2, Operations, Fitting, CtrlGoesOn DEF Types
<1>5. StopInv'
  <2>1. Ctrl' # <<>> => ~Starts(Head(Ctrl'))
    BY <1>4 DEF Later, Starts
  <2>2. ~Doing("ctrl", "llm")'
    BY <2>1 DEF Starts, Doing, Ctrl
  <2>3. /\ agentState = "STOPPED" => pending = NoAction
        /\ halted => agentState # "RUNNING" /\ pending = NoAction
    BY <1>0 DEF StopInv, StoppedIsClear, HaltedIsQuiet, Starts, Doing, Ctrl
  <2> QED
    BY <1>2, <1>3, <2>1, <2>2, <2>3
    DEF StopInv, StoppedIsClear, AskingIsNotStopped, HaltedIsQuiet
<1>6. BusTypes'
    BY <1>0, <1>1, <1>2, PublishedInPlace DEF Types
<1>7. CtlTypes'
  <2>1. pending' \in Proper /\ pending'.kind # "change"
    BY <1>0, <1>2, WithIdIsProper DEF Types, CtlTypes, BusTypes
  <2> QED
    BY <1>0, <2>1 DEF EmitAction, Types, CtlTypes, flags, chron
<1>8. EnvTypes'
    BY <1>0 DEF EmitAction, Types, EnvTypes, status, env, exec, hist
<1> QED
    BY <1>4, <1>5, <1>6, <1>7, <1>8 DEF IInv, Types

LEMMA ReactToExceptionKeeps ==
    ASSUME IInv, ReactToException
    PROVE  IInv'
<1> DEFINE fail == Op("set", "ERROR")
<1>0. Types /\ StopInv /\ Ctrl # <<>> /\ Head(Ctrl).op = "react"
    BY DEF IInv, ReactToException, Doing, Ctrl
<1>1. fail \in GoodOps /\ ~Starts(fail)
    BY Operations DEF AgentState, Op, Starts
<1>2. Then("ctrl", <<fail>>) /\ UNCHANGED <<agentState, pending, halted>>
    BY DEF ReactToException, hist
<1> HIDE DEF fail
<1>3. Fits(<<fail>>) /\ Head(<<fail>>) = fail
    BY <1>1, Fitting
<1>4. StopInv' /\ TodoTypes'
  <2>1. ~Starts(Head(Ctrl)) /\ Head(Ctrl).op \notin {"clear", "set"}
    BY <1>0 DEF Starts
  <2> QED
    BY <1>0, <1>1, <1>2, <1>3, <2>1, QuietStep, CtrlGoesOn DEF Types
<1>5. BusTypes'
    BY <1>0, BusUntouched DEF ReactToException, Types, hist
<1>6. CtlTypes' /\ EnvTypes'
    BY <1>0
    DEF ReactToException, Types, CtlTypes, EnvTypes, flags, chron, env, exec, hist
<1> QED
    BY <1>4, <1>5, <1>6 DEF IInv, Types

-----------------------------------------------------------------------------
\* A step of the runtime, the memory or the user.
LEMMA OutsideKeeps ==
    ASSUME IInv, UNCHANGED <<agentState, pending, todo, halted>>,
           BusTypes', CtlTypes', EnvTypes'
    PROVE  IInv'
<1>1. TodoTypes' /\ Ctrl' = Ctrl
    BY DEF IInv, Types, TodoTypes, Ctrl
<1> QED
    BY <1>1, OtherStep DEF IInv, Types

LEMMA RuntimeKeeps ==
    ASSUME IInv, Runtime
    PROVE  IInv'
<1>0. Types
    BY DEF IInv
<1>1. CtlTypes'
    BY <1>0
    DEF Runtime, RuntimeSkips, RuntimeBegins, RuntimeAnswers, RuntimeFails,
        ctlVars, flags, chron, Types, CtlTypes
<1>2. UNCHANGED <<agentState, pending, todo, halted, forsaken>>
    BY DEF Runtime, RuntimeSkips, RuntimeBegins, RuntimeAnswers, RuntimeFails,
           ctlVars, hist
<1>3. CASE RuntimeSkips
  <2>1. BusTypes' /\ EnvTypes'
    BY <1>0, <1>3
    DEF RuntimeSkips, Types, BusTypes, EnvTypes, Sent, status, env, exec, hist
  <2> QED
    BY <1>1, <1>2, <2>1, OutsideKeeps
<1>4. CASE RuntimeBegins
  <2>1. BusTypes'
    BY <1>0, <1>2, <1>4, BusUntouched DEF RuntimeBegins, Types
  <2>2. executed' \in [Calls -> Nat]
    <3> DEFINE c == Head(inR).call
    <3>1. executed' = [executed EXCEPT ![c] = @ + 1] /\ executed \in [Calls -> Nat]
      BY <1>0, <1>4 DEF RuntimeBegins, Types, EnvTypes
    <3> HIDE DEF c
    <3>2. CASE c \in Calls
      BY <3>1, <3>2
    <3>3. CASE c \notin Calls
      BY <3>1, <3>3
    <3> QED
      BY <3>2, <3>3
  <2>3. running' \in BOOLEAN
    BY <1>4 DEF RuntimeBegins
  <2>4. EnvTypes'
    BY <1>0, <1>4, <2>2, <2>3 DEF RuntimeBegins, Types, EnvTypes, status, env, hist
  <2> QED
    BY <1>1, <1>2, <2>1, <2>4, OutsideKeeps
<1>5. CASE RuntimeAnswers
  <2> DEFINE a == Head(inR)
             e == NewEvent("obs", a.id, a.call, "none")
  <2>1. a \in Sent /\ Tail(inR) \in Seq(Sent) /\ inM \in Seq(Sent)
    BY <1>0, <1>5 DEF RuntimeAnswers, Types, BusTypes
  <2>2. e \in Proper
    <3>1. a.id \in Nat \cup {NoId} /\ a.call \in 0..MaxCalls
      BY <2>1 DEF Sent, Event
    <3>2. "obs" \in Kinds /\ "none" \in Confirmation
      BY DEF Kinds, Confirmation
    <3> QED
      BY <3>1, <3>2, Constructors
  <2>3. PublishTo(e, Tail(inR), inM)
    BY <1>5 DEF RuntimeAnswers
  <2> HIDE DEF e
  <2>4. forsaken' \subseteq 1..nextId
    BY <1>0, <1>2 DEF Types, BusTypes
  <2>5. BusTypes'
    BY <1>0, <2>1, <2>2, <2>3, <2>4, Published DEF Types
  <2>6. running' \in BOOLEAN
    BY <1>5 DEF RuntimeAnswers
  <2>7. EnvTypes'
    BY <1>0, <1>5, <2>6 DEF RuntimeAnswers, Types, EnvTypes, status, env, hist
  <2> QED
    BY <1>1, <1>2, <2>5, <2>7, OutsideKeeps
<1>6. CASE RuntimeFails
  <2>1. BusTypes'
    <3>1. Tail(inR) \in Seq(Sent)
      BY <1>0, <1>6 DEF RuntimeFails, Types, BusTypes
    <3>2. inR' = Tail(inR) /\ UNCHANGED <<nextId, inC, inM, shown, wake>>
      BY <1>6 DEF RuntimeFails
    <3> QED
      BY <1>0, <1>2, <3>1, <3>2 DEF Types, BusTypes, Sent
  <2>2. running' \in BOOLEAN /\ fails' \in 0..MaxFails /\ statusErrs' \in Nat
    <3>1. running' \in BOOLEAN
      BY <1>6 DEF RuntimeFails
    <3>2. fails' \in 0..MaxFails /\ statusErrs' \in Nat
      BY <1>0, <1>6, ConstantsAssumption DEF RuntimeFails, Types, EnvTypes
    <3> QED
      BY <3>1, <3>2
  <2>3. EnvTypes'
    BY <1>0, <1>6, <2>2 DEF RuntimeFails, Types, EnvTypes, hist
  <2> QED
    BY <1>1, <1>2, <2>1, <2>3, OutsideKeeps
<1> QED
    BY <1>3, <1>4, <1>5, <1>6 DEF Runtime

LEMMA MemoryKeeps ==
    ASSUME IInv, Memory
    PROVE  IInv'
<1>0. Types
    BY DEF IInv
<1>1. CtlTypes' /\ UNCHANGED <<agentState, pending, todo, halted>>
    BY <1>0
    DEF Memory, MemoryFails, MemoryWakes, MemoryAnswers, ctlVars, flags, chron,
        hist, Types, CtlTypes
<1>2. CASE \E kind \in {"robs", "null"} : MemoryAnswers(kind)
  <2>1. PICK kind \in {"robs", "null"} : MemoryAnswers(kind)
    BY <1>2
  <2> DEFINE e == NewEvent(kind, Head(inM).id, NoCall, "none")
  <2>2. /\ PublishTo(e, inR, Tail(inM)) /\ forsaken' = forsaken
        /\ inR \in Seq(Sent) /\ Tail(inM) \in Seq(Sent) /\ Head(inM) \in Sent
    BY <1>0, <2>1 DEF MemoryAnswers, Types, BusTypes, hist
  <2>3. e \in Proper
    <3>1. /\ Head(inM).id \in Nat \cup {NoId} /\ NoCall \in 0..MaxCalls
          /\ kind \in Kinds \ {"change", "run"} /\ "none" \in Confirmation
      BY <2>2, ConstantsAssumption DEF Sent, Event, NoCall, Kinds, Confirmation
    <3> QED
      BY <3>1, Constructors
  <2> HIDE DEF e
  <2>4. forsaken' \subseteq 1..nextId
    BY <1>0, <2>2 DEF Types, BusTypes
  <2>5. BusTypes'
    BY <1>0, <2>2, <2>3, <2>4, Published DEF Types
  <2>6. EnvTypes'
    BY <1>0, <2>1 DEF MemoryAnswers, Types, EnvTypes, status, env, exec, hist
  <2> QED
    BY <1>1, <2>5, <2>6, OutsideKeeps
<1>3. CASE MemoryFails
  <2>1. Head(inM) \in Sent /\ Tail(inM) \in Seq(Sent)
    BY <1>0, <1>3 DEF MemoryFails, Types, BusTypes
  <2>2. forsaken' \subseteq 1..(nextId' - 1)
    BY <1>0, <1>3, <2>1 DEF MemoryFails, Types, BusTypes, Sent
  <2>3. /\ inM' = Tail(inM)
        /\ UNCHANGED <<nextId, inC, inR, shown, wake>>
    BY <1>3 DEF MemoryFails
  <2>4. BusTypes'
    BY <1>0, <2>1, <2>2, <2>3 DEF Types, BusTypes, Sent
  <2>5. fails' \in 0..MaxFails /\ late' \in Nat
    BY <1>0, <1>3, ConstantsAssumption DEF MemoryFails, Types, EnvTypes
  <2>6. EnvTypes'
    BY <1>0, <1>3, <2>5 DEF MemoryFails, Types, EnvTypes, exec
  <2> QED
    BY <1>1, <2>4, <2>6, OutsideKeeps
<1>4. CASE MemoryWakes
  <2>1. wake' \in BOOLEAN
    BY <1>4 DEF MemoryWakes
  <2>2. BusTypes'
    BY <1>0, <1>4, <2>1 DEF MemoryWakes, Types, BusTypes, Sent, inboxes, hist
  <2>3. statusErrs' \in Nat /\ late' \in Nat
    BY <1>0, <1>4 DEF MemoryWakes, Types, EnvTypes
  <2>4. EnvTypes'
    BY <1>0, <1>4, <2>3 DEF MemoryWakes, Types, EnvTypes, env, exec, hist
  <2> QED
    BY <1>1, <2>2, <2>4, OutsideKeeps
<1> QED
    BY <1>2, <1>3, <1>4 DEF Memory

LEMMA StatusErrorKeeps ==
    ASSUME IInv, StatusError
    PROVE  IInv'
<1> DEFINE fail == Op("set", "ERROR")
<1>0. Types
    BY DEF IInv
<1>1. fail \in SessOps
    BY Operations DEF SessOps, Op, AgentState
<1>2. todo' = [todo EXCEPT !["sess"] = <<fail>>]
    BY DEF StatusError
<1> HIDE DEF fail
<1>3. TodoTypes' /\ Ctrl' = Ctrl
  <2>1. Ctrl' = Ctrl /\ todo'["sess"] = <<fail>>
    BY <1>0, <1>2 DEF Types, TodoTypes, Ctrl, Threads
  <2>2. <<fail>> \in Seq(SessOps) /\ <<fail>> \in Seq(GoodOps)
    BY <1>1, ShortSequences DEF SessOps
  <2>3. todo' \in [Threads -> Seq(GoodOps)]
    BY <1>0, <1>2, <2>2 DEF Types, TodoTypes
  <2> QED
    BY <1>0, <2>1, <2>2, <2>3 DEF Types, TodoTypes
<1>4. StopInv'
    BY <1>3, OtherStep DEF IInv, StatusError, hist
<1>5. BusTypes'
    BY <1>0, BusUntouched DEF StatusError, Types, hist
<1>6. statusErrs' \in Nat
    BY <1>0 DEF StatusError, Types, EnvTypes
<1>7. CtlTypes' /\ EnvTypes'
    BY <1>0, <1>6
    DEF StatusError, Types, CtlTypes, EnvTypes, flags, chron, env, exec, hist
<1> QED
    BY <1>3, <1>4, <1>5, <1>7 DEF IInv, Types

LEMMA UserKeeps ==
    ASSUME IInv, User
    PROVE  IInv'
<1>0. Types
    BY DEF IInv
<1>1. CtlTypes' /\ UNCHANGED <<agentState, pending, todo, halted, forsaken>>
    BY <1>0
    DEF User, UserWrites, UserStops, UserDecides, ctlVars, flags, chron, hist, Types, CtlTypes
<1>2. /\ NoCause \in Nat \cup {NoId} /\ NoCall \in 0..MaxCalls
      /\ "msg" \in Kinds /\ "none" \in Confirmation /\ "change" \in Kinds
      /\ "STOPPED" \in Asked /\ Decision \subseteq Asked
    BY ConstantsAssumption DEF NoCause, NoCall, Kinds, Confirmation, Asked
<1>3. PICK e \in Proper : Publish(e)
  <2>1. NewEvent("msg", NoCause, NoCall, "none") \in Proper
    BY <1>2, Constructors
  <2>2. \A s \in Asked : NewEvent("change", NoCause, NoCall, s) \in Proper
    BY <1>2, Constructors
  <2> QED
    BY <1>2, <2>1, <2>2 DEF User, UserWrites, UserStops, UserDecides
<1>4. BusTypes'
    BY <1>0, <1>1, <1>3, PublishedInPlace DEF Types
<1>5. EnvTypes'
  <2>1. msgs' \in 0..MaxMsgs /\ stops' \in 0..MaxStops
    BY <1>0, ConstantsAssumption
    DEF User, UserWrites, UserStops, UserDecides, env, Types, EnvTypes
  <2>2. approved' \subseteq Calls
    <3>1. CASE UNCHANGED approved
      BY <1>0, <3>1 DEF Types, EnvTypes
    <3>2. CASE \E d \in Decision : UserDecides(d)
      <4>1. shown # NoAction
        BY <3>2 DEF UserDecides
      <4>2. shown.call \in Calls
        BY <1>0, <4>1 DEF Types, BusTypes, Proper
      <4> QED
        BY <1>0, <3>2, <4>2 DEF UserDecides, Types, EnvTypes
    <3> QED
      BY <3>1, <3>2 DEF User, UserWrites, UserStops, exec
  <2> QED
    BY <1>0, <2>1, <2>2
    DEF User, UserWrites, UserStops, UserDecides, status, env, exec, hist, Types, EnvTypes
<1> QED
    BY <1>1, <1>4, <1>5, OutsideKeeps

-----------------------------------------------------------------------------
LEMMA SetAgentStateToKeeps ==
    ASSUME IInv, NEW t \in Threads, SetAgentStateTo(t)
    PROVE  IInv'
BY SetStateKeeps, ClearPendingKeeps, ReissueKeeps, AnnounceKeeps DEF SetAgentStateTo

LEMMA NextKeeps == IInv /\ [Next]_vars => IInv'
<1> SUFFICES ASSUME IInv, [Next]_vars PROVE IInv'
    OBVIOUS
<1>1. CASE Controller
  <2>1. CASE Step
    <3>1. CASE \E conf \in {"none", "awaiting"} : LLMRuns(conf)
      BY <3>1, LLMRunsKeeps
    <3>2. CASE LLMThinks \/ \E kind \in {"say", "ask", "finish", "reject", "condense"} :
                               LLMTalks(kind)
      BY <3>2, LLMEmitsKeeps
    <3>3. CASE \E kind \in {"err", "condense"} : LLMUnusable(kind)
      BY <3>3, LLMUnusableKeeps
    <3> QED
      BY <2>1, <3>1, <3>2, <3>3, StepBeginKeeps, StepStuckKeeps, LLMRetriesKeeps,
         LLMFailsKeeps, EmitActionKeeps, ReactToExceptionKeeps DEF Step
  <2>2. CASE SetAgentStateTo("ctrl")
    BY <2>2, SetAgentStateToKeeps DEF Threads
  <2> QED
    BY <1>1, <2>1, <2>2, OnEventKeeps, HandleUserMessageKeeps, HandleActionKeeps,
       HandleObservationKeeps, EnsureRunningKeeps, StepUnlessWaitingKeeps
    DEF Controller
<1>2. CASE SessionLoop
  <2>1. CASE SetAgentStateTo("sess")
    BY <2>1, SetAgentStateToKeeps DEF Threads
  <2> QED
    BY <1>2, <2>1, StatusErrorKeeps DEF SessionLoop
<1>3. CASE UNCHANGED vars
  <2>1. Types /\ UNCHANGED <<todo, agentState, pending, halted>>
    BY <1>3 DEF IInv, vars, hist
  <2>2. BusTypes' /\ CtlTypes' /\ EnvTypes'
    BY <1>3, <2>1, TypesUntouched DEF vars
  <2> QED
    BY <2>1, <2>2, OutsideKeeps
<1> QED
    BY <1>1, <1>2, <1>3, RuntimeKeeps, MemoryKeeps, UserKeeps DEF Next

\* Every variable has its type: the events of the inboxes have their ids, the
\* threads have operations to do (agent_controller.py:443, 854).
THEOREM TypeCorrect == Spec => []TypeOK
<1>1. IInv => TypeOK
  <2> SUFFICES ASSUME Types PROVE TypeOK
    BY DEF IInv
  <2>1. todo \in [Threads -> Seq(Ops)]
    BY SeqMonotonic DEF Types, TodoTypes, GoodOps
  <2>2. pending \in Event
    BY DEF Types, CtlTypes, Proper
  <2> QED
    BY <2>1, <2>2 DEF Types, BusTypes, CtlTypes, EnvTypes, TypeOK
<1> QED
    BY <1>1, InitIInv, NextKeeps, PTL DEF Spec

\* Once a stop has been handled the LLM is not asked again before the user
\* writes (agent_controller.py:621-662, 854-870): the stop clears the pending
\* action, and only an answer to a pending action, or a message, sets RUNNING.
THEOREM StopIsKept == Spec => []StopHolds
<1>1. IInv => StopHolds
    BY DEF IInv, StopInv, HaltedIsQuiet, StopHolds, Doing, Ctrl, Starts
<1> QED
    BY <1>1, InitIInv, NextKeeps, PTL DEF Spec

-----------------------------------------------------------------------------
(* A RUNNING agent is never left waiting: what it waits for is on its way  *)
(* to an answer, and when it waits for nothing its next step is on its way.*)

\* What the controller's thread still has to do; what follows its first operation.
Work == Range(Ctrl)
Rest == Range(Tail(Ctrl))

\* The state is about to become RUNNING, or to be found so.
Sets(o, s) == o.op = "set" /\ o.arg = s
StartsRun(o) == o.op = "ensure running" \/ Sets(o, "RUNNING")
AboutToRun == Ctrl # <<>> /\ StartsRun(Head(Ctrl))

\* What is pending was made by a step, or by a message of the user, and the
\* runtime has it only as it is.
PendingIsKnown ==
    /\ pending.kind \in {"run", "recall", "null"}
    /\ pending.kind = "null" => pending = NoAction
    /\ pending.id = NoId \/ pending.id \in 1..(nextId - 1)
    /\ pending.kind = "recall" => pending.id # NoId
    /\ \A e \in Range(inR) : e.id = pending.id => e = pending

\* An event is handled after all other work.  A run begins when no tool call is
\* pending or about to be published, and a step follows.  The pending action is
\* cleared or published again, and an action that awaits a confirmation published,
\* when the agent does not run.
WorkFits ==
    /\ Doing("ctrl", "handle") => Tail(Ctrl) = <<>>
    /\ AboutToRun => /\ pending.kind # "run"
                     /\ \A o \in Work : o.op # "emit"
                     /\ \E o \in Work : o.op = "step"
    /\ Doing("ctrl", "clear") \/ Doing("ctrl", "reissue") => agentState # "RUNNING"
    /\ \A o \in Work : o.op = "emit" /\ o.ev.arg = "awaiting" =>
          agentState # "RUNNING" \/ Sets(Head(Ctrl), "AWAITING_USER_CONFIRMATION")

\* How the waiting for the pending action can end.
Answers(e) == e.kind \in Observations /\ e.cause = pending.id
AnswerComes == \/ \E e \in Range(inC) : Answers(e)
               \/ Doing("ctrl", "handle") /\ Answers(Ev("ctrl"))
Held(q) == \E e \in Range(q) : e.id = pending.id
ErrorComes == statusErrs > 0 \/ Doing("sess", "set")

\* What is asked of the memory or the runtime is with it, answered, or given up.
RecallIsAlive ==
    pending.kind = "recall" /\ (agentState = "RUNNING" \/ AboutToRun)
    => Held(inM) \/ AnswerComes \/ pending.id \in forsaken

RunIsAlive ==
    pending.kind = "run" /\ agentState = "RUNNING" =>
        IF pending.id = NoId THEN OpOn("emit", pending) \in Work
        ELSE pending.arg # "awaiting" /\ (Held(inR) \/ AnswerComes \/ ErrorComes)

\* Null observations are those of the memory, which have a cause.
NullsAnswer ==
    /\ \A e \in Range(inC) : e.kind = "null" => e.cause > 0
    /\ Doing("ctrl", "handle") /\ Ev("ctrl").kind = "null" => Ev("ctrl").cause > 0

\* Events and operations that lead to a step, or out of RUNNING.
Leads(e) == e.kind \notin {"run", "think", "recall"}
Drives(o) == \/ o.op \in {"set", "ensure running", "step", "step unless waiting",
                          "llm", "react", "emit"}
             \/ o.op = "handle" /\ Leads(o.ev)
StepComes == \/ \E o \in Work : Drives(o)
             \/ \E e \in Range(inC) : Leads(e)
             \/ \E e \in Range(inR) : e.arg # "awaiting"
             \/ inM # <<>>
             \/ ErrorComes
\* Waiting for nothing, a RUNNING agent has its next step before it.
RunGoesOn ==
    agentState = "RUNNING" /\ pending = NoAction /\ forsaken = {} => StepComes

LiveInv == PendingIsKnown /\ WorkFits /\ RecallIsAlive /\ RunIsAlive /\ NullsAnswer
           /\ RunGoesOn

-----------------------------------------------------------------------------
LEMMA Ranges ==
    /\ Range(<<>>) = {}
    /\ \A a : Range(<<a>>) = {a}
    /\ \A a, b : Range(<<a, b>>) = {a, b}
<1>1. Range(<<>>) = {}
    BY DEF Range
<1>2. ASSUME NEW a PROVE Range(<<a>>) = {a}
    BY DEF Range
<1>3. ASSUME NEW a, NEW b PROVE Range(<<a, b>>) = {a, b}
  <2>1. DOMAIN <<a, b>> = {1, 2} /\ <<a, b>>[1] = a /\ <<a, b>>[2] = b
    OBVIOUS
  <2> QED
    BY <2>1 DEF Range
<1> QED
    BY <1>1, <1>2, <1>3

LEMMA HeadOfOne == \A a : Head(<<a>>) = a
OBVIOUS

LEMMA RangeOfAppend ==
    ASSUME NEW S, NEW q \in Seq(S), NEW e \in S
    PROVE  Range(Append(q, e)) = Range(q) \cup {e}
<1>1. DOMAIN Append(q, e) = 1..(Len(q) + 1) /\ DOMAIN q = 1..Len(q) /\ Len(q) \in Nat
    OBVIOUS
<1>2. \A i \in 1..Len(q) : Append(q, e)[i] = q[i]
    OBVIOUS
<1>3. Append(q, e)[Len(q) + 1] = e
    OBVIOUS
<1> QED
    BY <1>1, <1>2, <1>3 DEF Range

LEMMA RangeOfHeadAndTail ==
    ASSUME NEW S, NEW q \in Seq(S), q # <<>>
    PROVE  Range(q) = {Head(q)} \cup Range(Tail(q))
<1>1. DOMAIN q = 1..Len(q) /\ DOMAIN Tail(q) = 1..(Len(q) - 1) /\ Len(q) \in Nat \ {0}
    OBVIOUS
<1>2. Head(q) = q[1] /\ \A i \in 1..(Len(q) - 1) : Tail(q)[i] = q[i + 1]
    OBVIOUS
<1>3. ASSUME NEW x \in Range(q) PROVE x = Head(q) \/ x \in Range(Tail(q))
  <2>1. PICK i \in 1..Len(q) : x = q[i]
    BY <1>1 DEF Range
  <2>2. CASE i # 1
    <3>1. i - 1 \in 1..(Len(q) - 1) /\ Tail(q)[i - 1] = x
      BY <1>1, <1>2, <2>1, <2>2
    <3> QED
      BY <1>1, <3>1 DEF Range
  <2> QED
    BY <1>2, <2>1, <2>2
<1>4. Head(q) \in Range(q)
    BY <1>1, <1>2 DEF Range
<1>5. ASSUME NEW x \in Range(Tail(q)) PROVE x \in Range(q)
  <2>1. PICK i \in 1..(Len(q) - 1) : x = Tail(q)[i]
    BY <1>1 DEF Range
  <2>2. i + 1 \in 1..Len(q) /\ x = q[i + 1]
    BY <1>1, <1>2, <2>1
  <2> QED
    BY <1>1, <2>2 DEF Range
<1> QED
    BY <1>3, <1>4, <1>5

\* The controller's work after a step.
LEMMA WorkGoesOn ==
    ASSUME TodoTypes, Ctrl # <<>>, NEW ops, Fits(ops), Then("ctrl", ops)
    PROVE  /\ Work = {Head(Ctrl)} \cup Rest
           /\ Work' = Range(ops) \cup Rest
           /\ ops # <<>> => Ctrl' # <<>> /\ Head(Ctrl') = Head(ops)
           /\ ops = <<>> => (Ctrl' # <<>> => Head(Ctrl') \in Later)
           /\ todo'["sess"] = todo["sess"]
<1>1. /\ Ctrl' = ops \o Tail(Ctrl) /\ todo'["sess"] = todo["sess"]
      /\ Ctrl \in Seq(GoodOps) /\ Tail(Ctrl) \in Seq(GoodOps)
  <2>1. Ctrl' = ops \o Tail(Ctrl) /\ todo'["sess"] = todo["sess"]
    BY DEF Then, Ctrl, TodoTypes, Threads
  <2>2. Ctrl \in Seq(GoodOps)
    BY DEF Ctrl, TodoTypes, Threads
  <2> QED
    BY <2>1, <2>2
<1>2. Work = {Head(Ctrl)} \cup Rest
    BY <1>1, RangeOfHeadAndTail DEF Work, Rest
<1>3. Work' = Range(ops) \cup Rest
  <2>1. ops \in Seq(GoodOps)
    BY DEF Fits
  <2>2. PICK q \in Seq(GoodOps) : q = Tail(Ctrl)
    BY <1>1
  <2>3. Range(ops \o q) = Range(ops) \cup Range(q)
    BY <2>1, RangeConcatenation
  <2> QED
    BY <1>1, <2>2, <2>3 DEF Work, Rest
<1> QED
    BY <1>1, <1>2, <1>3, CtrlGoesOn

\* A step that leaves the controller and the events alone, and no error out.
LEMMA OthersLive ==
    ASSUME LiveInv, Ctrl' = Ctrl, ErrorComes => ErrorComes',
           UNCHANGED <<nextId, inC, inR, inM, agentState, pending, forsaken>>
    PROVE  LiveInv'
<1>1. PendingIsKnown' /\ WorkFits'
    BY DEF LiveInv, PendingIsKnown, WorkFits, AboutToRun, Work, Doing, Ctrl
<1>2. AnswerComes' = AnswerComes /\ Held(inR)' = Held(inR) /\ Held(inM)' = Held(inM)
    BY DEF AnswerComes, Answers, Held, Doing, Ev, Ctrl
<1>3. RecallIsAlive'
    BY <1>2 DEF LiveInv, RecallIsAlive, AboutToRun
<1>4. RunIsAlive'
    BY <1>2 DEF LiveInv, RunIsAlive, Work
<1>5. NullsAnswer'
    BY DEF LiveInv, NullsAnswer, Doing, Ev, Ctrl
<1>6. RunGoesOn'
    BY DEF LiveInv, RunGoesOn, StepComes, Work
<1> QED
    BY <1>1, <1>3, <1>4, <1>5, <1>6 DEF LiveInv

\* A step of the controller that leaves the events and what it waits for alone,
\* goes on to nothing that starts a run, and loses no step.
LEMMA WorkLives ==
    ASSUME TodoTypes, LiveInv, Ctrl # <<>>,
           NEW ops, Fits(ops), Then("ctrl", ops),
           UNCHANGED <<nextId, inC, inR, inM, agentState, pending, forsaken>>,
           statusErrs > 0 => statusErrs' > 0,
           Head(Ctrl).op \notin {"emit", "set", "clear", "reissue"},
           Head(Ctrl).op = "handle" => Head(Ctrl).ev.kind \notin Observations,
           ops # <<>> =>
              /\ Head(ops).op \notin {"handle", "ensure running", "clear", "reissue"}
              /\ ~Sets(Head(ops), "RUNNING"),
           \A o \in Range(ops) : o.op = "emit" => o.ev.arg # "awaiting",
           agentState = "RUNNING" /\ pending = NoAction /\ Drives(Head(Ctrl)) =>
              statusErrs' > 0 \/ \E o \in Range(ops) : Drives(o)
    PROVE  LiveInv'
<1>1. /\ Work = {Head(Ctrl)} \cup Rest /\ Work' = Range(ops) \cup Rest
      /\ todo'["sess"] = todo["sess"]
    BY WorkGoesOn
<1>2. Ctrl' # <<>> =>
         /\ Head(Ctrl').op \notin {"handle", "ensure running", "clear", "reissue"}
         /\ ~Sets(Head(Ctrl'), "RUNNING")
    BY WorkGoesOn DEF Later, Sets
<1>3. /\ ~AboutToRun'
      /\ ~Doing("ctrl", "handle")' /\ ~Doing("ctrl", "clear")' /\ ~Doing("ctrl", "reissue")'
    BY <1>2 DEF AboutToRun, StartsRun, Sets, Doing, Ctrl
<1>4. ErrorComes => ErrorComes'
    BY <1>1 DEF ErrorComes, Doing
<1>5. PendingIsKnown'
    BY DEF LiveInv, PendingIsKnown
<1>6. WorkFits'
  <2>1. ASSUME NEW o \in Work', o.op = "emit", o.ev.arg = "awaiting"
        PROVE  agentState # "RUNNING"
    <3>1. o \in Work
      BY <1>1, <2>1
    <3> QED
      BY <2>1, <3>1 DEF LiveInv, WorkFits, Sets
  <2> QED
    BY <1>3, <2>1 DEF WorkFits
<1>7. /\ Held(inR)' = Held(inR) /\ Held(inM)' = Held(inM)
      /\ AnswerComes => AnswerComes'
  <2>1. ~(Doing("ctrl", "handle") /\ Answers(Ev("ctrl")))
    BY DEF Doing, Answers, Ev, Ctrl
  <2> QED
    BY <2>1 DEF AnswerComes, Answers, Held
<1>8. RecallIsAlive'
    BY <1>3, <1>7 DEF LiveInv, RecallIsAlive
<1>9. RunIsAlive'
  <2>1. OpOn("emit", pending) \in Work => OpOn("emit", pending) \in Work'
    <3>1. OpOn("emit", pending).op = "emit"
      BY DEF OpOn
    <3> QED
      BY <1>1, <3>1
  <2> QED
    BY <1>4, <1>7, <2>1 DEF LiveInv, RunIsAlive
<1>10. NullsAnswer'
    BY <1>3 DEF LiveInv, NullsAnswer
<1>11. RunGoesOn'
  <2>1. CASE StepComes
    <3>1. (\E o \in Work : Drives(o)) /\ agentState = "RUNNING" /\ pending = NoAction
            => statusErrs' > 0 \/ \E o \in Work' : Drives(o)
      BY <1>1
    <3> QED
      BY <1>4, <2>1, <3>1 DEF RunGoesOn, StepComes, ErrorComes
  <2> QED
    BY <2>1 DEF LiveInv, RunGoesOn
<1> QED
    BY <1>5, <1>6, <1>8, <1>9, <1>10, <1>11 DEF LiveInv

-----------------------------------------------------------------------------
(* The controller's steps that only change its work.                       *)

LEMMA HandleActionLives ==
    ASSUME IInv, LiveInv, HandleAction
    PROVE  LiveInv'
<1> DEFINE e == Ev("ctrl")
           set(s) == Op("set", s)
           step == Op("step", "none")
           unless == Op("step unless waiting", "none")
<1>1. /\ Types /\ Ctrl # <<>> /\ Head(Ctrl).op = "handle" /\ Head(Ctrl).ev = e
      /\ e.kind \notin Observations \cup {"msg"}
    BY DEF IInv, HandleAction, Handling, Doing, Ctrl, Ev
<1>2. e \in Proper
    BY <1>1, HeadIsTyped DEF Types, GoodOps, Ctrl, Threads
<1>3. /\ Then("ctrl", ActionWork(e))
      /\ UNCHANGED <<nextId, inC, inR, inM, agentState, pending, forsaken, statusErrs>>
    BY DEF HandleAction, ActionWork, bus, inboxes, status
<1>4. /\ \A s \in AgentState : set(s) \in GoodOps /\ set(s).op = "set" /\ set(s).arg = s
      /\ unless \in Later /\ step \in Later
      /\ unless.op = "step unless waiting" /\ step.op = "step"
    BY Operations DEF Op, Later
<1>5. PICK s \in AgentState :
         \/ /\ \/ ActionWork(e) = <<set(s)>>
               \/ ActionWork(e) = <<set(s), unless>>
            /\ s # "RUNNING"
         \/ ActionWork(e) = <<step>>
         \/ ActionWork(e) = <<unless>>
         \/ /\ ActionWork(e) = <<>>
            /\ e.kind \notin {"change", "finish", "reject", "condense", "ask", "say"}
    BY <1>2, ActionWorks
<1> HIDE DEF set, step, unless, e
<1> DEFINE ops == ActionWork(e)
<1>6. /\ Fits(ops)
      /\ Range(ops) \subseteq {set(s), step, unless}
      /\ ops # <<>> => Head(ops) \in Range(ops) /\ (Head(ops) = set(s) => s # "RUNNING")
  <2>1. step \in GoodOps /\ unless \in GoodOps
    BY <1>4 DEF Later
  <2>2. Fits(ops)
    BY <1>4, <1>5, <2>1, Fitting
  <2>3. set(s) # step /\ set(s) # unless
    BY <1>4
  <2> QED
    BY <1>5, <2>2, <2>3, Ranges
<1>7. Drives(Head(Ctrl)) => \E o \in Range(ops) : Drives(o)
  <2>1. Drives(set(s)) /\ Drives(step) /\ Drives(unless)
    BY <1>4 DEF Drives
  <2>2. ops = <<>> => ~Leads(e)
    <3>1. e.kind \in Kinds
      BY <1>2 DEF Proper, Event
    <3>2. ops = <<>> =>
             e.kind \notin {"change", "finish", "reject", "condense", "ask", "say"}
      <4> HIDE DEF ops
      <4> QED
        BY <1>5 DEF ops
    <3> QED
      BY <1>1, <3>1, <3>2 DEF Leads, Kinds, Observations
  <2>3. Drives(Head(Ctrl)) => Leads(e)
    BY <1>1 DEF Drives
  <2> QED
    BY <1>5, <2>1, <2>2, <2>3, Ranges
<1> HIDE DEF ops
<1>8. /\ ops # <<>> =>
           /\ Head(ops).op \notin {"handle", "ensure running", "clear", "reissue"}
           /\ ~Sets(Head(ops), "RUNNING")
      /\ \A o \in Range(ops) : o.op = "emit" => o.ev.arg # "awaiting"
    BY <1>4, <1>6 DEF Sets
<1> QED
    BY <1>1, <1>3, <1>6, <1>7, <1>8, WorkLives DEF ops, Types

\* The head of the work is replaced by one operation, or done.
LEMMA OneWorkLives ==
    ASSUME TodoTypes, LiveInv, Ctrl # <<>>,
           NEW a \in GoodOps, NEW ops \in {<<a>>, <<>>}, Then("ctrl", ops),
           UNCHANGED <<nextId, inC, inR, inM, agentState, pending, forsaken>>,
           statusErrs > 0 => statusErrs' > 0,
           Head(Ctrl).op \notin {"emit", "set", "clear", "reissue", "handle"},
           a.op \notin {"handle", "ensure running", "clear", "reissue"},
           ~Sets(a, "RUNNING"),
           a.op = "emit" => a.ev.arg # "awaiting",
           ops = <<>> /\ agentState = "RUNNING" /\ pending = NoAction =>
              ~Drives(Head(Ctrl)),
           ops = <<a>> => Drives(a)
    PROVE  LiveInv'
<1>1. Fits(ops) /\ Range(ops) \subseteq {a} /\ (ops # <<>> => Head(ops) = a)
  <2>1. Range(<<>>) = {} /\ Range(<<a>>) = {a}
    BY Ranges
  <2>2. Head(<<a>>) = a
    BY HeadOfOne
  <2>3. Fits(<<>>) /\ Fits(<<a>>)
    BY Fitting
  <2> QED
    BY <2>1, <2>2, <2>3
<1>2. Drives(Head(Ctrl)) /\ agentState = "RUNNING" /\ pending = NoAction
        => \E o \in Range(ops) : Drives(o)
  <2>1. CASE ops = <<>>
    BY <2>1
  <2>2. CASE ops = <<a>>
    BY <2>2, Ranges
  <2> QED
    BY <2>1, <2>2
<1> QED
    BY <1>1, <1>2, WorkLives

LEMMA StepUnlessWaitingLives ==
    ASSUME IInv, LiveInv, StepUnlessWaiting
    PROVE  LiveInv'
<1> DEFINE step == Op("step", "none")
           ops == When(agentState # "AWAITING_USER_INPUT", <<step>>)
<1>1. TodoTypes /\ Ctrl # <<>> /\ Head(Ctrl).op = "step unless waiting"
    BY DEF IInv, Types, StepUnlessWaiting, Doing, Ctrl
<1>2. /\ ops = <<step>> \/ (ops = <<>> /\ agentState # "RUNNING")
      /\ Then("ctrl", ops)
      /\ UNCHANGED <<nextId, inC, inR, inM, agentState, pending, forsaken, statusErrs>>
    BY DEF StepUnlessWaiting, When, bus, inboxes, status, hist
<1>3. step \in GoodOps /\ step.op = "step" /\ ~Sets(step, "RUNNING") /\ Drives(step)
    BY Operations DEF Op, Sets, Drives
<1> HIDE DEF ops, step
<1> QED
    BY <1>1, <1>2, <1>3, OneWorkLives

LEMMA StepBeginLives ==
    ASSUME IInv, LiveInv, StepBegin \/ StepStuck
    PROVE  LiveInv'
<1> DEFINE react == Op("react", "none")
           llm == Op("llm", "none")
<1>1. TodoTypes /\ Ctrl # <<>> /\ Head(Ctrl).op = "step"
    BY DEF IInv, Types, StepBegin, StepStuck, Doing, Ctrl
<1>2. /\ react \in GoodOps /\ react.op = "react" /\ Drives(react)
      /\ llm \in GoodOps /\ llm.op = "llm" /\ Drives(llm)
    BY Operations DEF Op, Drives
<1>3. PICK a \in {react, llm} :
         Then("ctrl", <<a>>) \/ (Then("ctrl", <<>>) /\ ~MayStep)
  <2>1. Then("ctrl", <<react>>) \/ Then("ctrl", <<llm>>) \/ (Then("ctrl", <<>>) /\ ~MayStep)
    BY DEF StepBegin, StepStuck
  <2> HIDE DEF react, llm
  <2> QED
    BY <2>1
<1>4. UNCHANGED <<nextId, inC, inR, inM, agentState, pending, forsaken, statusErrs>>
    BY DEF StepBegin, StepStuck, bus, inboxes, status, hist
<1> HIDE DEF react, llm
<1>5. /\ a \in GoodOps /\ a.op \in {"react", "llm"} /\ Drives(a)
      /\ ~Sets(a, "RUNNING")
    BY <1>2 DEF Sets
<1>6. PICK ops \in {<<a>>, <<>>} : Then("ctrl", ops) /\ (ops = <<a>> \/ ~MayStep)
    BY <1>3
<1>7. ops = <<>> => ~MayStep
    BY <1>6
<1> QED
    BY <1>1, <1>4, <1>5, <1>6, <1>7, OneWorkLives DEF MayStep

\* What the LLM's answer, its failure or an exception leads to.
LEMMA LLMLives ==
    ASSUME IInv, LiveInv,
           \/ LLMThinks \/ LLMRetries \/ LLMRateLimited \/ LLMFails \/ ReactToException
           \/ \E kind \in {"say", "ask", "finish", "reject", "condense"} : LLMTalks(kind)
    PROVE  LiveInv'
<1>0. IInv' /\ Types
    BY LLMRetriesKeeps, LLMFailsKeeps, LLMEmitsKeeps, ReactToExceptionKeeps DEF IInv
<1>1. /\ TodoTypes /\ Ctrl # <<>> /\ Head(Ctrl).op \in {"llm", "react"}
      /\ Head(Ctrl) \in GoodOps
  <2>1. TodoTypes /\ Ctrl # <<>> /\ Head(Ctrl).op \in {"llm", "react"}
    BY <1>0 DEF Types, LLMThinks, LLMRetries, LLMRateLimited, LLMFails, LLMTalks,
                ReactToException, Doing, Ctrl
  <2> QED
    BY <2>1, HeadIsTyped DEF Ctrl, Threads
<1>2. /\ UNCHANGED <<nextId, inC, inR, inM, agentState, pending, forsaken>>
      /\ statusErrs > 0 => statusErrs' > 0
    BY <1>0 DEF LLMThinks, LLMRetries, LLMRateLimited, LLMFails, LLMTalks, ReactToException,
                bus, inboxes, status, hist, Types, EnvTypes
<1>3. PICK a :
         /\ Then("ctrl", <<a>>)
         /\ \/ a.op \in {"llm", "react"}
            \/ a.op = "set" /\ a.arg \in {"ERROR", "RATE_LIMITED"}
            \/ a.op = "emit" /\ a.ev.arg = "none"
  <2>1. CASE LLMThinks
    <3> DEFINE a == OpOn("emit", NewEvent("think", NoCause, used', "none"))
    <3>1. Then("ctrl", <<a>>)
      BY <2>1 DEF LLMThinks
    <3>2. a.op = "emit" /\ a.ev.arg = "none"
      BY DEF OpOn, NewEvent
    <3> QED
      BY <3>1, <3>2
  <2>2. CASE \E kind \in {"say", "ask", "finish", "reject", "condense"} : LLMTalks(kind)
    <3>1. PICK kind : LLMTalks(kind)
      BY <2>2
    <3> DEFINE a == OpOn("emit", NewEvent(kind, NoCause, NoCall, "none"))
    <3>2. Then("ctrl", <<a>>)
      BY <3>1 DEF LLMTalks
    <3>3. a.op = "emit" /\ a.ev.arg = "none"
      BY DEF OpOn, NewEvent
    <3> QED
      BY <3>2, <3>3
  <2>3. CASE LLMRetries
    <3> DEFINE a == [Head(Ctrl) EXCEPT !.failed = @ + 1]
    <3>1. Then("ctrl", <<a>>)
      BY <2>3 DEF LLMRetries, Ctrl
    <3>2. a.op = "llm"
      <4>1. Head(Ctrl).op = "llm"
        BY <2>3 DEF LLMRetries, Doing, Ctrl
      <4> QED
        BY <1>1, <4>1 DEF GoodOps, Ops
    <3> QED
      BY <3>1, <3>2
  <2>4. CASE LLMRateLimited
    <3>1. PICK n : Then("ctrl", <<Op("set", RateLimitState(n))>>)
      BY <2>4 DEF LLMRateLimited
    <3> DEFINE a == Op("set", RateLimitState(n))
    <3>2. a.op = "set" /\ a.arg \in {"ERROR", "RATE_LIMITED"}
      BY DEF Op, RateLimitState
    <3> QED
      BY <3>1, <3>2
  <2>5. CASE LLMFails
    <3> DEFINE a == Op("react", "none")
    <3>1. Then("ctrl", <<a>>) /\ a.op = "react"
      BY <2>5 DEF LLMFails, Op
    <3> QED
      BY <3>1
  <2>6. CASE ReactToException
    <3> DEFINE a == Op("set", "ERROR")
    <3>1. Then("ctrl", <<a>>) /\ a.op = "set" /\ a.arg = "ERROR"
      BY <2>6 DEF ReactToException, Op
    <3> QED
      BY <3>1
  <2> QED
    BY <2>1, <2>2, <2>3, <2>4, <2>5, <2>6
<1>4. a \in GoodOps
  <2>1. Ctrl' = <<a>> \o Tail(Ctrl)
    BY <1>1, <1>3 DEF Then, TodoTypes, Threads, Ctrl
  <2>2. <<a>> \o Tail(Ctrl) \in Seq(GoodOps) /\ Tail(Ctrl) \in Seq(GoodOps)
    BY <1>0, <1>1, <2>1 DEF IInv, Types, TodoTypes, Threads, Ctrl
  <2>3. (<<a>> \o Tail(Ctrl))[1] = a /\ Len(<<a>> \o Tail(Ctrl)) >= 1
    BY <2>2
  <2> QED
    BY <2>2, <2>3
<1>5. ~Sets(a, "RUNNING") /\ Drives(a)
    BY <1>3 DEF Sets, Drives
<1> QED
    BY <1>1, <1>2, <1>3, <1>4, <1>5, OneWorkLives

LEMMA AnnounceLives ==
    ASSUME IInv, LiveInv, NEW t \in Threads,
           Announce(t) \/ PublishState(t) \/ PickleState(t) \/ WriteState(t)
    PROVE  LiveInv'
<1> DEFINE publish == Op("publish", agentState)
           pickle == Op("pickle", "none")
           write == Op("write", agentState)
<1>0. Types
    BY DEF IInv
<1>1. todo[t] # <<>> /\ Head(todo[t]).op \in {"announce", "publish", "pickle", "write"}
    BY DEF Announce, PublishState, PickleState, WriteState, Doing
<1>2. UNCHANGED <<nextId, inC, inR, inM, agentState, pending, forsaken, statusErrs>>
    BY DEF Announce, PublishState, PickleState, WriteState, bus, inboxes, status, hist
<1>3. PICK ops \in {<<>>, <<publish, pickle>>, <<write>>} : Then(t, ops)
    BY DEF Announce, PublishState, PickleState, WriteState
<1>4. /\ publish \in GoodOps /\ write \in GoodOps /\ pickle \in Later
      /\ publish.op = "publish" /\ pickle.op = "pickle" /\ write.op = "write"
    BY <1>0, Operations DEF Types, CtlTypes, Later, Op
<1> HIDE DEF publish, pickle, write
<1>5. CASE t = "ctrl"
  <2>1. Fits(ops)
    BY <1>4, Fitting
  <2>2. /\ Range(ops) \subseteq {publish, pickle, write}
        /\ ops # <<>> => Head(ops) \in Range(ops)
    <3>1. Head(<<publish, pickle>>) = publish /\ Head(<<write>>) = write
      OBVIOUS
    <3> QED
      BY <3>1, Ranges
  <2>3. /\ ops # <<>> =>
             /\ Head(ops).op \notin {"handle", "ensure running", "clear", "reissue"}
             /\ ~Sets(Head(ops), "RUNNING")
        /\ \A o \in Range(ops) : o.op # "emit"
    BY <1>4, <2>2 DEF Sets
  <2>4. ~Drives(Head(Ctrl))
    BY <1>1, <1>5 DEF Drives, Ctrl
  <2> QED
    BY <1>0, <1>1, <1>2, <1>3, <1>5, <2>1, <2>3, <2>4, WorkLives DEF Types, Ctrl
<1>6. CASE t = "sess"
  <2>1. Ctrl' = Ctrl
    BY <1>0, <1>3, <1>6 DEF Then, Types, TodoTypes, Threads, Ctrl
  <2>2. ErrorComes => ErrorComes'
    BY <1>1, <1>2, <1>6 DEF ErrorComes, Doing
  <2> QED
    BY <1>2, <2>1, <2>2, OthersLive
<1> QED
    BY <1>5, <1>6 DEF Threads

LEMMA EnsureRunningLives ==
    ASSUME IInv, LiveInv, EnsureRunning
    PROVE  LiveInv'
<1> DEFINE run == Op("set", "RUNNING")
           ops == When(agentState # "RUNNING", <<run>>)
<1>1. /\ TodoTypes /\ Ctrl # <<>> /\ Head(Ctrl).op = "ensure running" /\ AboutToRun
    BY DEF IInv, Types, EnsureRunning, Doing, Ctrl, AboutToRun, StartsRun
<1>2. /\ Then("ctrl", ops)
      /\ UNCHANGED <<nextId, inC, inR, inM, agentState, pending, forsaken, statusErrs>>
    BY DEF EnsureRunning, bus, inboxes, status, hist
<1>3. run \in GoodOps /\ run.op = "set" /\ Sets(run, "RUNNING")
    BY Operations DEF AgentState, Op, Sets
<1>4. ops = <<run>> \/ (ops = <<>> /\ agentState = "RUNNING")
    BY DEF When
<1> HIDE DEF ops, run
<1>5. Fits(ops) /\ Range(ops) \subseteq {run} /\ (ops # <<>> => Head(ops) = run)
    BY <1>3, <1>4, Fitting, Ranges, HeadOfOne
<1>6. /\ Work = {Head(Ctrl)} \cup Rest /\ Work' = Range(ops) \cup Rest
      /\ Ctrl' # <<>> => Head(Ctrl') = run \/ Head(Ctrl') \in Later
      /\ todo'["sess"] = todo["sess"]
    BY <1>1, <1>2, <1>5, WorkGoesOn
<1>7. ~(\E name \in {"handle", "clear", "reissue"} : Doing("ctrl", name)')
    BY <1>3, <1>6 DEF Later, Doing, Ctrl
<1>8. /\ pending.kind # "run"
      /\ \A o \in Work' : o.op # "emit"
      /\ \E o \in Work' : o.op = "step"
  <2>1. /\ pending.kind # "run" /\ (\A o \in Work : o.op # "emit")
        /\ \E o \in Work : o.op = "step"
    BY <1>1 DEF LiveInv, WorkFits
  <2> QED
    BY <1>1, <1>3, <1>5, <1>6, <2>1
<1>9. PendingIsKnown'
    BY <1>2 DEF LiveInv, PendingIsKnown
<1>10. WorkFits'
    BY <1>2, <1>7, <1>8 DEF WorkFits
<1>11. RecallIsAlive'
    BY <1>1, <1>2 DEF LiveInv, RecallIsAlive, AnswerComes, Answers, Held, Doing, Ctrl
<1>12. RunIsAlive'
    BY <1>2, <1>8 DEF RunIsAlive
<1>13. NullsAnswer'
    BY <1>2, <1>7 DEF LiveInv, NullsAnswer
<1>14. RunGoesOn'
    BY <1>8 DEF RunGoesOn, StepComes, Drives
<1> QED
    BY <1>9, <1>10, <1>11, <1>12, <1>13, <1>14 DEF LiveInv

LEMMA OnEventLives ==
    ASSUME IInv, LiveInv, OnEvent
    PROVE  LiveInv'
<1> DEFINE e == Head(inC)
           o == OpOn("handle", e)
<1>0. Types /\ Ctrl = <<>>
    BY DEF IInv, OnEvent, Ctrl
<1>1. Ctrl' = <<o>> /\ todo'["sess"] = todo["sess"]
    BY <1>0 DEF OnEvent, Ctrl, Types, TodoTypes, Threads
<1>2. Range(inC) = {e} \cup Range(Tail(inC)) /\ inC' = Tail(inC)
    BY <1>0, RangeOfHeadAndTail DEF OnEvent, Types, BusTypes
<1>3. UNCHANGED <<nextId, inR, inM, agentState, pending, forsaken, statusErrs>>
    BY DEF OnEvent, status, hist
<1>4. o.op = "handle" /\ o.ev = e
    BY DEF OpOn
<1> HIDE DEF o, e
<1>5. Tail(Ctrl') = <<>> /\ Head(Ctrl') = o /\ Work' = {o} /\ Work = {}
  <2>1. Tail(<<o>>) = <<>>
    OBVIOUS
  <2> QED
    BY <1>0, <1>1, <2>1, HeadOfOne, Ranges DEF Work
<1>6. /\ Doing("ctrl", "handle")' /\ Ev("ctrl")' = e
      /\ ~AboutToRun' /\ ~Doing("ctrl", "clear")' /\ ~Doing("ctrl", "reissue")'
  <2>1. Ctrl' # <<>> /\ Head(Ctrl').op = "handle" /\ Head(Ctrl').ev = e
    BY <1>1, <1>4, <1>5
  <2> QED
    BY <2>1 DEF Doing, Ev, Ctrl, AboutToRun, StartsRun, Sets
<1>7. ~Doing("ctrl", "handle") /\ ~AboutToRun
    BY <1>0 DEF Doing, Ctrl, AboutToRun
<1>8. (ErrorComes => ErrorComes') /\ (AnswerComes => AnswerComes')
  <2>1. ErrorComes => ErrorComes'
    BY <1>1, <1>3 DEF ErrorComes, Doing
  <2>2. AnswerComes => Answers(e) \/ \E x \in Range(inC') : Answers(x)
    BY <1>2, <1>7 DEF AnswerComes
  <2>3. Answers(e) \/ (\E x \in Range(inC') : Answers(x)) => AnswerComes'
    BY <1>3, <1>6 DEF AnswerComes, Answers
  <2> QED
    BY <2>1, <2>2, <2>3
<1>9. PendingIsKnown'
    BY <1>3 DEF LiveInv, PendingIsKnown
<1>10. WorkFits'
    BY <1>4, <1>5, <1>6 DEF WorkFits
<1>11. RecallIsAlive'
    BY <1>3, <1>6, <1>8 DEF LiveInv, RecallIsAlive, Held
<1>12. RunIsAlive'
    BY <1>3, <1>5, <1>8 DEF LiveInv, RunIsAlive, Held
<1>13. NullsAnswer'
    BY <1>2, <1>6 DEF LiveInv, NullsAnswer
<1>14. RunGoesOn'
  <2>1. Leads(e) => Drives(o)
    BY <1>4 DEF Drives
  <2>2. CASE StepComes
    BY <1>2, <1>3, <1>5, <1>8, <2>1, <2>2 DEF RunGoesOn, StepComes
  <2> QED
    BY <1>3, <2>2 DEF LiveInv, RunGoesOn
<1> QED
    BY <1>9, <1>10, <1>11, <1>12, <1>13, <1>14 DEF LiveInv

-----------------------------------------------------------------------------
(* Steps that publish an event.                                            *)

\* A new event has a new id.
LEMMA PublishedIsNew ==
    ASSUME BusTypes, NEW e \in Proper, NEW R \in Seq(Sent), NEW M \in Seq(Sent),
           PublishTo(e, R, M)
    PROVE  LET f == WithId(e) IN
           /\ nextId \in Nat \ {0} /\ nextId' = nextId + 1
           /\ f.id = nextId /\ f.kind = e.kind /\ f.cause = e.cause /\ f.arg = e.arg
           /\ Range(inC') = Range(inC) \cup {f}
           /\ Range(inR') = Range(R) \cup (IF e.kind \in {"run", "think"} THEN {f} ELSE {})
           /\ inM' = IF e.kind = "recall" THEN Append(M, f) ELSE M
           /\ e.kind = "recall" => f \in Range(inM')
           /\ \A x \in Range(R) : x.id \in 1..(nextId - 1)
<1> DEFINE f == WithId(e)
<1>1. f.id = nextId /\ f.kind = e.kind /\ f.cause = e.cause /\ f.arg = e.arg
    BY DEF WithId, Proper, Event
<1>2. nextId \in Nat \ {0} /\ nextId' = nextId + 1
    BY DEF BusTypes, PublishTo
<1>3. f \in Proper
    BY WithIdIsProper DEF BusTypes
<1>4. /\ inC' = Append(inC, f)
      /\ inR' = IF f.kind \in {"run", "think"} THEN Append(R, f) ELSE R
      /\ inM' = IF f.kind = "recall" THEN Append(M, f) ELSE M
    BY DEF PublishTo
<1> HIDE DEF f
<1>5. Range(inC') = Range(inC) \cup {f}
    BY <1>3, <1>4, RangeOfAppend DEF BusTypes
<1>6. f \in Sent \cup {f} /\ R \in Seq(Sent \cup {f}) /\ M \in Seq(Sent \cup {f})
    BY SeqMonotonic
<1>7. Range(inR') = Range(R) \cup (IF e.kind \in {"run", "think"} THEN {f} ELSE {})
    BY <1>1, <1>4, <1>6, RangeOfAppend
<1>8. e.kind = "recall" => f \in Range(inM')
    BY <1>1, <1>4, <1>6, RangeOfAppend
<1>9. \A x \in Range(R) : x.id \in 1..(nextId - 1)
    BY RangeOfSeq DEF Sent
<1> QED
    BY <1>1, <1>2, <1>4, <1>5, <1>7, <1>8, <1>9 DEF f

LEMMA OldIds ==
    ASSUME BusTypes
    PROVE  /\ inR \in Seq(Sent) /\ inM \in Seq(Sent)
           /\ \A x \in Range(inR) : x.id \in 1..(nextId - 1) /\ x.id # NoId
<1>1. inR \in Seq(Sent) /\ inM \in Seq(Sent)
    BY DEF BusTypes
<1>2. \A x \in Range(inR) : x.id \in 1..(nextId - 1)
    BY <1>1, RangeOfSeq DEF Sent
<1> QED
    BY <1>1, <1>2 DEF NoId

\* The work of an event's handler is the only work.
LEMMA HandlerIsAlone ==
    ASSUME LiveInv, Doing("ctrl", "handle")
    PROVE  Rest = {}
BY Ranges DEF LiveInv, WorkFits, Rest

LEMMA HandleUserMessageLives ==
    ASSUME IInv, LiveInv, HandleUserMessage
    PROVE  LiveInv'
<1> DEFINE recall == NewEvent("recall", NoCause, NoCall, "none")
           ensure == Op("ensure running", "none")
           step == Op("step", "none")
<1>0. Types /\ Doing("ctrl", "handle") /\ Ctrl # <<>>
    BY DEF IInv, HandleUserMessage, Handling, Doing, Ctrl
<1>1. recall \in Proper /\ recall.kind = "recall" /\ recall.arg = "none"
  <2>1. /\ NoCause \in Nat \cup {NoId} /\ NoCall \in 0..MaxCalls
        /\ "recall" \in Kinds /\ "none" \in Confirmation
    BY ConstantsAssumption DEF NoCause, NoCall, Kinds, Confirmation
  <2>2. recall \in Proper
    BY <2>1, Constructors
  <2> QED
    BY <2>2 DEF NewEvent
<1>2. /\ pending' = WithId(recall) /\ PublishTo(recall, inR, inM)
      /\ Then("ctrl", <<ensure, step>>)
    BY DEF HandleUserMessage, Publish
<1>3. /\ ensure \in GoodOps /\ ensure.op = "ensure running"
      /\ step \in Later /\ step.op = "step"
    BY Operations DEF Later, Op
<1> HIDE DEF recall, ensure, step
<1>4. /\ nextId \in Nat \ {0} /\ nextId' = nextId + 1
      /\ pending'.id = nextId /\ pending'.kind = "recall"
      /\ Range(inC') = Range(inC) \cup {pending'} /\ Range(inR') = Range(inR)
      /\ pending' \in Range(inM')
      /\ \A x \in Range(inR) : x.id \in 1..(nextId - 1)
    BY <1>0, <1>1, <1>2, OldIds, PublishedIsNew DEF Types
<1>5. /\ Ctrl' # <<>> /\ Head(Ctrl') = ensure /\ Work' = {ensure, step}
  <2>1. Fits(<<ensure, step>>) /\ Range(<<ensure, step>>) = {ensure, step}
    BY <1>3, Fitting, Ranges
  <2>2. <<ensure, step>> # <<>> /\ Head(<<ensure, step>>) = ensure
    OBVIOUS
  <2> QED
    BY <1>0, <1>2, <2>1, <2>2, HandlerIsAlone, WorkGoesOn DEF Types
<1>6. ~(\E name \in {"handle", "clear", "reissue"} : Doing("ctrl", name)')
    BY <1>3, <1>5 DEF Doing, Ctrl
<1>7. PendingIsKnown'
  <2>1. pending'.id \in 1..(nextId' - 1) /\ pending'.id # NoId
    BY <1>4 DEF NoId
  <2>2. \A x \in Range(inR') : x.id # pending'.id
    BY <1>4
  <2> QED
    BY <1>4, <2>1, <2>2 DEF PendingIsKnown
<1>8. WorkFits'
    BY <1>3, <1>4, <1>5, <1>6 DEF WorkFits
<1>9. RecallIsAlive'
    BY <1>4 DEF RecallIsAlive, Held
<1>10. RunIsAlive'
    BY <1>4 DEF RunIsAlive
<1>11. NullsAnswer'
    BY <1>4, <1>6 DEF LiveInv, NullsAnswer
<1>12. RunGoesOn'
    BY <1>3, <1>5 DEF RunGoesOn, StepComes, Drives
<1> QED
    BY <1>7, <1>8, <1>9, <1>10, <1>11, <1>12 DEF LiveInv

LEMMA NothingPending ==
    ASSUME BusTypes
    PROVE  /\ NoAction.kind = "null" /\ NoAction.id = NoId
           /\ \A x \in Range(inR) : x.id # NoAction.id
BY OldIds DEF NoAction, NewEvent

LEMMA HandleObservationLives ==
    ASSUME IInv, LiveInv, HandleObservation
    PROVE  LiveInv'
<1> DEFINE e == Ev("ctrl")
           answers == /\ pending # NoAction /\ pending.id = e.cause
                      /\ agentState # "AWAITING_USER_CONFIRMATION"
           set(s) == Op("set", s)
           step == Op("step", "none")
           ops == ObservationWork(answers, e)
<1>0. /\ Types /\ Doing("ctrl", "handle") /\ Ctrl # <<>> /\ Head(Ctrl).op = "handle"
      /\ e.kind \in Observations
    BY DEF IInv, HandleObservation, Handling, Doing, Ctrl
<1>1. /\ Then("ctrl", ops) /\ pending' = (IF answers THEN NoAction ELSE pending)
      /\ UNCHANGED <<nextId, inC, inR, inM, agentState, forsaken, statusErrs>>
    BY DEF HandleObservation, ObservationWork, bus, inboxes, status, hist
<1>2. StepsOn(e)
    BY <1>0 DEF LiveInv, NullsAnswer, StepsOn
<1>3. \/ ops = <<step>>
      \/ answers /\ \E s \in {"RUNNING", "AWAITING_USER_INPUT"} : ops = <<set(s), step>>
  <2>1. answers \in BOOLEAN
    OBVIOUS
  <2> HIDE DEF answers
  <2> QED
    BY <1>2, <2>1, ObservationWorks
<1>4. /\ \A s \in {"RUNNING", "AWAITING_USER_INPUT"} :
            set(s) \in GoodOps /\ set(s).op = "set"
      /\ step \in Later /\ step \in GoodOps /\ step.op = "step"
    BY Operations DEF Op, Later, AgentState
<1>5. ~answers /\ agentState = "RUNNING" /\ pending # NoAction => ~Answers(e)
    BY DEF Answers
<1> HIDE DEF ops, set, step, answers
<1>6. PICK a \in GoodOps :
         /\ a = step \/ (answers /\ a.op = "set")
         /\ ops = <<a>> \/ ops = <<a, step>>
         /\ a = step \/ ops = <<a, step>>
    BY <1>3, <1>4
<1>7. /\ Work = {Head(Ctrl)} /\ Work' \subseteq {a, step} /\ step \in Work'
      /\ Ctrl' # <<>> /\ Head(Ctrl') = a /\ todo'["sess"] = todo["sess"]
  <2>1. /\ Fits(ops) /\ Range(ops) \subseteq {a, step} /\ step \in Range(ops)
        /\ ops # <<>> /\ Head(ops) = a
    <3>1. CASE ops = <<a>>
      <4>1. a = step
        <5>1. <<a>> # <<a, step>>
          OBVIOUS
        <5> QED
          BY <1>6, <3>1, <5>1
      <4>2. <<a>> # <<>> /\ Head(<<a>>) = a
        BY HeadOfOne
      <4> QED
        BY <1>6, <3>1, <4>1, <4>2, Fitting, Ranges
    <3>2. CASE ops = <<a, step>>
      <4>1. ops # <<>> /\ Head(ops) = a
        BY <3>2
      <4>2. Fits(ops)
        BY <1>4, <3>2, Fitting
      <4>3. Range(ops) = {a, step}
        BY <3>2, Ranges
      <4> QED
        BY <4>1, <4>2, <4>3
    <3> QED
      BY <1>6, <3>1, <3>2
  <2> QED
    BY <1>0, <1>1, <2>1, HandlerIsAlone, WorkGoesOn DEF Types
<1>8. /\ ~(\E name \in {"handle", "clear", "reissue"} : Doing("ctrl", name)')
      /\ AboutToRun' => pending' = NoAction
  <2>1. a.op \in {"set", "step"} /\ (a.op = "set" => answers)
    BY <1>4, <1>6
  <2> QED
    BY <1>1, <1>7, <2>1 DEF Doing, Ctrl, AboutToRun, StartsRun, Sets
<1>9. PendingIsKnown'
    BY <1>0, <1>1, NothingPending DEF LiveInv, PendingIsKnown, Types
<1>10. WorkFits'
  <2>1. \A o \in Work' : o.op # "emit"
    BY <1>4, <1>6, <1>7
  <2>2. AboutToRun' => pending'.kind # "run"
    BY <1>0, <1>8, NothingPending DEF Types
  <2> QED
    BY <1>4, <1>7, <1>8, <2>1, <2>2 DEF WorkFits
<1>11. /\ Held(inR) /\ pending' = pending => Held(inR)'
       /\ Held(inM) /\ pending' = pending => Held(inM)'
       /\ ErrorComes => ErrorComes'
       /\ AnswerComes /\ pending' = pending /\ ~Answers(e) => AnswerComes'
    BY <1>1, <1>7 DEF Held, ErrorComes, Doing, AnswerComes, Answers
<1>12. RecallIsAlive'
  <2> SUFFICES ASSUME pending'.kind = "recall", agentState' = "RUNNING" \/ AboutToRun'
               PROVE  (Held(inM) \/ AnswerComes \/ pending.id \in forsaken)'
    BY DEF RecallIsAlive
  <2>1. pending' = pending /\ pending # NoAction /\ ~answers /\ agentState = "RUNNING"
    BY <1>0, <1>1, <1>8, NothingPending DEF Types
  <2> QED
    BY <1>1, <1>5, <1>11, <2>1 DEF LiveInv, RecallIsAlive
<1>13. RunIsAlive'
  <2> SUFFICES ASSUME pending'.kind = "run", agentState' = "RUNNING"
               PROVE  IF pending'.id = NoId THEN OpOn("emit", pending') \in Work'
                      ELSE /\ pending'.arg # "awaiting"
                           /\ (Held(inR) \/ AnswerComes \/ ErrorComes)'
    BY DEF RunIsAlive
  <2>1. pending' = pending /\ pending # NoAction /\ ~answers /\ agentState = "RUNNING"
    BY <1>0, <1>1, NothingPending DEF Types
  <2>2. OpOn("emit", pending) \notin Work
    <3>1. OpOn("emit", pending).op = "emit"
      BY DEF OpOn
    <3> QED
      BY <1>0, <1>7, <3>1
  <2> QED
    BY <1>5, <1>11, <2>1, <2>2 DEF LiveInv, RunIsAlive
<1>14. NullsAnswer'
    BY <1>1, <1>8 DEF LiveInv, NullsAnswer
<1>15. RunGoesOn'
    BY <1>4, <1>7 DEF RunGoesOn, StepComes, Drives
<1> QED
    BY <1>9, <1>10, <1>12, <1>13, <1>14, <1>15 DEF LiveInv

\* The LLM asks for a tool call: it is pending before it is published.
LEMMA LLMRunsLives ==
    ASSUME IInv, LiveInv, NEW conf \in {"none", "awaiting"}, LLMRuns(conf)
    PROVE  LiveInv'
<1> DEFINE ask == Op("set", "AWAITING_USER_CONFIRMATION")
           emit == OpOn("emit", pending')
           ops == When(conf = "awaiting", <<ask>>) \o <<emit>>
<1>0. Types /\ IInv' /\ Ctrl # <<>> /\ Head(Ctrl).op = "llm"
    BY LLMRunsKeeps DEF IInv, LLMRuns, Doing, Ctrl
<1>1. /\ pending'.kind = "run" /\ pending'.id = NoId /\ pending'.arg = conf
      /\ pending' \in Proper
    BY <1>0 DEF LLMRuns, NewEvent, IInv, Types, CtlTypes
<1>2. /\ Then("ctrl", ops)
      /\ UNCHANGED <<nextId, inC, inR, inM, agentState, forsaken, statusErrs>>
    BY DEF LLMRuns, bus, inboxes, status, hist
<1>3. /\ ask \in GoodOps /\ Sets(ask, "AWAITING_USER_CONFIRMATION") /\ ask.op = "set"
      /\ emit \in Later /\ emit \in GoodOps /\ emit.op = "emit" /\ emit.ev = pending'
  <2>1. emit \in GoodOps
    BY <1>1, Operations DEF Emitted
  <2>2. emit.op = "emit" /\ emit.ev = pending'
    BY DEF OpOn
  <2> QED
    BY <2>1, <2>2, Operations DEF Later, AgentState, Op, Sets
<1>4. (ops = <<ask, emit>> /\ conf = "awaiting") \/ (ops = <<emit>> /\ conf = "none")
  <2>1. \/ ops = <<ask>> \o <<emit>> /\ conf = "awaiting"
        \/ ops = <<>> \o <<emit>> /\ conf = "none"
    BY DEF When
  <2> HIDE DEF ops, ask, emit
  <2> QED
    BY <1>3, <2>1, Concatenations
<1> HIDE DEF ops, ask, emit
<1>5. /\ Fits(ops) /\ ops # <<>> /\ emit \in Range(ops) /\ Range(ops) \subseteq {ask, emit}
      /\ (Head(ops) = ask /\ conf = "awaiting") \/ (Head(ops) = emit /\ conf = "none")
  <2>1. CASE ops = <<ask, emit>> /\ conf = "awaiting"
    <3>1. ops # <<>> /\ Head(ops) = ask
      BY <2>1
    <3>2. Fits(ops)
      BY <1>3, <2>1, Fitting
    <3>3. Range(ops) = {ask, emit}
      BY <2>1, Ranges
    <3> QED
      BY <2>1, <3>1, <3>2, <3>3
  <2>2. CASE ops = <<emit>> /\ conf = "none"
    <3>1. ops # <<>> /\ Head(ops) = emit
      BY <2>2, HeadOfOne
    <3>2. Fits(ops)
      BY <1>3, <2>2, Fitting
    <3>3. Range(ops) = {emit}
      BY <2>2, Ranges
    <3> QED
      BY <2>2, <3>1, <3>2, <3>3
  <2> QED
    BY <1>4, <2>1, <2>2
<1>6. /\ Work = {Head(Ctrl)} \cup Rest /\ Work' = Range(ops) \cup Rest
      /\ Ctrl' # <<>> /\ Head(Ctrl') = Head(ops)
    BY <1>0, <1>2, <1>5, WorkGoesOn DEF Types
<1>7. /\ ~(\E name \in {"handle", "clear", "reissue"} : Doing("ctrl", name)')
      /\ ~AboutToRun'
    BY <1>3, <1>5, <1>6 DEF Doing, Ctrl, AboutToRun, StartsRun, Sets
<1>8. PendingIsKnown'
    BY <1>0, <1>1, <1>2, OldIds DEF PendingIsKnown, Types
<1>9. WorkFits'
  <2>1. ASSUME NEW o \in Work', o.op = "emit", o.ev.arg = "awaiting"
        PROVE  agentState' # "RUNNING" \/ Sets(Head(Ctrl'), "AWAITING_USER_CONFIRMATION")
    <3>1. CASE o \in Rest
      BY <1>0, <1>2, <1>6, <2>1, <3>1 DEF LiveInv, WorkFits, Sets
    <3>2. CASE o \in Range(ops)
      BY <1>1, <1>3, <1>5, <1>6, <2>1, <3>2
    <3> QED
      BY <1>6, <3>1, <3>2
  <2> QED
    BY <1>7, <2>1 DEF WorkFits
<1>10. RecallIsAlive'
    BY <1>1 DEF RecallIsAlive
<1>11. RunIsAlive'
    BY <1>1, <1>5, <1>6 DEF RunIsAlive, emit
<1>12. NullsAnswer'
    BY <1>2, <1>7 DEF LiveInv, NullsAnswer
<1>13. RunGoesOn'
    BY <1>1 DEF RunGoesOn, NoAction, NewEvent
<1> QED
    BY <1>8, <1>9, <1>10, <1>11, <1>12, <1>13 DEF LiveInv

\* The head of the controller's work is done.
LEMMA HeadIsDone ==
    ASSUME TodoTypes, Ctrl # <<>>, Then("ctrl", <<>>)
    PROVE  /\ Work = {Head(Ctrl)} \cup Rest /\ Work' = Rest
           /\ ~AboutToRun'
           /\ ~(\E name \in {"handle", "clear", "reissue"} : Doing("ctrl", name)')
           /\ todo'["sess"] = todo["sess"]
<1>1. Fits(<<>>)
    BY Operations, Fitting
<1>2. /\ Work = {Head(Ctrl)} \cup Rest /\ Work' = Range(<<>>) \cup Rest
      /\ Ctrl' # <<>> => Head(Ctrl') \in Later
      /\ todo'["sess"] = todo["sess"]
    BY <1>1, WorkGoesOn
<1>3. Work' = Rest
    BY <1>2, Ranges
<1> QED
    BY <1>2, <1>3 DEF Later, AboutToRun, StartsRun, Sets, Doing, Ctrl

LEMMA LLMUnusableLives ==
    ASSUME IInv, LiveInv, NEW kind \in {"err", "condense"}, LLMUnusable(kind)
    PROVE  LiveInv'
<1> DEFINE e == NewEvent(kind, NoCause, NoCall, "none")
           f == WithId(e)
<1>0. Types /\ Ctrl # <<>> /\ Head(Ctrl).op = "llm"
    BY DEF IInv, LLMUnusable, Doing, Ctrl
<1>1. e \in Proper /\ e.kind = kind
  <2>1. /\ NoCause \in Nat \cup {NoId} /\ NoCall \in 0..MaxCalls
        /\ kind \in Kinds \ {"change", "run"} /\ "none" \in Confirmation
    BY ConstantsAssumption DEF NoCause, NoCall, Kinds, Confirmation
  <2>2. e \in Proper
    BY <2>1, Constructors
  <2> QED
    BY <2>2 DEF NewEvent
<1>2. /\ PublishTo(e, inR, inM) /\ Then("ctrl", <<>>)
      /\ UNCHANGED <<agentState, pending, forsaken, statusErrs>>
    BY DEF LLMUnusable, Publish, status, hist
<1> HIDE DEF e
<1>3. /\ nextId \in Nat \ {0} /\ nextId' = nextId + 1
      /\ f.kind = kind
      /\ Range(inC') = Range(inC) \cup {f} /\ Range(inR') = Range(inR) /\ inM' = inM
    BY <1>0, <1>1, <1>2, OldIds, PublishedIsNew DEF Types
<1> HIDE DEF f
<1>4. /\ Work = {Head(Ctrl)} \cup Rest /\ Work' = Rest
      /\ ~AboutToRun'
      /\ ~(\E name \in {"handle", "clear", "reissue"} : Doing("ctrl", name)')
      /\ todo'["sess"] = todo["sess"]
    BY <1>0, <1>2, HeadIsDone DEF Types
<1>5. /\ Held(inR)' = Held(inR) /\ Held(inM)' = Held(inM)
      /\ AnswerComes => AnswerComes'
      /\ ErrorComes => ErrorComes'
  <2>1. ~Doing("ctrl", "handle")
    BY <1>0 DEF Doing, Ctrl
  <2> QED
    BY <1>2, <1>3, <1>4, <2>1 DEF Held, AnswerComes, Answers, ErrorComes, Doing
<1>6. PendingIsKnown'
    BY <1>2, <1>3 DEF LiveInv, PendingIsKnown
<1>7. WorkFits'
  <2>1. ASSUME NEW o \in Work', o.op = "emit", o.ev.arg = "awaiting"
        PROVE  agentState' # "RUNNING"
    BY <1>0, <1>2, <1>4, <2>1 DEF LiveInv, WorkFits, Sets
  <2> QED
    BY <1>4, <2>1 DEF WorkFits
<1>8. RecallIsAlive'
    BY <1>2, <1>4, <1>5 DEF LiveInv, RecallIsAlive
<1>9. RunIsAlive'
  <2>1. OpOn("emit", pending) \in Work => OpOn("emit", pending) \in Work'
    BY <1>0, <1>4 DEF OpOn
  <2> QED
    BY <1>2, <1>5, <2>1 DEF LiveInv, RunIsAlive
<1>10. NullsAnswer'
    BY <1>3, <1>4 DEF LiveInv, NullsAnswer
<1>11. RunGoesOn'
    BY <1>3 DEF RunGoesOn, StepComes, Leads
<1> QED
    BY <1>6, <1>7, <1>8, <1>9, <1>10, <1>11 DEF LiveInv

LEMMA EmitActionLives ==
    ASSUME IInv, LiveInv, EmitAction
    PROVE  LiveInv'
<1> DEFINE e == Ev("ctrl")
           f == WithId(e)
<1>0. Types /\ Ctrl # <<>> /\ Head(Ctrl).op = "emit" /\ Head(Ctrl).ev = e
    BY DEF IInv, EmitAction, Doing, Ctrl, Ev
<1>1. e \in Proper /\ e.kind \in Emitted
    BY <1>0, HeadIsTyped DEF Types, GoodOps, Ctrl, Threads
<1>2. /\ PublishTo(e, inR, inM) /\ Then("ctrl", <<>>)
      /\ pending' = (IF pending = e THEN WithId(pending) ELSE pending)
      /\ UNCHANGED <<agentState, forsaken, statusErrs>>
    BY DEF EmitAction, Publish, status, hist
<1> HIDE DEF e
<1>3. /\ nextId \in Nat \ {0} /\ nextId' = nextId + 1
      /\ f.id = nextId /\ f.kind = e.kind /\ f.arg = e.arg
      /\ Range(inC') = Range(inC) \cup {f}
      /\ Range(inR') = Range(inR) \cup (IF e.kind \in {"run", "think"} THEN {f} ELSE {})
      /\ inM' = inM
      /\ \A x \in Range(inR) : x.id \in 1..(nextId - 1)
    BY <1>0, <1>1, <1>2, OldIds, PublishedIsNew DEF Types, Emitted
<1>4. pending = e => pending' = f
    BY <1>2
<1> HIDE DEF f
<1>5. /\ Work = {Head(Ctrl)} \cup Rest /\ Work' = Rest
      /\ ~AboutToRun'
      /\ ~(\E name \in {"handle", "clear", "reissue"} : Doing("ctrl", name)')
      /\ todo'["sess"] = todo["sess"]
    BY <1>0, <1>2, HeadIsDone DEF Types
<1>6. \A o \in Work : o.op = "emit" /\ o.ev.arg = "awaiting" => agentState # "RUNNING"
    BY <1>0 DEF LiveInv, WorkFits, Sets
<1>7. e.arg = "awaiting" => agentState # "RUNNING"
    BY <1>0, <1>5, <1>6
<1>8. WorkFits'
    BY <1>2, <1>5, <1>6 DEF WorkFits
<1>9. NullsAnswer'
    BY <1>1, <1>3, <1>5 DEF LiveInv, NullsAnswer, Emitted
<1>10. CASE pending = e
  <2>1. /\ pending' = f /\ pending'.kind = "run"
        /\ pending'.id = nextId /\ pending'.arg = e.arg
    BY <1>1, <1>3, <1>4, <1>10 DEF LiveInv, PendingIsKnown, Emitted
  <2>2. Range(inR') = Range(inR) \cup {f}
    BY <1>3, <2>1
  <2>3. PendingIsKnown'
    BY <1>3, <2>1, <2>2 DEF PendingIsKnown
  <2>4. RecallIsAlive'
    BY <2>1 DEF RecallIsAlive
  <2>5. RunIsAlive'
    BY <1>2, <1>3, <1>7, <2>1, <2>2 DEF RunIsAlive, Held, NoId
  <2>6. RunGoesOn'
    BY <2>1 DEF RunGoesOn, NoAction, NewEvent
  <2> QED
    BY <1>8, <1>9, <2>3, <2>4, <2>5, <2>6 DEF LiveInv
<1>11. CASE pending # e
  <2>1. pending' = pending
    BY <1>2, <1>11
  <2>2. /\ Held(inR) => Held(inR)'
        /\ Held(inM)' = Held(inM)
        /\ AnswerComes => AnswerComes'
        /\ ErrorComes => ErrorComes'
    <3>1. ~Doing("ctrl", "handle")
      BY <1>0 DEF Doing, Ctrl
    <3> QED
      BY <1>2, <1>3, <1>5, <2>1, <3>1 DEF Held, AnswerComes, Answers, ErrorComes, Doing
  <2>3. PendingIsKnown'
    <3>1. pending.id # nextId
      BY <1>3 DEF LiveInv, PendingIsKnown, NoId
    <3> QED
      BY <1>3, <2>1, <3>1 DEF LiveInv, PendingIsKnown
  <2>4. RecallIsAlive'
    BY <1>2, <1>5, <2>1, <2>2 DEF LiveInv, RecallIsAlive
  <2>5. RunIsAlive'
    <3>1. OpOn("emit", pending) # Head(Ctrl)
      BY <1>0, <1>11 DEF OpOn
    <3>2. OpOn("emit", pending) \in Work => OpOn("emit", pending) \in Work'
      BY <1>5, <3>1
    <3> QED
      BY <1>2, <2>1, <2>2, <3>2 DEF LiveInv, RunIsAlive
  <2>6. RunGoesOn'
    <3> SUFFICES ASSUME agentState' = "RUNNING" PROVE StepComes'
      BY DEF RunGoesOn
    <3>1. CASE e.kind \in {"run", "think"}
      BY <1>2, <1>3, <1>7, <3>1 DEF StepComes
    <3>2. CASE e.kind \notin {"run", "think"}
      BY <1>1, <1>3, <3>2 DEF StepComes, Leads, Emitted
    <3> QED
      BY <3>1, <3>2
  <2> QED
    BY <1>8, <1>9, <2>3, <2>4, <2>5, <2>6 DEF LiveInv
<1> QED
    BY <1>10, <1>11

-----------------------------------------------------------------------------
(* set_agent_state_to, on either thread.                                   *)

LEMMA ClearPendingLives ==
    ASSUME IInv, LiveInv, NEW t \in Threads, ClearPending(t)
    PROVE  LiveInv'
<1>0. /\ Types /\ todo[t] # <<>> /\ Head(todo[t]).op = "clear"
    BY DEF IInv, ClearPending, Doing
<1>1. /\ Then(t, <<>>) /\ pending' = NoAction
      /\ UNCHANGED <<nextId, inC, inR, inM, agentState, forsaken, statusErrs>>
    BY DEF ClearPending, bus, inboxes, status
<1>2. /\ NoAction.kind = "null" /\ NoAction.id = NoId
      /\ \A x \in Range(inR) : x.id # NoAction.id
    BY <1>0, NothingPending DEF Types
<1>3. PendingIsKnown' /\ RecallIsAlive' /\ RunIsAlive'
    BY <1>1, <1>2 DEF PendingIsKnown, RecallIsAlive, RunIsAlive
<1>4. CASE t = "ctrl"
  <2>1. Ctrl # <<>> /\ agentState # "RUNNING"
    BY <1>0, <1>4 DEF Ctrl, Doing, LiveInv, WorkFits
  <2>2. /\ ~AboutToRun'
        /\ ~(\E name \in {"handle", "clear", "reissue"} : Doing("ctrl", name)')
    BY <1>0, <1>1, <1>4, <2>1, HeadIsDone DEF Types
  <2>3. WorkFits' /\ RunGoesOn'
    BY <1>1, <2>1, <2>2 DEF WorkFits, RunGoesOn
  <2>4. NullsAnswer'
    BY <1>1, <2>2 DEF LiveInv, NullsAnswer
  <2> QED
    BY <1>3, <2>3, <2>4 DEF LiveInv
<1>5. CASE t = "sess"
  <2>1. Ctrl' = Ctrl /\ Head(todo["sess"]).op # "set"
    BY <1>0, <1>1, <1>5 DEF Then, Types, TodoTypes, Threads, Ctrl
  <2>2. ErrorComes => statusErrs > 0
    BY <2>1 DEF ErrorComes, Doing
  <2>3. WorkFits'
    BY <1>1, <1>2, <2>1 DEF LiveInv, WorkFits, AboutToRun, Work, Doing, Ctrl
  <2>4. NullsAnswer'
    BY <1>1, <2>1 DEF LiveInv, NullsAnswer, Doing, Ev, Ctrl
  <2>5. AnswerComes => StepComes
    <3>1. ASSUME NEW e, Answers(e) PROVE Leads(e)
      BY <3>1 DEF Answers, Leads, Observations
    <3>2. CASE \E e \in Range(inC) : Answers(e)
      BY <3>1, <3>2 DEF StepComes
    <3>3. CASE Doing("ctrl", "handle") /\ Answers(Ev("ctrl"))
      <4>1. Ctrl # <<>> /\ Head(Ctrl).op = "handle" /\ Leads(Head(Ctrl).ev)
        BY <3>1, <3>3 DEF Doing, Ev, Ctrl
      <4>2. Head(Ctrl) \in Work
        BY <1>0, <4>1, RangeOfHeadAndTail DEF Types, TodoTypes, Threads, Ctrl, Work
      <4> QED
        BY <4>1, <4>2 DEF StepComes, Drives
    <3> QED
      BY <3>2, <3>3 DEF AnswerComes
  <2>6. agentState = "RUNNING" /\ forsaken = {} => StepComes
    <3> SUFFICES ASSUME agentState = "RUNNING", forsaken = {} PROVE StepComes
      OBVIOUS
    <3>1. CASE pending = NoAction
      BY <3>1 DEF LiveInv, RunGoesOn
    <3>2. CASE pending.kind = "recall"
      <4>1. Held(inM) \/ AnswerComes
        BY <3>2 DEF LiveInv, RecallIsAlive
      <4>2. Held(inM) => inM # <<>>
        BY DEF Held, Range
      <4> QED
        BY <2>5, <4>1, <4>2 DEF StepComes
    <3>3. CASE pending.kind = "run" /\ pending.id = NoId
      <4>1. OpOn("emit", pending) \in Work
        BY <3>3 DEF LiveInv, RunIsAlive
      <4>2. Drives(OpOn("emit", pending))
        BY DEF Drives, OpOn
      <4> QED
        BY <4>1, <4>2 DEF StepComes
    <3>4. CASE pending.kind = "run" /\ pending.id # NoId
      <4>1. pending.arg # "awaiting" /\ (Held(inR) \/ AnswerComes \/ ErrorComes)
        BY <3>4 DEF LiveInv, RunIsAlive
      <4>2. CASE Held(inR)
        <5>1. PICK e \in Range(inR) : e.id = pending.id
          BY <4>2 DEF Held
        <5>2. e.arg # "awaiting"
          BY <4>1, <5>1 DEF LiveInv, PendingIsKnown
        <5> QED
          BY <5>2 DEF StepComes
      <4> QED
        BY <2>5, <4>1, <4>2 DEF StepComes
    <3> QED
      BY <3>1, <3>2, <3>3, <3>4 DEF LiveInv, PendingIsKnown
  <2>7. StepComes => StepComes'
    BY <1>1, <2>1, <2>2 DEF StepComes, Work, ErrorComes
  <2>8. RunGoesOn'
    BY <1>1, <2>6, <2>7 DEF RunGoesOn
  <2> QED
    BY <1>3, <2>3, <2>4, <2>8 DEF LiveInv
<1> QED
    BY <1>4, <1>5 DEF Threads

LEMMA ReissueLives ==
    ASSUME IInv, LiveInv, NEW t \in Threads, Reissue(t)
    PROVE  LiveInv'
<1> DEFINE arg == IF Arg(t) = "USER_CONFIRMED" THEN "confirmed" ELSE "rejected"
           decided == [pending EXCEPT !.arg = arg]
<1>0. Types /\ t = "ctrl" /\ Ctrl # <<>> /\ Head(Ctrl).op = "reissue"
  <2>1. todo[t] # <<>> /\ Head(todo[t]).op = "reissue" /\ Types
    BY DEF IInv, Reissue, Doing
  <2>2. t = "ctrl"
    BY <2>1, HeadIsTyped DEF Types, SessOps, Threads
  <2> QED
    BY <2>1, <2>2 DEF Ctrl
<1>1. agentState # "RUNNING"
    BY <1>0 DEF LiveInv, WorkFits, Doing, Ctrl
<1>2. Then("ctrl", <<>>) /\ UNCHANGED <<agentState, forsaken, statusErrs>>
    BY <1>0 DEF Reissue, status, hist
<1>3. /\ ~AboutToRun'
      /\ ~(\E name \in {"handle", "clear", "reissue"} : Doing("ctrl", name)')
    BY <1>0, <1>2, HeadIsDone DEF Types
<1>4. WorkFits' /\ RecallIsAlive' /\ RunIsAlive' /\ RunGoesOn'
    BY <1>1, <1>2, <1>3 DEF WorkFits, RecallIsAlive, RunIsAlive, RunGoesOn
<1>5. CASE pending = NoAction
  <2>1. UNCHANGED <<pending, nextId, inC, inR, inM>>
    BY <1>5 DEF Reissue, bus, inboxes
  <2> QED
    BY <1>3, <1>4, <2>1 DEF LiveInv, PendingIsKnown, NullsAnswer
<1>6. CASE pending # NoAction
  <2>1. pending' = WithId(decided) /\ PublishTo(decided, inR, inM)
    BY <1>6 DEF Reissue, Publish
  <2>2. /\ decided \in Proper
        /\ decided.kind = pending.kind /\ decided.kind \in {"run", "recall"}
    <3>1. arg \in Confirmation /\ pending \in Proper /\ pending.kind # "change"
      BY <1>0 DEF Confirmation, Types, CtlTypes
    <3>2. pending.kind \in {"run", "recall"}
      BY <1>6 DEF LiveInv, PendingIsKnown
    <3> QED
      BY <3>1, <3>2 DEF Proper, Event
  <2> HIDE DEF decided
  <2>3. /\ nextId \in Nat \ {0} /\ nextId' = nextId + 1
        /\ pending'.id = nextId /\ pending'.kind = decided.kind
        /\ Range(inC') = Range(inC) \cup {pending'}
        /\ Range(inR') \subseteq Range(inR) \cup {pending'}
        /\ \A x \in Range(inR) : x.id \in 1..(nextId - 1)
    BY <1>0, <2>1, <2>2, OldIds, PublishedIsNew DEF Types
  <2>4. PendingIsKnown'
    BY <2>2, <2>3 DEF PendingIsKnown, NoId
  <2>5. NullsAnswer'
    BY <1>3, <2>2, <2>3 DEF LiveInv, NullsAnswer
  <2> QED
    BY <1>4, <2>4, <2>5 DEF LiveInv
<1> QED
    BY <1>5, <1>6

LEMMA SetStateLives ==
    ASSUME IInv, LiveInv, NEW t \in Threads, SetState(t)
    PROVE  LiveInv'
<1> DEFINE new == Arg(t)
           ops == SetWork(new)
<1>0. Types /\ todo[t] # <<>> /\ Head(todo[t]) \in GoodOps /\ Head(todo[t]).op = "set"
    BY HeadIsTyped DEF IInv, SetState, Doing, Types
<1>1. new \in AgentState /\ (t = "sess" => new = "ERROR")
    BY <1>0, HeadIsTyped DEF GoodOps, SessOps, Arg, Types
<1>2. Then(t, ops) /\ agentState' = new /\ UNCHANGED <<pending, forsaken, statusErrs>>
    BY DEF SetState, SetWork, status
<1>3. /\ nextId \in Nat \ {0} /\ nextId' \in {nextId, nextId + 1}
      /\ Range(inR') = Range(inR) /\ inM' = inM
      /\ Range(inC) \subseteq Range(inC')
      /\ \A x \in Range(inC') : x \in Range(inC) \/ x.kind = "err"
  <2>1. CASE UNCHANGED bus
    <3>1. nextId \in Nat \ {0}
      BY <1>0 DEF Types, BusTypes
    <3>2. UNCHANGED <<nextId, inC, inR, inM>>
      BY <2>1 DEF bus, inboxes
    <3> QED
      BY <3>1, <3>2
  <2>2. CASE PublishTo(NotExecuted, inR, inM)
    <3>1. NotExecuted \in Proper
      <4>1. pending.id \in Nat \cup {NoId} /\ pending.call \in 0..MaxCalls
        BY <1>0 DEF Types, CtlTypes, Proper, Event
      <4> QED
        BY <4>1, Constructors DEF NotExecuted, Kinds, Confirmation
    <3>2. NotExecuted.kind = "err"
      BY DEF NotExecuted, NewEvent
    <3>3. /\ nextId \in Nat \ {0} /\ nextId' = nextId + 1
          /\ Range(inR') = Range(inR) /\ inM' = inM
          /\ Range(inC') = Range(inC) \cup {WithId(NotExecuted)}
          /\ WithId(NotExecuted).kind = "err"
      <4>1. BusTypes /\ inR \in Seq(Sent) /\ inM \in Seq(Sent)
        BY <1>0, OldIds DEF Types
      <4> QED
        BY <2>2, <3>1, <3>2, <4>1, PublishedIsNew
    <3> QED
      BY <3>3
  <2> QED
    BY <2>1, <2>2 DEF SetState, Publish
<1>4. PendingIsKnown'
    BY <1>2, <1>3 DEF LiveInv, PendingIsKnown
<1>5. /\ Held(inR)' = Held(inR) /\ Held(inM)' = Held(inM)
    BY <1>2, <1>3 DEF Held
<1>6. CASE t = "ctrl"
  <2>0. Ctrl # <<>> /\ Head(Ctrl).op = "set" /\ Head(Ctrl).arg = new
    BY <1>0, <1>6 DEF Ctrl, Arg
  <2>1. new = "RUNNING" => AboutToRun
    BY <2>0 DEF AboutToRun, StartsRun, Sets
  <2>2. PICK a \in GoodOps, b \in Later :
           /\ \/ ops = <<>> \/ ops = <<b>>
              \/ ops = <<a, b>> /\ new # "RUNNING"
           /\ a.op \in {"clear", "reissue"} /\ b.op = "announce"
    <3> DEFINE clear == Op("clear", "none")
               announce == Op("announce", "none")
               reissue == Op("reissue", new)
    <3>1. /\ clear \in GoodOps /\ clear.op = "clear"
          /\ announce \in Later /\ announce.op = "announce"
          /\ new \in Decision => reissue \in GoodOps
          /\ reissue.op = "reissue"
      BY Operations DEF Later, Op
    <3>2. \/ ops = <<>>
          \/ ops = <<clear, announce>> /\ new \in Halting
          \/ ops = <<reissue, announce>> /\ new \in Decision
          \/ ops = <<announce>>
      BY <1>1, SetWorks
    <3>3. "RUNNING" \notin Halting /\ "RUNNING" \notin Decision
      BY DEF Halting, Decision
    <3> HIDE DEF clear, announce, reissue, ops
    <3> QED
      BY <3>1, <3>2, <3>3
  <2> HIDE DEF ops, new
  <2>3. /\ Fits(ops) /\ Range(ops) \subseteq {a, b}
        /\ ops # <<>> => Head(ops) \in {a, b} /\ (new = "RUNNING" => Head(ops) = b)
    <3>1. CASE ops = <<>> \/ ops = <<b>>
      BY <2>2, <3>1, Fitting, Ranges, HeadOfOne DEF Later
    <3>2. CASE ops = <<a, b>> /\ new # "RUNNING"
      <4>1. Head(ops) = a
        BY <3>2
      <4>2. Fits(ops)
        BY <3>2, Fitting
      <4>3. Range(ops) = {a, b}
        BY <3>2, Ranges
      <4> QED
        BY <3>2, <4>1, <4>2, <4>3
    <3> QED
      BY <2>2, <3>1, <3>2
  <2>4. /\ Work = {Head(Ctrl)} \cup Rest /\ Work' = Range(ops) \cup Rest
        /\ Ctrl' # <<>> => Head(Ctrl') \in Later \/ Head(Ctrl') = a
        /\ new = "RUNNING" /\ Ctrl' # <<>> => Head(Ctrl') \in Later
    BY <1>0, <1>2, <1>6, <2>0, <2>3, WorkGoesOn DEF Types
  <2>5. /\ ~AboutToRun' /\ ~Doing("ctrl", "handle")'
        /\ new = "RUNNING" => ~Doing("ctrl", "clear")' /\ ~Doing("ctrl", "reissue")'
    BY <2>2, <2>4 DEF Later, AboutToRun, StartsRun, Sets, Doing, Ctrl
  <2>6. new = "RUNNING" => /\ pending.kind # "run"
                           /\ \A o \in Work' : o.op # "emit"
                           /\ \E o \in Work' : o.op = "step"
    <3> SUFFICES ASSUME new = "RUNNING"
                 PROVE  /\ pending.kind # "run"
                        /\ \A o \in Work' : o.op # "emit"
                        /\ \E o \in Work' : o.op = "step"
      OBVIOUS
    <3>1. /\ pending.kind # "run" /\ \A o \in Work : o.op # "emit"
          /\ \E o \in Work : o.op = "step"
      BY <2>1 DEF LiveInv, WorkFits
    <3> QED
      BY <2>0, <2>2, <2>3, <2>4, <3>1
  <2>7. AnswerComes => AnswerComes'
    <3>1. ~Doing("ctrl", "handle")
      BY <2>0 DEF Doing, Ctrl
    <3> QED
      BY <1>2, <1>3, <3>1 DEF AnswerComes, Answers
  <2>8. WorkFits'
    BY <1>2, <2>5, <2>6 DEF WorkFits
  <2>9. RecallIsAlive'
    BY <1>2, <1>5, <2>1, <2>5, <2>7 DEF LiveInv, RecallIsAlive
  <2>10. RunIsAlive'
    BY <1>2, <2>6 DEF RunIsAlive
  <2>11. NullsAnswer'
    BY <1>3, <2>5 DEF LiveInv, NullsAnswer
  <2>12. RunGoesOn'
    BY <1>2, <2>6 DEF RunGoesOn, StepComes, Drives
  <2> QED
    BY <1>4, <2>8, <2>9, <2>10, <2>11, <2>12 DEF LiveInv
<1>7. CASE t = "sess"
  <2>1. Ctrl' = Ctrl /\ agentState' = "ERROR"
    BY <1>0, <1>1, <1>2, <1>7 DEF Then, Types, TodoTypes, Threads, Ctrl
  <2>2. WorkFits'
    BY <1>2, <2>1 DEF LiveInv, WorkFits, AboutToRun, Work, Doing, Ctrl
  <2>3. AnswerComes => AnswerComes'
    BY <1>2, <1>3, <2>1 DEF AnswerComes, Answers, Doing, Ev, Ctrl
  <2>4. RecallIsAlive'
    BY <1>2, <1>5, <2>1, <2>3 DEF LiveInv, RecallIsAlive, AboutToRun
  <2>5. RunIsAlive' /\ RunGoesOn'
    BY <2>1 DEF RunIsAlive, RunGoesOn
  <2>6. NullsAnswer'
    BY <1>3, <2>1 DEF LiveInv, NullsAnswer, Doing, Ev, Ctrl
  <2> QED
    BY <1>4, <2>2, <2>4, <2>5, <2>6 DEF LiveInv
<1> QED
    BY <1>6, <1>7 DEF Threads

-----------------------------------------------------------------------------
(* Steps of the runtime, the memory, the session's loop and the user.      *)

\* An observation, a message or a decision is published; what it takes from an
\* inbox it answers.
LEMMA OutsidePublishLives ==
    ASSUME Types, LiveInv, NEW e \in Proper, NEW R \in Seq(Sent), NEW M \in Seq(Sent),
           PublishTo(e, R, M), Leads(e), e.kind = "null" => e.cause > 0,
           Range(R) \subseteq Range(inR),
           Held(inR) => Held(R) \/ Answers(e),
           Held(inM) => Held(M) \/ Answers(e),
           UNCHANGED <<agentState, pending, todo, forsaken, statusErrs>>
    PROVE  LiveInv'
<1> DEFINE f == WithId(e)
<1>1. /\ nextId \in Nat \ {0} /\ nextId' = nextId + 1
      /\ f.kind = e.kind /\ f.cause = e.cause
      /\ Range(inC') = Range(inC) \cup {f} /\ Range(inR') = Range(R) /\ inM' = M
  <2>1. BusTypes /\ e.kind \notin {"run", "think"} /\ e.kind # "recall"
    BY DEF Types, Leads
  <2> QED
    BY <2>1, PublishedIsNew
<1> HIDE DEF f
<1>2. Ctrl' = Ctrl
    BY DEF Ctrl
<1>3. PendingIsKnown'
    BY <1>1 DEF LiveInv, PendingIsKnown
<1>4. WorkFits'
    BY <1>2 DEF LiveInv, WorkFits, AboutToRun, Work, Doing, Ctrl
<1>5. /\ AnswerComes \/ Answers(e) => AnswerComes'
      /\ ErrorComes = ErrorComes'
      /\ Held(inR)' = Held(R) /\ Held(inM)' = Held(M)
    BY <1>1 DEF AnswerComes, Answers, ErrorComes, Held, Doing, Ev
<1>6. RecallIsAlive'
    BY <1>2, <1>5 DEF LiveInv, RecallIsAlive, AboutToRun
<1>7. RunIsAlive'
    BY <1>2, <1>5 DEF LiveInv, RunIsAlive, Work
<1>8. NullsAnswer'
    BY <1>1, <1>2 DEF LiveInv, NullsAnswer, Doing, Ev, Ctrl
<1>9. RunGoesOn'
    BY <1>1 DEF RunGoesOn, StepComes, Leads
<1> QED
    BY <1>3, <1>4, <1>6, <1>7, <1>8, <1>9 DEF LiveInv

LEMMA RuntimeLives ==
    ASSUME IInv, LiveInv, Runtime
    PROVE  LiveInv'
<1>0. Types
    BY DEF IInv
<1>1. UNCHANGED <<agentState, pending, todo, forsaken>> /\ Ctrl' = Ctrl
    BY DEF Runtime, RuntimeSkips, RuntimeBegins, RuntimeAnswers, RuntimeFails,
           ctlVars, hist, Ctrl
<1>2. inR # <<>> => /\ Range(inR) = {Head(inR)} \cup Range(Tail(inR))
                    /\ Head(inR) \in Sent /\ Tail(inR) \in Seq(Sent)
    BY <1>0, RangeOfHeadAndTail DEF Types, BusTypes
<1>3. CASE RuntimeBegins
  <2>1. UNCHANGED <<nextId, inC, inR, inM, statusErrs>>
    BY <1>3 DEF RuntimeBegins, bus, inboxes, status
  <2> QED
    BY <1>1, <2>1, OthersLive DEF ErrorComes, Doing
<1>4. CASE RuntimeAnswers
  <2> DEFINE a == Head(inR)
             e == NewEvent("obs", a.id, a.call, "none")
  <2>1. PublishTo(e, Tail(inR), inM) /\ inR # <<>> /\ statusErrs' = statusErrs
    BY <1>4 DEF RuntimeAnswers, status
  <2>2. e \in Proper
    <3>1. a.id \in Nat \cup {NoId} /\ a.call \in 0..MaxCalls
      BY <1>2, <2>1 DEF Sent, Event
    <3>2. "obs" \in Kinds /\ "none" \in Confirmation
      BY DEF Kinds, Confirmation
    <3> QED
      BY <3>1, <3>2, Constructors
  <2>3. Leads(e) /\ e.kind # "null" /\ e.kind \in Observations /\ e.cause = a.id
    BY DEF Leads, NewEvent, Observations
  <2> HIDE DEF e
  <2>4. Held(inR) => Held(Tail(inR)) \/ Answers(e)
    BY <1>2, <2>1, <2>3 DEF Held, Answers
  <2>5. /\ Range(Tail(inR)) \subseteq Range(inR)
        /\ Tail(inR) \in Seq(Sent) /\ inM \in Seq(Sent)
    BY <1>0, <1>2, <2>1 DEF Types, BusTypes
  <2> HIDE DEF a
  <2> QED
    BY <1>0, <1>1, <2>1, <2>2, <2>3, <2>4, <2>5, OutsidePublishLives
<1>5. CASE RuntimeSkips \/ RuntimeFails
  <2>1. /\ inR # <<>> /\ inR' = Tail(inR)
        /\ UNCHANGED <<nextId, inC, inM>>
        /\ \/ RuntimeSkips /\ Head(inR).arg = "awaiting" /\ statusErrs' = statusErrs
           \/ RuntimeFails /\ statusErrs' > 0
    BY <1>0, <1>5 DEF RuntimeSkips, RuntimeFails, status, Types, EnvTypes
  <2>2. PendingIsKnown'
    BY <1>1, <1>2, <2>1 DEF LiveInv, PendingIsKnown
  <2>3. WorkFits'
    BY <1>1 DEF LiveInv, WorkFits, AboutToRun, Work, Doing, Ctrl
  <2>4. /\ AnswerComes = AnswerComes' /\ Held(inM)' = Held(inM)
        /\ ErrorComes => ErrorComes'
    BY <1>1, <2>1 DEF AnswerComes, Answers, Held, ErrorComes, Doing, Ev
  <2>5. RecallIsAlive'
    BY <1>1, <2>4 DEF LiveInv, RecallIsAlive, AboutToRun
  <2>6. RunIsAlive'
    <3>1. pending.arg # "awaiting" /\ Held(inR) => Held(inR)' \/ ErrorComes'
      BY <1>1, <1>2, <2>1 DEF Held, ErrorComes, LiveInv, PendingIsKnown
    <3> QED
      BY <1>1, <2>4, <3>1 DEF LiveInv, RunIsAlive, Work
  <2>7. NullsAnswer'
    BY <1>1, <2>1 DEF LiveInv, NullsAnswer, Doing, Ev, Ctrl
  <2>8. RunGoesOn'
    <3>1. StepComes => StepComes'
      BY <1>1, <1>2, <2>1, <2>4 DEF StepComes, Work, ErrorComes
    <3> QED
      BY <1>1, <3>1 DEF LiveInv, RunGoesOn
  <2> QED
    BY <2>2, <2>3, <2>5, <2>6, <2>7, <2>8 DEF LiveInv
<1> QED
    BY <1>3, <1>4, <1>5 DEF Runtime

LEMMA MemoryLives ==
    ASSUME IInv, LiveInv, Memory
    PROVE  LiveInv'
<1>0. Types
    BY DEF IInv
<1>1. UNCHANGED <<agentState, pending, todo>> /\ Ctrl' = Ctrl
    BY DEF Memory, MemoryFails, MemoryWakes, MemoryAnswers, ctlVars, Ctrl
<1>2. inM # <<>> => /\ Range(inM) = {Head(inM)} \cup Range(Tail(inM))
                    /\ Head(inM) \in Sent /\ Tail(inM) \in Seq(Sent)
    BY <1>0, RangeOfHeadAndTail DEF Types, BusTypes
<1>3. CASE \E kind \in {"robs", "null"} : MemoryAnswers(kind)
  <2>1. PICK kind \in {"robs", "null"} : MemoryAnswers(kind)
    BY <1>3
  <2> DEFINE e == NewEvent(kind, Head(inM).id, NoCall, "none")
  <2>2. /\ PublishTo(e, inR, Tail(inM)) /\ inM # <<>> /\ forsaken' = forsaken
        /\ statusErrs' = statusErrs
    BY <2>1 DEF MemoryAnswers, hist, status
  <2>3. e \in Proper
    <3>1. /\ Head(inM).id \in Nat \cup {NoId} /\ NoCall \in 0..MaxCalls
          /\ kind \in Kinds \ {"change", "run"} /\ "none" \in Confirmation
      BY <1>2, <2>2, ConstantsAssumption DEF Sent, Event, NoCall, Kinds, Confirmation
    <3> QED
      BY <3>1, Constructors
  <2>4. Leads(e) /\ e.kind \in Observations /\ e.cause = Head(inM).id
    BY DEF Leads, NewEvent, Observations
  <2>5. e.cause > 0
    BY <1>0, <1>2, <2>2, <2>4 DEF Sent, Types, BusTypes
  <2> HIDE DEF e
  <2>6. Held(inM) => Held(Tail(inM)) \/ Answers(e)
    BY <1>2, <2>2, <2>4 DEF Held, Answers
  <2>7. inR \in Seq(Sent) /\ Tail(inM) \in Seq(Sent)
    BY <1>0, <1>2, <2>2 DEF Types, BusTypes
  <2> QED
    BY <1>0, <1>1, <2>2, <2>3, <2>4, <2>5, <2>6, <2>7, OutsidePublishLives
<1>4. CASE MemoryFails
  <2>1. /\ inM # <<>> /\ inM' = Tail(inM)
        /\ forsaken' = forsaken \cup {Head(inM).id}
        /\ UNCHANGED <<nextId, inC, inR, statusErrs>>
    BY <1>4 DEF MemoryFails
  <2>2. PendingIsKnown'
    BY <1>1, <2>1 DEF LiveInv, PendingIsKnown
  <2>3. WorkFits'
    BY <1>1 DEF LiveInv, WorkFits, AboutToRun, Work, Doing, Ctrl
  <2>4. AnswerComes = AnswerComes' /\ Held(inR)' = Held(inR) /\ ErrorComes = ErrorComes'
    BY <1>1, <2>1 DEF AnswerComes, Answers, Held, ErrorComes, Doing, Ev
  <2>5. Held(inM) => Held(inM)' \/ pending.id \in forsaken'
    BY <1>1, <1>2, <2>1 DEF Held
  <2>6. RecallIsAlive'
    BY <1>1, <2>1, <2>4, <2>5 DEF LiveInv, RecallIsAlive, AboutToRun
  <2>7. RunIsAlive'
    BY <1>1, <2>4 DEF LiveInv, RunIsAlive, Work
  <2>8. NullsAnswer'
    BY <1>1, <2>1 DEF LiveInv, NullsAnswer, Doing, Ev, Ctrl
  <2>9. RunGoesOn'
    BY <2>1 DEF RunGoesOn
  <2> QED
    BY <2>2, <2>3, <2>6, <2>7, <2>8, <2>9 DEF LiveInv
<1>5. CASE MemoryWakes
  <2>1. /\ UNCHANGED <<nextId, inC, inR, inM, forsaken>>
        /\ statusErrs > 0 => statusErrs' > 0
    BY <1>0, <1>5 DEF MemoryWakes, inboxes, hist, Types, EnvTypes
  <2> QED
    BY <1>1, <2>1, OthersLive DEF ErrorComes, Doing
<1> QED
    BY <1>3, <1>4, <1>5 DEF Memory

LEMMA UserLives ==
    ASSUME IInv, LiveInv, User
    PROVE  LiveInv'
<1>0. Types
    BY DEF IInv
<1>1. UNCHANGED <<agentState, pending, todo, forsaken, statusErrs>>
    BY DEF User, UserWrites, UserStops, UserDecides, ctlVars, hist, status
<1>2. PICK kind \in {"msg", "change"}, arg \in {"none"} \cup Asked :
         /\ Publish(NewEvent(kind, NoCause, NoCall, arg))
         /\ IF kind = "msg" THEN arg = "none" ELSE arg \in Asked
    BY DEF User, UserWrites, UserStops, UserDecides, Asked
<1> DEFINE e == NewEvent(kind, NoCause, NoCall, arg)
<1>3. e \in Proper
  <2>1. /\ NoCause \in Nat \cup {NoId} /\ NoCall \in 0..MaxCalls
        /\ "msg" \in Kinds \ {"change", "run"} /\ "none" \in Confirmation
    BY ConstantsAssumption DEF NoCause, NoCall, Kinds, Confirmation
  <2> QED
    BY <1>2, <2>1, Constructors
<1>4. Leads(e) /\ e.kind # "null"
    BY DEF Leads, NewEvent
<1> HIDE DEF e
<1>5. PublishTo(e, inR, inM) /\ inR \in Seq(Sent) /\ inM \in Seq(Sent)
    BY <1>0, <1>2 DEF Publish, Types, BusTypes, e
<1> QED
    BY <1>0, <1>1, <1>3, <1>4, <1>5, OutsidePublishLives

LEMMA StatusErrorLives ==
    ASSUME IInv, LiveInv, StatusError
    PROVE  LiveInv'
<1>1. UNCHANGED <<nextId, inC, inR, inM, agentState, pending, forsaken>>
    BY DEF StatusError, bus, inboxes, hist
<1>2. todo' = [todo EXCEPT !["sess"] = <<Op("set", "ERROR")>>] /\ TodoTypes
    BY DEF StatusError, IInv, Types
<1>3. Ctrl' = Ctrl /\ todo'["sess"] = <<Op("set", "ERROR")>>
    BY <1>2 DEF TodoTypes, Threads, Ctrl
<1>4. Doing("sess", "set")'
  <2>1. <<Op("set", "ERROR")>> # <<>> /\ Head(<<Op("set", "ERROR")>>) = Op("set", "ERROR")
    BY HeadOfOne
  <2>2. Op("set", "ERROR").op = "set"
    BY DEF Op
  <2> QED
    BY <1>3, <2>1, <2>2 DEF Doing
<1> QED
    BY <1>1, <1>3, <1>4, OthersLive DEF ErrorComes

-----------------------------------------------------------------------------
LEMMA InitLive == Init => LiveInv
<1> SUFFICES ASSUME Init PROVE LiveInv
    OBVIOUS
<1>1. Ctrl = <<>> /\ Work = {} /\ Range(inR) = {} /\ Range(inC) = {}
    BY Ranges DEF Init, Ctrl, Threads, Work
<1>2. pending = NoAction /\ pending.kind = "null" /\ pending.id = NoId
    BY DEF Init, NoAction, NewEvent
<1>3. agentState # "RUNNING"
    BY DEF Init
<1> QED
    BY <1>1, <1>2, <1>3
    DEF LiveInv, PendingIsKnown, WorkFits, RecallIsAlive, RunIsAlive, NullsAnswer,
        RunGoesOn, AboutToRun, Doing, Ctrl

LEMMA NextLives == IInv /\ LiveInv /\ [Next]_vars => LiveInv'
<1> SUFFICES ASSUME IInv, LiveInv, [Next]_vars PROVE LiveInv'
    OBVIOUS
<1>1. CASE \E t \in Threads : SetAgentStateTo(t)
    BY <1>1, SetStateLives, ClearPendingLives, ReissueLives, AnnounceLives
    DEF SetAgentStateTo
<1>2. CASE Step
  <2>1. CASE \E conf \in {"none", "awaiting"} : LLMRuns(conf)
    BY <2>1, LLMRunsLives
  <2>2. CASE \E kind \in {"err", "condense"} : LLMUnusable(kind)
    BY <2>2, LLMUnusableLives
  <2> QED
    BY <1>2, <2>1, <2>2, StepBeginLives, LLMLives, EmitActionLives DEF Step
<1>3. CASE Controller
    BY <1>1, <1>2, <1>3, OnEventLives, HandleUserMessageLives, HandleActionLives,
       HandleObservationLives, EnsureRunningLives, StepUnlessWaitingLives
    DEF Controller, Threads
<1>4. CASE SessionLoop
    BY <1>1, <1>4, StatusErrorLives DEF SessionLoop, Threads
<1>5. CASE UNCHANGED vars
  <2>1. /\ Ctrl' = Ctrl /\ ErrorComes' = ErrorComes
        /\ UNCHANGED <<nextId, inC, inR, inM, agentState, pending, forsaken>>
    BY <1>5 DEF vars, bus, inboxes, hist, status, Ctrl, ErrorComes, Doing
  <2> QED
    BY <2>1, OthersLive
<1> QED
    BY <1>3, <1>4, <1>5, RuntimeLives, MemoryLives, UserLives DEF Next

\* Between handlers, the pending action that keeps a RUNNING agent from its next
\* step is on its way to an answer, or an error that clears it is
\* (agent_controller.py:862-870, 991-1004): nobody waits for what nobody does.
THEOREM AnswersCome == Spec => []PendingIsAnswered
<1>1. ASSUME IInv, LiveInv PROVE PendingIsAnswered
  <2> SUFFICES ASSUME AtRest, pending # NoAction, agentState = "RUNNING"
               PROVE  \/ \E i \in DOMAIN inR : inR[i].id = pending.id
                      \/ \E i \in DOMAIN inM : inM[i].id = pending.id
                      \/ \E i \in DOMAIN inC : /\ inC[i].kind \in Observations
                                               /\ inC[i].cause = pending.id
                      \/ statusErrs > 0
                      \/ pending.id \in forsaken
    BY DEF PendingIsAnswered
  <2>1. Work = {} /\ ~Doing("ctrl", "handle") /\ ~Doing("sess", "set")
    BY Ranges DEF AtRest, Threads, Work, Ctrl, Doing
  <2>2. pending.kind \in {"run", "recall"}
    BY <1>1 DEF LiveInv, PendingIsKnown
  <2>3. \/ Held(inR) \/ Held(inM) \/ statusErrs > 0 \/ pending.id \in forsaken
        \/ \E e \in Range(inC) : Answers(e)
    BY <1>1, <2>1, <2>2
    DEF LiveInv, RecallIsAlive, RunIsAlive, AnswerComes, ErrorComes
  <2> QED
    BY <2>3 DEF Held, Answers, Range
<1>2. IInv /\ LiveInv => PendingIsAnswered
    BY <1>1
<1> QED
    BY <1>2, InitIInv, NextKeeps, InitLive, NextLives, PTL DEF Spec

\* When all threads and inboxes have come to rest the agent is not RUNNING
\* (agent_controller.py:443-533, 854-988): no run ends up without a next step,
\* unless the memory has failed.
THEOREM NeverIdle == Spec => []NeverIdleWhileRunning
<1>1. ASSUME IInv, LiveInv PROVE NeverIdleWhileRunning
  <2> SUFFICES ASSUME Quiet, forsaken = {}, agentState = "RUNNING" PROVE FALSE
    BY DEF NeverIdleWhileRunning
  <2>1. /\ Work = {} /\ ~Doing("ctrl", "handle") /\ ~Doing("sess", "set")
        /\ Range(inC) = {} /\ Range(inR) = {} /\ Range(inM) = {}
        /\ inM = <<>> /\ ~(statusErrs > 0)
    BY Ranges DEF Quiet, AtRest, Threads, Work, Ctrl, Doing
  <2>2. pending = NoAction
    BY <1>1, <2>1
    DEF LiveInv, PendingIsKnown, RecallIsAlive, RunIsAlive, Held, AnswerComes, ErrorComes
  <2> QED
    BY <1>1, <2>1, <2>2 DEF LiveInv, RunGoesOn, StepComes, ErrorComes
<1>2. IInv /\ LiveInv => NeverIdleWhileRunning
    BY <1>1
<1> QED
    BY <1>2, InitIInv, NextKeeps, InitLive, NextLives, PTL DEF Spec

-----------------------------------------------------------------------------
(* Approval: a call that asked for a confirmation is executed only if the  *)
(* user pressed the button of that very call, and no call is executed      *)
(* twice, whatever messages, stops and errors come between.                *)

\* Events and operations that carry the user's decision.
IsDecision(e) == e.kind = "change" /\ e.arg \in Decision
Deciding(o) == \/ o.op = "reissue"
               \/ o.op = "set" /\ o.arg \in Decision
               \/ o.op = "handle" /\ IsDecision(o.ev)
Confirming(o) == \/ o.op \in {"set", "reissue"} /\ o.arg = "USER_CONFIRMED"
                 \/ o.op = "handle" /\ IsDecision(o.ev) /\ o.ev.arg = "USER_CONFIRMED"

\* A decision is on its way, is being carried out, or can still be made.
Queued == \E e \in Range(inC) : IsDecision(e)
AtWork == Ctrl # <<>> /\ Deciding(Head(Ctrl))
Guarded == shown # NoAction \/ Queued \/ AtWork
Confirms == \/ \E e \in Range(inC) : IsDecision(e) /\ e.arg = "USER_CONFIRMED"
            \/ Ctrl # <<>> /\ Confirming(Head(Ctrl))

\* A client shows no buttons until the last decision has been carried out.
OneDecision ==
    /\ \A i, j \in DOMAIN inC : IsDecision(inC[i]) /\ IsDecision(inC[j]) => i = j
    /\ Queued => ~AtWork
    /\ Queued \/ AtWork => shown = NoAction

\* Meanwhile the LLM is not asked, and publishes nothing.
GuardedIsQuiet == Guarded => \A o \in Work : o.op \notin {"llm", "emit"}

\* What a client shows buttons for is what the agent waits for.
ShownIsPending ==
    shown # NoAction =>
        /\ shown.kind = "run" /\ shown.arg = "awaiting"
        /\ pending \in {NoAction, shown}
        /\ agentState \notin {"RUNNING", "USER_CONFIRMED"} /\ ~AboutToRun

\* The agent runs before a queued decision only for a message of the user, whose
\* recall is answered after the decision.
QueuedWaitsForRecall ==
    Queued => /\ agentState # "USER_CONFIRMED"
              /\ agentState = "RUNNING" \/ AboutToRun => pending.kind = "recall"
RecallIsLater ==
    pending.kind = "recall" =>
        /\ \A i, j \in DOMAIN inC : IsDecision(inC[i]) /\ Answers(inC[j]) => i < j
        /\ Queued /\ Doing("ctrl", "handle") => ~Answers(Ev("ctrl"))

\* A decision finds no other call pending than the one it was made for.
DecidedIsPending ==
    pending.kind = "run" => /\ Guarded => pending.arg = "awaiting"
                            /\ Confirms => pending.call \in approved

\* Observations answer earlier events.
CausesOld == \A e \in Range(inC) : e.kind \in Observations => e.cause < nextId

\* A step is the last thing the controller's thread does.
Finals == {"step unless waiting", "step", "llm", "emit"}
LastOnly == \A i \in DOMAIN Ctrl : Ctrl[i].op \in Finals => i = Len(Ctrl)

\* A call that is about to be published is pending, and the state follows it.
EmitsPending ==
    \A o \in Work : o.op = "emit" /\ o.ev.kind = "run" =>
        /\ pending \in {o.ev, NoAction}
        /\ o.ev.arg = "awaiting" => \/ agentState # "USER_CONFIRMED"
                                    \/ Sets(Head(Ctrl), "AWAITING_USER_CONFIRMATION")

\* A call that has not been made, or is held back, has not been executed and
\* is not about to be.
Fresh(c) == executed[c] = 0 /\ \A e \in Range(inR) : e.call = c => ~Executable(e)
HeldBack == pending.kind = "run" /\ pending.arg = "awaiting"
HeldIsFresh ==
    /\ \A c \in Calls : c > used => Fresh(c)
    /\ HeldBack => pending.call \in 1..used /\ Fresh(pending.call)
    /\ \A o \in Work : o.op = "emit" /\ o.ev.kind \in {"run", "think"} =>
          /\ o.ev.call \in 1..used /\ Fresh(o.ev.call)
          /\ o.ev.arg \in {"none", "awaiting"}
          /\ o.ev.arg = "none" /\ HeldBack => pending.call # o.ev.call

\* Each call reaches the runtime to be executed once, and with its approval.
RunsOnce ==
    /\ \A i, j \in DOMAIN inR :
          Executable(inR[i]) /\ Executable(inR[j]) /\ inR[i].call = inR[j].call => i = j
    /\ \A i \in DOMAIN inR :
          Executable(inR[i]) /\ ~(i = 1 /\ running) => executed[inR[i].call] = 0
    /\ running => inR # <<>> /\ Executable(Head(inR))
    /\ \A e \in Range(inR) : e.call \in Calls /\ (e.arg = "confirmed" => e.call \in approved)

DecisionInv == /\ OneDecision /\ GuardedIsQuiet /\ ShownIsPending /\ QueuedWaitsForRecall
               /\ RecallIsLater /\ DecidedIsPending
ApprovalInv == DecisionInv /\ CausesOld /\ LastOnly /\ EmitsPending /\ HeldIsFresh /\ RunsOnce

-----------------------------------------------------------------------------
(* What a step does to the controller's work.                              *)

\* What a step of the controller may put in the place of the operation it does.
MayFollow(a) ==
    /\ a.op # "handle"
    /\ a.op = "llm" => Head(Ctrl).op = "llm" \/ (Head(Ctrl).op = "step" /\ MayStep)
    /\ a.op = "emit" => Head(Ctrl).op = "llm"
    /\ Deciding(a) => Deciding(Head(Ctrl))
    /\ Confirming(a) => Confirming(Head(Ctrl))
    /\ StartsRun(a) => StartsRun(Head(Ctrl)) \/ agentState = "USER_CONFIRMED"
Ends(o) == o.op \in Finals \cup {"handle"}
LastFits(ops) == \A i \in DOMAIN ops : ops[i].op \in Finals => i = Len(ops) /\ Ends(Head(Ctrl))
Followed(ops) == Fits(ops) /\ LastFits(ops) /\ \A a \in Range(ops) : MayFollow(a)

\* One or two operations, the second of which decides nothing.
LEMMA OneFollows ==
    ASSUME NEW a \in GoodOps, MayFollow(a), a.op \in Finals => Ends(Head(Ctrl))
    PROVE  Followed(<<a>>)
<1>1. Fits(<<a>>) /\ Range(<<a>>) = {a}
    BY Fitting, Ranges
<1>2. DOMAIN <<a>> = {1} /\ <<a>>[1] = a /\ Len(<<a>>) = 1
    OBVIOUS
<1> QED
    BY <1>1, <1>2 DEF Followed, LastFits

LEMMA TwoFollow ==
    ASSUME NEW a \in GoodOps, MayFollow(a), a.op \notin Finals,
           NEW b \in Later, MayFollow(b), b.op \in Finals => Ends(Head(Ctrl))
    PROVE  Followed(<<a, b>>)
<1>1. Fits(<<a, b>>) /\ Range(<<a, b>>) = {a, b}
    BY Fitting, Ranges
<1>2. /\ DOMAIN <<a, b>> = {1, 2} /\ <<a, b>>[1] = a /\ <<a, b>>[2] = b
      /\ Len(<<a, b>>) = 2
    OBVIOUS
<1> QED
    BY <1>1, <1>2 DEF Followed, LastFits

LEMMA NoneFollows == Followed(<<>>)
<1>1. Range(<<>>) = {} /\ DOMAIN <<>> = {}
    BY Ranges
<1>2. Fits(<<>>)
    BY DEF Fits
<1> QED
    BY <1>1, <1>2 DEF Followed, LastFits

\* What only goes on with a step, a wait or the bookkeeping of the state.
Tame == {"announce", "publish", "pickle", "write", "step unless waiting", "step",
         "clear", "react"}
LEMMA TameFollows ==
    ASSUME NEW a \in GoodOps, a.op \in Tame
    PROVE  MayFollow(a) /\ a.op \notin {"set", "reissue", "emit", "llm", "handle"}
BY DEF MayFollow, Tame, Deciding, Confirming, StartsRun, Sets

LEMMA StateFollows ==
    ASSUME NEW s \in AgentState,
           s \in Decision => /\ Deciding(Head(Ctrl))
                             /\ s = "USER_CONFIRMED" => Confirming(Head(Ctrl)),
           s = "RUNNING" => StartsRun(Head(Ctrl)) \/ agentState = "USER_CONFIRMED"
    PROVE  /\ Op("set", s) \in GoodOps /\ Op("set", s).op = "set" /\ Op("set", s).arg = s
           /\ MayFollow(Op("set", s))
<1>1. Op("set", s) \in GoodOps /\ Op("set", s).op = "set" /\ Op("set", s).arg = s
    BY Operations DEF Op
<1> DEFINE o == Op("set", s)
<1> HIDE DEF o
<1>2. o.op = "set" /\ o.arg = s
    BY <1>1 DEF o
<1>3. MayFollow(o)
  <2>1. Deciding(o) => s \in Decision
    BY <1>2 DEF Deciding
  <2>2. Confirming(o) => s = "USER_CONFIRMED" /\ s \in Decision
    BY <1>2 DEF Confirming, Decision
  <2>3. StartsRun(o) => s = "RUNNING"
    BY <1>2 DEF StartsRun, Sets
  <2> QED
    BY <1>2, <2>1, <2>2, <2>3 DEF MayFollow
<1> QED
    BY <1>1, <1>3 DEF o

\* What ends the work is alone.
LEMMA EndsIsAlone ==
    ASSUME TodoTypes, LiveInv, LastOnly, Ctrl # <<>>, Ends(Head(Ctrl))
    PROVE  Tail(Ctrl) = <<>> /\ Rest = {}
<1>1. CASE Head(Ctrl).op = "handle"
    BY <1>1, HandlerIsAlone DEF LiveInv, WorkFits, Doing, Ctrl
<1>2. CASE Head(Ctrl).op \in Finals
  <2>1. Ctrl \in Seq(GoodOps)
    BY DEF Ctrl, TodoTypes, Threads
  <2>2. 1 \in DOMAIN Ctrl /\ Ctrl[1] = Head(Ctrl)
    BY <2>1
  <2>3. Len(Ctrl) = 1
    BY <1>2, <2>2 DEF LastOnly
  <2>4. Tail(Ctrl) = <<>>
    <3>1. Tail(Ctrl) \in Seq(GoodOps) /\ Len(Tail(Ctrl)) = 0
      BY <2>1, <2>3
    <3> QED
      BY <3>1, EmptySeq
  <2> QED
    BY <2>4, Ranges DEF Rest
<1> QED
    BY <1>1, <1>2 DEF Ends

LEMMA LastStays ==
    ASSUME TodoTypes, LiveInv, LastOnly, Ctrl # <<>>,
           NEW ops, Fits(ops), LastFits(ops), Then("ctrl", ops)
    PROVE  LastOnly'
<1> DEFINE n == Len(ops)
           m == Len(Ctrl)
<1>1. /\ Ctrl' = ops \o Tail(Ctrl) /\ ops \in Seq(GoodOps) /\ Ctrl \in Seq(GoodOps)
    BY DEF Then, Ctrl, TodoTypes, Threads, Fits
<1>2. n \in Nat /\ m \in Nat \ {0} /\ DOMAIN ops = 1..n /\ DOMAIN Ctrl = 1..m
    BY <1>1
<1>3. Len(Tail(Ctrl)) = m - 1 /\ \A i \in 1..(m - 1) : Tail(Ctrl)[i] = Ctrl[i + 1]
    BY <1>1
<1>4. /\ DOMAIN Ctrl' = 1..(n + m - 1) /\ Len(Ctrl') = n + m - 1
      /\ \A i \in 1..n : Ctrl'[i] = ops[i]
      /\ \A i \in (n + 1)..(n + m - 1) : Ctrl'[i] = Tail(Ctrl)[i - n]
    BY <1>1, <1>2, <1>3
<1> HIDE DEF n, m
<1>5. ASSUME NEW i \in DOMAIN Ctrl', Ctrl'[i].op \in Finals
      PROVE  i = Len(Ctrl')
  <2>1. CASE i \in 1..n
    <3>1. i = n /\ Ends(Head(Ctrl))
      BY <1>2, <1>4, <1>5, <2>1 DEF LastFits, n
    <3>2. Tail(Ctrl) = <<>>
      BY <3>1, EndsIsAlone
    <3>3. m = 1
      <4>1. Len(Tail(Ctrl)) = 0
        BY <3>2, EmptySeq, Zenon
      <4>2. m - 1 = 0
        BY <1>3, <4>1
      <4> QED
        BY <1>2, <4>2
    <3> QED
      BY <1>2, <1>4, <3>1, <3>3
  <2>2. CASE i \notin 1..n
    <3>1. i \in (n + 1)..(n + m - 1) /\ i - n \in 1..(m - 1)
      BY <1>2, <1>4, <2>2
    <3>2. Ctrl'[i] = Ctrl[i - n + 1] /\ i - n + 1 \in 1..m
      <4>1. Ctrl'[i] = Tail(Ctrl)[i - n]
        BY <1>4, <3>1
      <4>2. Tail(Ctrl)[i - n] = Ctrl[i - n + 1]
        BY <1>3, <3>1
      <4> QED
        BY <1>2, <3>1, <4>1, <4>2
    <3>3. i - n + 1 = m
      BY <1>2, <1>5, <3>2 DEF LastOnly, m
    <3> QED
      BY <1>2, <1>4, <3>1, <3>3
  <2> QED
    BY <2>1, <2>2
<1> QED
    BY <1>5 DEF LastOnly

-----------------------------------------------------------------------------
(* The decision and what it is made for, over a step that makes none.      *)

\* Nothing is published, or an event that neither decides nor asks.
Hears ==
    \/ inC' = inC /\ shown' = shown /\ nextId' = nextId
    \/ \E f \in Proper : /\ ~IsDecision(f)
                         /\ f.kind \in Observations => f.cause < nextId
                         /\ inC' = Append(inC, f)
                         /\ shown' = NoAction /\ nextId' = nextId + 1

LEMMA PublishIsHeard ==
    ASSUME BusTypes, NEW e \in Proper, NEW R, NEW M, PublishTo(e, R, M),
           e.kind = "change" => e.arg \notin Decision,
           ~(e.kind = "run" /\ e.arg = "awaiting"),
           e.kind \in Observations => e.cause < nextId
    PROVE  Hears
<1> DEFINE f == WithId(e)
<1>1. f \in Proper
    BY WithIdIsProper DEF BusTypes
<1>2. f.kind = e.kind /\ f.arg = e.arg /\ f.cause = e.cause
    BY DEF WithId, Proper, Event
<1>3. nextId' = nextId + 1 /\ inC' = Append(inC, f) /\ shown' = NoAction
    BY <1>2 DEF PublishTo
<1> HIDE DEF f
<1> QED
    BY <1>1, <1>2, <1>3 DEF Hears, IsDecision

LEMMA HeardCauses ==
    ASSUME BusTypes, CausesOld, Hears
    PROVE  CausesOld'
<1>1. \A e \in Range(inC) : e \in Proper
    BY DEF BusTypes, Range
<1>2. \A e \in Proper : e.cause \in Int
    BY DEF Proper, Event, NoId
<1>3. nextId \in Nat
    BY DEF BusTypes
<1>4. CASE inC' = inC /\ nextId' = nextId
    BY <1>4 DEF CausesOld
<1>5. CASE \E f \in Proper : /\ f.kind \in Observations => f.cause < nextId
                             /\ inC' = Append(inC, f) /\ nextId' = nextId + 1
  <2>1. PICK f \in Proper : /\ f.kind \in Observations => f.cause < nextId
                            /\ inC' = Append(inC, f) /\ nextId' = nextId + 1
    BY <1>5
  <2>2. Range(inC') = Range(inC) \cup {f}
    BY <2>1, RangeOfAppend DEF BusTypes
  <2>3. ASSUME NEW e \in Range(inC'), e.kind \in Observations
        PROVE  e.cause < nextId'
    <3>1. e \in Proper /\ e.cause < nextId
      BY <1>1, <2>1, <2>2, <2>3 DEF CausesOld
    <3> QED
      BY <1>2, <1>3, <2>1, <3>1
  <2> QED
    BY <2>3 DEF CausesOld
<1> QED
    BY <1>4, <1>5 DEF Hears

\* The decisions keep their places, and what is new comes last.
LEMMA HeardInbox ==
    ASSUME BusTypes, Hears
    PROVE  /\ Range(inC) \subseteq Range(inC')
           /\ \A e \in Range(inC') : IsDecision(e) => e \in Range(inC)
           /\ \A i \in DOMAIN inC' : IsDecision(inC'[i]) => i \in DOMAIN inC
           /\ \A i \in DOMAIN inC' : i \in DOMAIN inC => inC'[i] = inC[i]
           /\ \A i \in DOMAIN inC, j \in DOMAIN inC' : j \in DOMAIN inC \/ i < j
           /\ shown' \in {shown, NoAction}
<1>1. DOMAIN inC = 1..Len(inC) /\ Len(inC) \in Nat
    BY DEF BusTypes
<1>2. CASE inC' = inC /\ shown' = shown
    BY <1>2
<1>3. CASE \E f \in Proper : /\ ~IsDecision(f) /\ inC' = Append(inC, f)
                             /\ shown' = NoAction
  <2>1. PICK f \in Proper : ~IsDecision(f) /\ inC' = Append(inC, f) /\ shown' = NoAction
    BY <1>3
  <2>2. Range(inC') = Range(inC) \cup {f}
    BY <2>1, RangeOfAppend DEF BusTypes
  <2>3. /\ DOMAIN inC' = 1..(Len(inC) + 1) /\ inC'[Len(inC) + 1] = f
        /\ \A i \in 1..Len(inC) : inC'[i] = inC[i]
    BY <2>1 DEF BusTypes
  <2>4. PICK n \in Nat : n = Len(inC)
    BY <1>1
  <2>5. \A i \in DOMAIN inC' : i \in DOMAIN inC \/ i = n + 1
    BY <1>1, <2>3, <2>4
  <2>6. \A i \in DOMAIN inC : i < n + 1
    BY <1>1, <2>4
  <2> QED
    BY <1>1, <2>1, <2>2, <2>3, <2>4, <2>5, <2>6
<1> QED
    BY <1>2, <1>3 DEF Hears

\* Without a decision there is nothing to keep.
LEMMA UnguardedKeeps ==
    ASSUME ~Guarded'
    PROVE  DecisionInv'
<1>1. /\ ~Queued' /\ ~AtWork' /\ (shown = NoAction)' /\ ~Confirms'
  <2>1. ~Queued' /\ ~AtWork' /\ (shown = NoAction)'
    BY DEF Guarded
  <2>2. \A o : Confirming(o) => Deciding(o)
    BY DEF Confirming, Deciding, Decision
  <2> QED
    BY <2>1, <2>2 DEF Confirms, Queued, AtWork
<1>2. OneDecision' /\ RecallIsLater'
  <2>1. \A i \in DOMAIN inC' : ~IsDecision(inC'[i])
    BY <1>1 DEF Queued, Range
  <2> QED
    BY <1>1, <2>1 DEF OneDecision, RecallIsLater
<1> QED
    BY <1>1, <1>2
    DEF DecisionInv, GuardedIsQuiet, ShownIsPending, QueuedWaitsForRecall, DecidedIsPending,
        Guarded

\* A step that makes no decision, gives the agent nothing new to wait for, and
\* carries out no decision but one it was about to carry out.
Undecided ==
    /\ Hears /\ approved \subseteq approved'
    /\ pending' \in {pending, NoAction}
    /\ Queued /\ pending.kind = "recall" /\ pending' # pending =>
          agentState' # "RUNNING" /\ ~AboutToRun'
    /\ AtWork' => AtWork
    /\ Ctrl' # <<>> /\ Confirming(Head(Ctrl')) => Ctrl # <<>> /\ Confirming(Head(Ctrl))
    /\ Guarded => \A o \in Work' : o.op \notin {"llm", "emit"}
    /\ AboutToRun' => AboutToRun \/ agentState = "USER_CONFIRMED"
    /\ agentState' = "RUNNING" => agentState = "RUNNING" \/ AboutToRun
    /\ agentState' = "USER_CONFIRMED" => agentState = "USER_CONFIRMED" \/ AtWork
    /\ Doing("ctrl", "handle")' => Doing("ctrl", "handle") /\ Ev("ctrl")' = Ev("ctrl")

LEMMA UndecidedKeeps ==
    ASSUME Types, DecisionInv, Undecided
    PROVE  DecisionInv'
<1>1. /\ Queued' => Queued
      /\ Guarded' => Guarded
      /\ Confirms' => Confirms
  <2>1. /\ \A e \in Range(inC') : IsDecision(e) => e \in Range(inC)
        /\ shown' # NoAction => shown' = shown
    BY HeardInbox DEF Types, Undecided
  <2>2. Queued' => Queued
    BY <2>1 DEF Queued
  <2>3. Guarded' => Guarded
    BY <2>1, <2>2 DEF Guarded, Undecided
  <2>4. Confirms' => Confirms
    BY <2>1 DEF Confirms, Undecided
  <2> QED
    BY <2>2, <2>3, <2>4
<1>2. shown' # NoAction => shown' = shown
    BY HeardInbox DEF Types, Undecided
<1>3. OneDecision'
  <2>1. \A i, j \in DOMAIN inC' : IsDecision(inC'[i]) /\ IsDecision(inC'[j]) => i = j
    BY HeardInbox DEF Types, Undecided, DecisionInv, OneDecision
  <2> QED
    BY <1>1, <1>2, <2>1 DEF OneDecision, DecisionInv, Undecided
<1>4. GuardedIsQuiet'
    BY <1>1 DEF GuardedIsQuiet, Undecided
<1>5. ShownIsPending'
    BY <1>2 DEF DecisionInv, ShownIsPending, OneDecision, Undecided
<1>6. QueuedWaitsForRecall'
    BY <1>1 DEF DecisionInv, QueuedWaitsForRecall, OneDecision, Undecided
<1>7. pending' # pending => pending'.kind = "null"
    BY DEF Undecided, NoAction, NewEvent
<1>8. RecallIsLater'
  <2> SUFFICES ASSUME pending'.kind = "recall" PROVE RecallIsLater'
    BY DEF RecallIsLater
  <2>1. pending' = pending
    BY <1>7
  <2>2. ASSUME NEW i \in DOMAIN inC', NEW j \in DOMAIN inC',
               IsDecision(inC'[i]), Answers(inC'[j])
        PROVE  i < j
    <3>1. i \in DOMAIN inC /\ inC'[i] = inC[i]
      BY <2>2, HeardInbox DEF Types, Undecided
    <3>2. CASE j \in DOMAIN inC
      <4>1. inC'[j] = inC[j]
        BY <3>2, HeardInbox DEF Types, Undecided
      <4> QED
        BY <2>1, <2>2, <3>1, <3>2, <4>1 DEF DecisionInv, RecallIsLater
    <3>3. CASE j \notin DOMAIN inC
      BY <3>1, <3>3, HeardInbox DEF Types, Undecided
    <3> QED
      BY <3>2, <3>3
  <2>3. Queued' /\ Doing("ctrl", "handle")' => ~Answers(Ev("ctrl"))'
    BY <1>1, <2>1 DEF Undecided, DecisionInv, RecallIsLater, Answers
  <2> QED
    BY <2>1, <2>2, <2>3 DEF RecallIsLater, Answers
<1>9. DecidedIsPending'
    BY <1>1, <1>7 DEF DecisionInv, DecidedIsPending, Undecided
<1> QED
    BY <1>3, <1>4, <1>5, <1>6, <1>8, <1>9 DEF DecisionInv

-----------------------------------------------------------------------------
(* The calls, over a step that makes none and executes none.               *)

Idle == /\ UNCHANGED <<inR, running, executed, used>> /\ approved \subseteq approved'
        /\ HeldBack' => pending' = pending
        /\ \A o \in Work' : o.op = "emit" /\ o.ev.kind \in {"run", "think"} => o \in Work

LEMMA IdleKeeps ==
    ASSUME HeldIsFresh, RunsOnce, Idle
    PROVE  HeldIsFresh' /\ RunsOnce'
<1>1. \A c : Fresh(c)' <=> Fresh(c)
    BY DEF Idle, Fresh
<1>2. HeldBack' => HeldBack
    BY DEF Idle, HeldBack
<1>3. HeldIsFresh'
    BY <1>1, <1>2 DEF HeldIsFresh, Idle
<1>4. RunsOnce'
    BY DEF RunsOnce, Idle
<1> QED
    BY <1>3, <1>4

\* The controller's own steps: SET writes the state, and nothing else does.
SetsState == agentState' = IF Head(Ctrl).op = "set" THEN Head(Ctrl).arg ELSE agentState

LEMMA EmitsStay ==
    ASSUME TodoTypes, LiveInv, LastOnly, GuardedIsQuiet, EmitsPending, Ctrl # <<>>,
           NEW ops, Followed(ops), Then("ctrl", ops), SetsState,
           pending' \in {pending, NoAction},
           \A o \in Range(ops) : o.op = "emit" => o.ev.kind # "run"
    PROVE  EmitsPending'
<1>1. /\ Work = {Head(Ctrl)} \cup Rest /\ Work' = Range(ops) \cup Rest
    BY WorkGoesOn DEF Followed
<1>2. ASSUME NEW o \in Work', o.op = "emit", o.ev.kind = "run"
      PROVE  /\ pending' \in {o.ev, NoAction}
             /\ o.ev.arg = "awaiting" =>
                   \/ agentState' # "USER_CONFIRMED"
                   \/ Sets(Head(Ctrl'), "AWAITING_USER_CONFIRMATION")
  <2>1. o \in Rest /\ o \in Work
    BY <1>1, <1>2
  <2>2. pending' \in {o.ev, NoAction}
    BY <1>2, <2>1 DEF EmitsPending
  <2>3. ~AtWork
    BY <1>2, <2>1 DEF GuardedIsQuiet, Guarded
  <2>4. ASSUME o.ev.arg = "awaiting" PROVE agentState' # "USER_CONFIRMED"
    <3>1. \/ agentState # "USER_CONFIRMED"
          \/ Sets(Head(Ctrl), "AWAITING_USER_CONFIRMATION")
      BY <1>2, <2>1, <2>4 DEF EmitsPending
    <3>2. Head(Ctrl).op = "set" => Head(Ctrl).arg # "USER_CONFIRMED"
      BY <2>3 DEF AtWork, Deciding, Decision
    <3> QED
      BY <3>1, <3>2 DEF SetsState, Sets
  <2> QED
    BY <2>2, <2>4
<1> QED
    BY <1>2 DEF EmitsPending

\* A step of the controller that makes no call and no decision.
LEMMA WorkKeeps ==
    ASSUME Types, LiveInv, ApprovalInv, Ctrl # <<>>,
           NEW ops, Followed(ops), Then("ctrl", ops), SetsState, Hears,
           UNCHANGED <<inR, running, executed, approved, used>>,
           pending' \in {pending, NoAction},
           Queued /\ pending.kind = "recall" /\ pending' # pending =>
              agentState' # "RUNNING" /\ ~AboutToRun',
           \A o \in Range(ops) : o.op = "emit" => o.ev.kind \notin {"run", "think"}
    PROVE  ApprovalInv'
<1>1. /\ Work = {Head(Ctrl)} \cup Rest /\ Work' = Range(ops) \cup Rest
      /\ ops # <<>> => Ctrl' # <<>> /\ Head(Ctrl') = Head(ops)
      /\ ops = <<>> => (Ctrl' # <<>> => Head(Ctrl') \in Later)
    BY WorkGoesOn DEF Types, Followed
<1>2. Fits(ops) /\ LastFits(ops) /\ \A a \in Range(ops) : MayFollow(a)
    BY DEF Followed
<1>3. ops # <<>> => Head(ops) \in Range(ops)
    BY <1>2, RangeOfHeadAndTail DEF Fits
<1>4. Ctrl' # <<>> => \/ MayFollow(Head(Ctrl'))
                      \/ Head(Ctrl') \in Later
    BY <1>1, <1>2, <1>3
<1>5. \A o \in Later : /\ ~Deciding(o) /\ ~Confirming(o) /\ ~StartsRun(o)
                       /\ o.op # "handle"
    BY DEF Later, Deciding, Confirming, StartsRun, Sets
<1>6. /\ AtWork' => AtWork
      /\ Ctrl' # <<>> /\ Confirming(Head(Ctrl')) => Confirming(Head(Ctrl))
      /\ AboutToRun' => AboutToRun \/ agentState = "USER_CONFIRMED"
      /\ ~Doing("ctrl", "handle")'
  <2>1. ~Doing("ctrl", "handle")'
    BY <1>4, <1>5 DEF Doing, Ctrl, MayFollow
  <2> QED
    BY <1>4, <1>5, <2>1 DEF AtWork, AboutToRun, MayFollow
<1>7. Guarded => \A o \in Work' : o.op \notin {"llm", "emit"}
  <2> SUFFICES ASSUME Guarded, NEW o \in Work' PROVE o.op \notin {"llm", "emit"}
    OBVIOUS
  <2>1. \A a \in Work : a.op \notin {"llm", "emit"}
    BY DEF ApprovalInv, DecisionInv, GuardedIsQuiet
  <2>2. CASE o \in Rest
    BY <1>1, <2>1, <2>2
  <2>3. CASE o \in Range(ops)
    <3>1. ~(Head(Ctrl).op = "step" /\ MayStep)
      <4>1. CASE shown # NoAction
        BY <4>1 DEF ApprovalInv, DecisionInv, ShownIsPending, MayStep
      <4>2. CASE Queued
        BY <4>2 DEF ApprovalInv, DecisionInv, QueuedWaitsForRecall, MayStep, NoAction,
                    NewEvent
      <4>3. CASE AtWork
        BY <4>3 DEF AtWork, Deciding
      <4> QED
        BY <4>1, <4>2, <4>3 DEF Guarded
    <3> QED
      BY <1>1, <1>2, <2>1, <2>3, <3>1 DEF MayFollow
  <2> QED
    BY <1>1, <2>2, <2>3
<1>8. Undecided
  <2>1. agentState' = "RUNNING" => agentState = "RUNNING" \/ AboutToRun
    BY DEF SetsState, AboutToRun, StartsRun, Sets
  <2>2. agentState' = "USER_CONFIRMED" => agentState = "USER_CONFIRMED" \/ AtWork
    BY DEF SetsState, AtWork, Deciding, Decision
  <2> QED
    BY <1>6, <1>7, <2>1, <2>2 DEF Undecided
<1>9. Idle
  <2>1. HeldBack' => pending' = pending
    BY DEF HeldBack, NoAction, NewEvent
  <2> QED
    BY <1>1, <2>1 DEF Idle
<1>10. DecisionInv'
    BY <1>8, UndecidedKeeps DEF ApprovalInv
<1>11. CausesOld'
    BY HeardCauses DEF ApprovalInv, Types
<1>12. LastOnly'
    BY <1>2, LastStays DEF ApprovalInv, Types
<1>13. EmitsPending'
    BY EmitsStay DEF ApprovalInv, DecisionInv, Types
<1>14. HeldIsFresh' /\ RunsOnce'
    BY <1>9, IdleKeeps DEF ApprovalInv
<1> QED
    BY <1>10, <1>11, <1>12, <1>13, <1>14 DEF ApprovalInv

\* A step of the others, as far as it does not concern the calls.
LEMMA OthersDecide ==
    ASSUME Types, ApprovalInv, Ctrl' = Ctrl, Hears,
           approved \subseteq approved', agentState' \in {agentState, "ERROR"},
           pending' \in {pending, NoAction}, pending.kind = "recall" => pending' = pending
    PROVE  DecisionInv' /\ CausesOld' /\ LastOnly' /\ EmitsPending'
<1>1. Work' = Work /\ AtWork' = AtWork /\ AboutToRun' = AboutToRun
    BY DEF Work, AtWork, AboutToRun
<1>2. Doing("ctrl", "handle")' = Doing("ctrl", "handle") /\ Ev("ctrl")' = Ev("ctrl")
    BY DEF Doing, Ev, Ctrl
<1>3. Guarded => \A o \in Work' : o.op \notin {"llm", "emit"}
    BY <1>1 DEF ApprovalInv, DecisionInv, GuardedIsQuiet
<1>4. Undecided
    BY <1>1, <1>2, <1>3 DEF Undecided
<1>5. DecisionInv'
    BY <1>4, UndecidedKeeps DEF ApprovalInv
<1>6. CausesOld'
    BY HeardCauses DEF ApprovalInv, Types
<1>7. LastOnly'
    BY DEF ApprovalInv, LastOnly
<1>8. EmitsPending'
    BY <1>1 DEF ApprovalInv, EmitsPending
<1> QED
    BY <1>5, <1>6, <1>7, <1>8

LEMMA OthersKeep ==
    ASSUME Types, ApprovalInv, Ctrl' = Ctrl, Hears,
           UNCHANGED <<inR, running, executed, approved, used>>,
           agentState' \in {agentState, "ERROR"},
           pending' \in {pending, NoAction}, pending.kind = "recall" => pending' = pending
    PROVE  ApprovalInv'
<1>1. Idle
  <2>1. HeldBack' => pending' = pending
    BY DEF HeldBack, NoAction, NewEvent
  <2> QED
    BY <2>1 DEF Idle, Work
<1> QED
    BY <1>1, IdleKeeps, OthersDecide DEF ApprovalInv

-----------------------------------------------------------------------------
(* The controller's steps that make no call and no decision.               *)

LEMMA QuietWorkKeeps ==
    ASSUME Types, LiveInv, ApprovalInv, Ctrl # <<>>, Head(Ctrl).op # "set",
           NEW ops, Followed(ops), Then("ctrl", ops),
           UNCHANGED <<nextId, inC, inR, shown, agentState, pending, running, executed,
                       approved, used>>,
           \A o \in Range(ops) : o.op = "emit" => o.ev.kind \notin {"run", "think"}
    PROVE  ApprovalInv'
<1>1. Hears /\ SetsState
    BY DEF Hears, SetsState
<1> QED
    BY <1>1, WorkKeeps

\* One tame operation, or none.
LEMMA TameWorkKeeps ==
    ASSUME Types, LiveInv, ApprovalInv, Ctrl # <<>>, Head(Ctrl).op # "set",
           NEW a \in GoodOps, a.op \in Tame, a.op \in Finals => Ends(Head(Ctrl)),
           NEW ops \in {<<>>, <<a>>}, Then("ctrl", ops),
           UNCHANGED <<nextId, inC, inR, shown, agentState, pending, running, executed,
                       approved, used>>
    PROVE  ApprovalInv'
<1>1. Followed(ops) /\ Range(ops) \subseteq {a}
    BY OneFollows, NoneFollows, TameFollows, Ranges
<1>2. a.op # "emit"
    BY TameFollows
<1> QED
    BY <1>1, <1>2, QuietWorkKeeps

\* A step on a state change.
LEMMA StateWorkKeeps ==
    ASSUME Types, LiveInv, ApprovalInv, Ctrl # <<>>, Head(Ctrl).op # "set",
           NEW s \in AgentState \ Decision,
           s = "RUNNING" => StartsRun(Head(Ctrl)) \/ agentState = "USER_CONFIRMED",
           NEW ops \in {<<>>, <<Op("set", s)>>}, Then("ctrl", ops),
           UNCHANGED <<nextId, inC, inR, shown, agentState, pending, running, executed,
                       approved, used>>
    PROVE  ApprovalInv'
<1> DEFINE a == Op("set", s)
<1>1. a \in GoodOps /\ a.op = "set" /\ MayFollow(a)
    BY StateFollows
<1> HIDE DEF a
<1>2. Followed(<<a>>) /\ Followed(<<>>)
    BY <1>1, OneFollows, NoneFollows DEF Finals
<1>3. Followed(ops) /\ Range(ops) \subseteq {a}
    BY <1>2, Ranges DEF a
<1> QED
    BY <1>1, <1>3, QuietWorkKeeps

LEMMA EnsureRunningApproves ==
    ASSUME IInv, LiveInv, ApprovalInv, EnsureRunning
    PROVE  ApprovalInv'
<1>1. Types /\ Ctrl # <<>> /\ Head(Ctrl).op = "ensure running"
    BY DEF IInv, EnsureRunning, Doing, Ctrl
<1>2. /\ UNCHANGED <<nextId, inC, inR, shown, agentState, pending, running, executed,
                     approved, used>>
      /\ Then("ctrl", When(agentState # "RUNNING", <<Op("set", "RUNNING")>>))
    BY DEF EnsureRunning, bus, inboxes, exec
<1>3. When(agentState # "RUNNING", <<Op("set", "RUNNING")>>)
         \in {<<>>, <<Op("set", "RUNNING")>>}
    BY DEF When
<1>4. "RUNNING" \in AgentState \ Decision /\ StartsRun(Head(Ctrl))
    BY <1>1 DEF AgentState, Decision, StartsRun
<1> QED
    BY <1>1, <1>2, <1>3, <1>4, StateWorkKeeps

LEMMA StepUnlessWaitingApproves ==
    ASSUME IInv, LiveInv, ApprovalInv, StepUnlessWaiting
    PROVE  ApprovalInv'
<1>1. Types /\ Ctrl # <<>> /\ Head(Ctrl).op = "step unless waiting"
    BY DEF IInv, StepUnlessWaiting, Doing, Ctrl
<1>2. /\ UNCHANGED <<nextId, inC, inR, shown, agentState, pending, running, executed,
                     approved, used>>
      /\ Then("ctrl", When(agentState # "AWAITING_USER_INPUT", <<Op("step", "none")>>))
    BY DEF StepUnlessWaiting, bus, inboxes, exec
<1>3. When(agentState # "AWAITING_USER_INPUT", <<Op("step", "none")>>)
         \in {<<>>, <<Op("step", "none")>>}
    BY DEF When
<1>4. Op("step", "none") \in GoodOps /\ Op("step", "none").op = "step"
    BY Operations DEF Op
<1> DEFINE a == Op("step", "none")
<1> HIDE DEF a
<1>5. /\ a \in GoodOps /\ a.op \in Tame /\ Ends(Head(Ctrl))
      /\ \E ops \in {<<>>, <<a>>} : Then("ctrl", ops)
    BY <1>1, <1>2, <1>3, <1>4 DEF a, Tame, Ends, Finals
<1> QED
    BY <1>1, <1>2, <1>5, TameWorkKeeps

LEMMA StepBeginApproves ==
    ASSUME IInv, LiveInv, ApprovalInv, StepBegin \/ StepStuck
    PROVE  ApprovalInv'
<1>1. Types /\ Ctrl # <<>> /\ Head(Ctrl).op = "step"
    BY DEF IInv, StepBegin, StepStuck, Doing, Ctrl
<1>2. UNCHANGED <<nextId, inC, inR, shown, agentState, pending, running, executed,
                  approved, used>>
    BY DEF StepBegin, StepStuck, bus, inboxes, exec
<1> DEFINE react == Op("react", "none")
           llm == Op("llm", "none")
<1>3. /\ react \in GoodOps /\ react.op = "react"
      /\ llm \in GoodOps /\ llm.op = "llm"
    BY Operations DEF Op
<1>4. \/ Then("ctrl", <<>>) \/ Then("ctrl", <<react>>)
      \/ Then("ctrl", <<llm>>) /\ MayStep
    BY DEF StepBegin, StepStuck
<1> HIDE DEF react, llm
<1>5. Ends(Head(Ctrl))
    BY <1>1 DEF Ends, Finals
<1>6. MayStep => MayFollow(llm)
    BY <1>1, <1>3 DEF MayFollow, Deciding, Confirming, StartsRun, Sets
<1>7. CASE Then("ctrl", <<llm>>) /\ MayStep
  <2>1. Followed(<<llm>>) /\ Range(<<llm>>) = {llm}
    BY <1>3, <1>5, <1>6, <1>7, OneFollows, Ranges
  <2> QED
    BY <1>1, <1>2, <1>3, <1>7, <2>1, QuietWorkKeeps
<1>8. CASE Then("ctrl", <<>>) \/ Then("ctrl", <<react>>)
  <2>1. \E ops \in {<<>>, <<react>>} : Then("ctrl", ops)
    BY <1>8
  <2> QED
    BY <1>1, <1>2, <1>3, <1>5, <2>1, TameWorkKeeps DEF Tame
<1> QED
    BY <1>4, <1>7, <1>8

LEMMA HandleActionApproves ==
    ASSUME IInv, LiveInv, ApprovalInv, HandleAction
    PROVE  ApprovalInv'
<1> DEFINE e == Ev("ctrl")
           ops == ActionWork(e)
           step == Op("step", "none")
           unless == Op("step unless waiting", "none")
<1>1. /\ Types /\ Ctrl # <<>> /\ Head(Ctrl).op = "handle" /\ Head(Ctrl).ev = e
    BY DEF IInv, HandleAction, Handling, Doing, Ctrl, Ev
<1>2. e \in Proper
    BY <1>1, HeadIsTyped DEF Types, GoodOps, Ctrl, Threads
<1>3. /\ UNCHANGED <<nextId, inC, inR, shown, agentState, pending, running, executed,
                     approved, used>>
      /\ Then("ctrl", ops)
    BY DEF HandleAction, ActionWork, bus, inboxes, exec
<1>4. /\ step \in GoodOps /\ step.op = "step" /\ step \in Later
      /\ unless \in GoodOps /\ unless.op = "step unless waiting" /\ unless \in Later
    BY Operations DEF Op, Later
<1>5. Ends(Head(Ctrl))
    BY <1>1 DEF Ends
<1>6. PICK s \in AgentState :
         \/ /\ ops = <<Op("set", s)>> \/ ops = <<Op("set", s), unless>>
            /\ s # "RUNNING" /\ (s \in Decision => e.kind = "change" /\ e.arg = s)
         \/ ops = <<step>> \/ ops = <<unless>> \/ ops = <<>>
    BY <1>2, ActionWorks
<1>7. MayFollow(step) /\ MayFollow(unless)
    BY <1>4, TameFollows DEF Tame
<1> HIDE DEF step, unless, ops, e
<1>8. CASE /\ ops = <<Op("set", s)>> \/ ops = <<Op("set", s), unless>>
           /\ s # "RUNNING" /\ (s \in Decision => e.kind = "change" /\ e.arg = s)
  <2> DEFINE a == Op("set", s)
  <2>1. s \in Decision => /\ Deciding(Head(Ctrl))
                          /\ s = "USER_CONFIRMED" => Confirming(Head(Ctrl))
    BY <1>1, <1>8 DEF Deciding, Confirming, IsDecision
  <2>2. a \in GoodOps /\ a.op = "set" /\ MayFollow(a)
    BY <1>8, <2>1, StateFollows
  <2> HIDE DEF a
  <2>3. Followed(<<a>>) /\ Followed(<<a, unless>>)
    BY <1>4, <1>5, <1>7, <2>2, OneFollows, TwoFollow DEF Finals
  <2>4. Followed(ops) /\ Range(ops) \subseteq {a, unless}
    BY <1>8, <2>3, Ranges DEF a
  <2> QED
    BY <1>1, <1>3, <1>4, <2>2, <2>4, QuietWorkKeeps
<1>9. CASE ops = <<step>> \/ ops = <<unless>> \/ ops = <<>>
  <2>1. Followed(<<step>>) /\ Followed(<<unless>>) /\ Followed(<<>>)
    BY <1>4, <1>5, <1>7, OneFollows, NoneFollows
  <2>2. Followed(ops) /\ Range(ops) \subseteq {step, unless}
    BY <1>9, <2>1, Ranges
  <2> QED
    BY <1>1, <1>3, <1>4, <2>2, QuietWorkKeeps
<1> QED
    BY <1>6, <1>8, <1>9

\* The answer to a recall that is waited for comes after the decision.
LEMMA HandleObservationApproves ==
    ASSUME IInv, LiveInv, ApprovalInv, HandleObservation
    PROVE  ApprovalInv'
<1> DEFINE e == Ev("ctrl")
           answers == /\ pending # NoAction /\ pending.id = e.cause
                      /\ agentState # "AWAITING_USER_CONFIRMATION"
           ops == ObservationWork(answers, e)
           step == Op("step", "none")
<1>1. /\ Types /\ Ctrl # <<>> /\ Head(Ctrl).op = "handle" /\ e.kind \in Observations
      /\ Doing("ctrl", "handle")
    BY DEF IInv, HandleObservation, Handling, Doing, Ctrl
<1>2. /\ Then("ctrl", ops)
      /\ UNCHANGED <<nextId, inC, inR, shown, agentState, running, executed, approved, used>>
      /\ pending' = IF answers THEN NoAction ELSE pending
    BY DEF HandleObservation, ObservationWork, bus, inboxes, exec
<1>3. step \in GoodOps /\ step.op = "step" /\ step \in Later
    BY Operations DEF Op, Later
<1>4. Ends(Head(Ctrl)) /\ MayFollow(step)
    BY <1>1, <1>3, TameFollows DEF Ends, Tame
<1>5. \/ ops = <<>> \/ ops = <<step>>
      \/ \E s \in {"RUNNING", "AWAITING_USER_INPUT"} :
            /\ s = "RUNNING" => agentState = "USER_CONFIRMED"
            /\ ops = <<Op("set", s)>> \/ ops = <<Op("set", s), step>>
  <2>1. answers \in BOOLEAN
    OBVIOUS
  <2> HIDE DEF answers
  <2> QED
    BY <2>1, ObservationWorks
<1>6. Queued /\ pending.kind = "recall" => pending' = pending
  <2>1. Queued /\ pending.kind = "recall" => pending.id # e.cause
    BY <1>1 DEF ApprovalInv, DecisionInv, RecallIsLater, Answers
  <2> QED
    BY <1>2, <2>1
<1>7. Hears /\ SetsState /\ pending' \in {pending, NoAction}
    BY <1>1, <1>2 DEF Hears, SetsState
<1> HIDE DEF step, ops, answers, e
<1>8. Followed(ops) /\ \A o \in Range(ops) : o.op # "emit"
  <2>1. CASE ops = <<>> \/ ops = <<step>>
    <3>1. Followed(<<step>>) /\ Followed(<<>>)
      BY <1>3, <1>4, OneFollows, NoneFollows
    <3> QED
      BY <1>3, <2>1, <3>1, Ranges
  <2>2. ASSUME NEW s \in {"RUNNING", "AWAITING_USER_INPUT"},
               s = "RUNNING" => agentState = "USER_CONFIRMED",
               ops = <<Op("set", s)>> \/ ops = <<Op("set", s), step>>
        PROVE  Followed(ops) /\ \A o \in Range(ops) : o.op # "emit"
    <3> DEFINE a == Op("set", s)
    <3>1. s \in AgentState /\ s \notin Decision
      BY DEF AgentState, Decision
    <3>2. a \in GoodOps /\ a.op = "set" /\ MayFollow(a)
      BY <2>2, <3>1, StateFollows
    <3> HIDE DEF a
    <3>3. Followed(<<a>>) /\ Followed(<<a, step>>)
      BY <1>3, <1>4, <3>2, OneFollows, TwoFollow DEF Finals
    <3>4. Range(<<a>>) = {a} /\ Range(<<a, step>>) = {a, step}
      BY Ranges
    <3> QED
      BY <1>3, <2>2, <3>2, <3>3, <3>4 DEF a
  <2> QED
    BY <1>5, <2>1, <2>2
<1> QED
    BY <1>1, <1>2, <1>6, <1>7, <1>8, WorkKeeps

\* What the LLM's answer, its failure or an exception leads to.
LEMMA LLMApproves ==
    ASSUME IInv, LiveInv, ApprovalInv,
           \/ LLMRetries \/ LLMRateLimited \/ LLMFails \/ ReactToException
           \/ \E kind \in {"say", "ask", "finish", "reject", "condense"} : LLMTalks(kind)
    PROVE  ApprovalInv'
<1>1. /\ Types /\ Ctrl # <<>> /\ Head(Ctrl).op \in {"llm", "react"}
      /\ UNCHANGED <<nextId, inC, inR, shown, agentState, pending, running, executed,
                     approved, used>>
    BY DEF IInv, LLMRetries, LLMRateLimited, LLMFails, LLMTalks, ReactToException, Doing,
           Ctrl, bus, inboxes, exec
<1>2. CASE LLMFails
  <2> DEFINE a == Op("react", "none")
  <2>1. a \in GoodOps /\ a.op \in Tame /\ a.op \notin Finals
    BY Operations DEF Op, Tame, Finals
  <2>2. Then("ctrl", <<a>>)
    BY <1>2 DEF LLMFails
  <2> HIDE DEF a
  <2> QED
    BY <1>1, <2>1, <2>2, TameWorkKeeps
<1>3. CASE LLMRateLimited \/ ReactToException
  <2>1. PICK s \in {"ERROR", "RATE_LIMITED"} : Then("ctrl", <<Op("set", s)>>)
    BY <1>3 DEF LLMRateLimited, ReactToException, RateLimitState
  <2>2. s \in AgentState \ Decision /\ s # "RUNNING"
    BY DEF AgentState, Decision
  <2> QED
    BY <1>1, <2>1, <2>2, StateWorkKeeps
<1>4. CASE LLMRetries
  <2> DEFINE a == [Head(Ctrl) EXCEPT !.failed = @ + 1]
  <2>0. Head(Ctrl) \in GoodOps /\ Head(Ctrl).op = "llm"
    BY <1>1, <1>4, HeadIsTyped DEF Types, LLMRetries, Doing, Ctrl, Threads
  <2>1. a \in GoodOps /\ a.op = "llm"
    <3>1. Head(Ctrl).failed \in 0..(Retries - 1)
      BY <2>0 DEF GoodOps, Ops
    <3>2. Head(Ctrl).failed + 1 < Retries
      BY <1>4 DEF LLMRetries, Ctrl
    <3>3. Head(Ctrl).failed \in Nat /\ Head(Ctrl).failed + 1 \in 0..(Retries - 1)
      BY <3>1, <3>2, ConstantsAssumption
    <3> QED
      BY <2>0, <3>3 DEF GoodOps, Ops
  <2>2. Then("ctrl", <<a>>)
    BY <1>4 DEF LLMRetries, Ctrl
  <2> HIDE DEF a
  <2>3. MayFollow(a)
    BY <2>0, <2>1 DEF MayFollow, Deciding, Confirming, StartsRun, Sets
  <2>4. Followed(<<a>>) /\ Range(<<a>>) = {a}
    BY <2>0, <2>1, <2>3, OneFollows, Ranges DEF Ends, Finals
  <2> QED
    BY <1>1, <2>1, <2>2, <2>4, QuietWorkKeeps
<1>5. ASSUME NEW kind \in {"say", "ask", "finish", "reject", "condense"}, LLMTalks(kind)
      PROVE  ApprovalInv'
  <2> DEFINE e == NewEvent(kind, NoCause, NoCall, "none")
             a == OpOn("emit", e)
  <2>0. Head(Ctrl).op = "llm"
    BY <1>5 DEF LLMTalks, Doing, Ctrl
  <2>1. e \in Proper /\ e.kind = kind
    <3>1. kind \in Kinds \ {"change", "run"}
      BY DEF Kinds
    <3>2. NoCause \in Nat \cup {NoId} /\ NoCall \in 0..MaxCalls /\ "none" \in Confirmation
      BY ConstantsAssumption DEF NoCause, NoId, NoCall, Confirmation
    <3> QED
      BY <3>1, <3>2, Constructors DEF NewEvent
  <2>2. a \in GoodOps /\ a.op = "emit" /\ a.ev = e
    <3>1. e.kind \in Emitted
      BY <2>1 DEF Emitted
    <3> HIDE DEF e
    <3> QED
      BY <2>1, <3>1, Operations DEF OpOn
  <2>3. Then("ctrl", <<a>>)
    BY <1>5 DEF LLMTalks
  <2> HIDE DEF a, e
  <2>4. MayFollow(a)
    BY <2>0, <2>2 DEF MayFollow, Deciding, Confirming, StartsRun, Sets
  <2>5. Followed(<<a>>) /\ Range(<<a>>) = {a}
    BY <2>0, <2>2, <2>4, OneFollows, Ranges DEF Ends, Finals
  <2> QED
    BY <1>1, <2>1, <2>2, <2>3, <2>5, QuietWorkKeeps
<1> QED
    BY <1>2, <1>3, <1>4, <1>5

LEMMA LLMUnusableApproves ==
    ASSUME IInv, LiveInv, ApprovalInv, NEW kind \in {"err", "condense"}, LLMUnusable(kind)
    PROVE  ApprovalInv'
<1> DEFINE e == NewEvent(kind, NoCause, NoCall, "none")
<1>1. /\ Types /\ Ctrl # <<>> /\ Head(Ctrl).op = "llm" /\ Then("ctrl", <<>>) /\ Publish(e)
      /\ UNCHANGED <<agentState, pending, running, executed, approved, used>>
    BY DEF IInv, LLMUnusable, Doing, Ctrl, exec
<1>2. e \in Proper /\ e.kind = kind /\ e.cause = 0
  <2>1. kind \in Kinds \ {"change", "run"}
    BY DEF Kinds
  <2>2. NoCause \in Nat \cup {NoId} /\ NoCall \in 0..MaxCalls /\ "none" \in Confirmation
    BY ConstantsAssumption DEF NoCause, NoId, NoCall, Confirmation
  <2> QED
    BY <2>1, <2>2, Constructors DEF NewEvent, NoCause
<1> HIDE DEF e
<1>3. Hears /\ inR' = inR /\ SetsState
  <2>1. inR' = inR
    BY <1>1, <1>2 DEF Publish, PublishTo, WithId, Proper, Event
  <2>2. Hears
    BY <1>1, <1>2, PublishIsHeard DEF Publish, Types, BusTypes
  <2> QED
    BY <1>1, <2>1, <2>2 DEF SetsState
<1>4. Followed(<<>>) /\ Range(<<>>) = {}
    BY NoneFollows, Ranges
<1> QED
    BY <1>1, <1>3, <1>4, WorkKeeps

-----------------------------------------------------------------------------
(* set_agent_state_to, on either thread.                                   *)

LEMMA SetStateApproves ==
    ASSUME IInv, LiveInv, ApprovalInv, NEW t \in Threads, SetState(t)
    PROVE  ApprovalInv'
<1> DEFINE new == Arg(t)
           ops == SetWork(new)
<1>1. /\ Types /\ todo[t] # <<>> /\ Head(todo[t]).op = "set" /\ Head(todo[t]).arg = new
      /\ Head(todo[t]) \in GoodOps /\ (t = "sess" => Head(todo[t]) \in SessOps)
    BY HeadIsTyped DEF SetState, Doing, IInv, Types, Arg
<1>2. /\ Then(t, ops) /\ agentState' = new
      /\ UNCHANGED <<pending, running, executed, approved, used>>
      /\ UNCHANGED bus \/ Publish(NotExecuted)
    BY DEF SetState, SetWork, exec
<1>3. new \in AgentState /\ (t = "sess" => new = "ERROR")
    BY <1>1 DEF GoodOps, SessOps
<1>4. Hears /\ inR' = inR
  <2>1. CASE UNCHANGED bus
    BY <2>1 DEF bus, inboxes, Hears
  <2>2. CASE Publish(NotExecuted)
    <3>1. NotExecuted \in Proper /\ NotExecuted.kind = "err" /\ NotExecuted.cause = pending.id
      <4>1. pending.id \in Nat \cup {NoId} /\ pending.call \in 0..MaxCalls
        BY <1>1 DEF Types, CtlTypes, Proper, Event
      <4>2. NotExecuted \in Proper
        BY <4>1, Constructors DEF NotExecuted, Kinds, Confirmation
      <4> QED
        BY <4>2 DEF NotExecuted, NewEvent
    <3>2. pending.id < nextId
      BY <1>1 DEF LiveInv, PendingIsKnown, NoId, Types, BusTypes
    <3>3. inR' = inR
      <4>1. WithId(NotExecuted).kind = "err"
        BY <1>1, <3>1, WithIdIsProper DEF Types, BusTypes
      <4> QED
        BY <2>2, <4>1 DEF Publish, PublishTo
    <3>4. Hears
      BY <1>1, <2>2, <3>1, <3>2, PublishIsHeard DEF Publish, Types
    <3> QED
      BY <3>3, <3>4
  <2> QED
    BY <1>2, <2>1, <2>2
<1>5. CASE t = "ctrl"
  <2>1. /\ Ctrl # <<>> /\ Head(Ctrl).op = "set" /\ Head(Ctrl).arg = new
        /\ Head(Ctrl) \in GoodOps
    BY <1>1, <1>5 DEF Ctrl
  <2> DEFINE clear == Op("clear", "none")
             announce == Op("announce", "none")
             reissue == Op("reissue", new)
  <2>2. /\ clear \in GoodOps /\ clear.op = "clear"
        /\ announce \in GoodOps /\ announce.op = "announce" /\ announce \in Later
        /\ new \in Decision => reissue \in GoodOps
        /\ reissue.op = "reissue" /\ reissue.arg = new
    BY Operations DEF Op, Later
  <2>3. \/ ops = <<>> \/ ops = <<announce>> \/ ops = <<clear, announce>>
        \/ ops = <<reissue, announce>> /\ new \in Decision
    BY <1>3, SetWorks
  <2> HIDE DEF clear, announce, reissue, ops, new
  <2>4. MayFollow(clear) /\ MayFollow(announce)
    BY <2>2, TameFollows DEF Tame
  <2>5. new \in Decision => MayFollow(reissue)
    BY <2>1, <2>2 DEF MayFollow, Deciding, Confirming, StartsRun, Sets
  <2>6. /\ Followed(<<>>) /\ Followed(<<announce>>) /\ Followed(<<clear, announce>>)
        /\ new \in Decision => Followed(<<reissue, announce>>)
    BY <2>2, <2>4, <2>5, NoneFollows, OneFollows, TwoFollow DEF Finals
  <2>7. Followed(ops) /\ Range(ops) \subseteq {clear, announce, reissue}
    BY <2>3, <2>6, Ranges
  <2>8. SetsState
    BY <1>2, <2>1 DEF SetsState
  <2> QED
    BY <1>1, <1>2, <1>4, <1>5, <2>1, <2>2, <2>7, <2>8, WorkKeeps
<1>6. CASE t = "sess"
  <2>1. Ctrl' = Ctrl
    BY <1>1, <1>2, <1>6 DEF Then, Types, TodoTypes, Threads, Ctrl
  <2> QED
    BY <1>1, <1>2, <1>3, <1>4, <1>6, <2>1, OthersKeep
<1> QED
    BY <1>5, <1>6 DEF Threads

LEMMA ClearPendingApproves ==
    ASSUME IInv, LiveInv, ApprovalInv, NEW t \in Threads, ClearPending(t), ~dropped'
    PROVE  ApprovalInv'
<1>1. /\ Types /\ todo[t] # <<>> /\ Head(todo[t]).op = "clear"
      /\ Then(t, <<>>) /\ pending' = NoAction
      /\ UNCHANGED <<nextId, inC, inR, shown, agentState, running, executed, approved, used>>
      /\ t = "sess" => pending.kind # "recall"
    BY DEF IInv, ClearPending, Doing, bus, inboxes, exec
<1>2. Hears
    BY <1>1 DEF Hears
<1>3. CASE t = "ctrl"
  <2>1. Ctrl # <<>> /\ Head(Ctrl).op = "clear" /\ Then("ctrl", <<>>)
    BY <1>1, <1>3 DEF Ctrl
  <2>2. Followed(<<>>) /\ Range(<<>>) = {} /\ SetsState
    BY <1>1, <2>1, NoneFollows, Ranges DEF SetsState
  <2>3. agentState' # "RUNNING" /\ ~AboutToRun'
    <3>1. ~AboutToRun'
      BY <1>1, <2>1, HeadIsDone DEF Types
    <3>2. agentState # "RUNNING"
      BY <2>1 DEF LiveInv, WorkFits, Doing, Ctrl
    <3> QED
      BY <1>1, <3>1, <3>2
  <2> QED
    BY <1>1, <1>2, <2>1, <2>2, <2>3, WorkKeeps
<1>4. CASE t = "sess"
  <2>1. Ctrl' = Ctrl
    BY <1>1, <1>4 DEF Then, Types, TodoTypes, Threads, Ctrl
  <2> QED
    BY <1>1, <1>2, <1>4, <2>1, OthersKeep
<1> QED
    BY <1>3, <1>4 DEF Threads

LEMMA AnnounceApproves ==
    ASSUME IInv, LiveInv, ApprovalInv, NEW t \in Threads,
           Announce(t) \/ PublishState(t) \/ PickleState(t) \/ WriteState(t)
    PROVE  ApprovalInv'
<1> DEFINE publish == Op("publish", agentState)
           pickle == Op("pickle", "none")
           write == Op("write", agentState)
<1>1. /\ Types /\ todo[t] # <<>>
      /\ Head(todo[t]).op \in {"announce", "publish", "pickle", "write"}
    BY DEF IInv, Announce, PublishState, PickleState, WriteState, Doing
<1>2. UNCHANGED <<nextId, inC, inR, shown, agentState, pending, running, executed,
                  approved, used>>
    BY DEF Announce, PublishState, PickleState, WriteState, bus, inboxes, exec
<1>3. PICK ops \in {<<>>, <<publish, pickle>>, <<write>>} : Then(t, ops)
    BY DEF Announce, PublishState, PickleState, WriteState
<1>4. /\ publish \in GoodOps /\ write \in GoodOps /\ pickle \in Later
      /\ publish.op = "publish" /\ pickle.op = "pickle" /\ write.op = "write"
    BY <1>1, Operations DEF Types, CtlTypes, Later, Op
<1> HIDE DEF publish, pickle, write
<1>5. CASE t = "ctrl"
  <2>1. MayFollow(publish) /\ MayFollow(pickle) /\ MayFollow(write)
    BY <1>4, TameFollows DEF Tame, Later
  <2>2. Followed(<<>>) /\ Followed(<<publish, pickle>>) /\ Followed(<<write>>)
    BY <1>4, <2>1, NoneFollows, OneFollows, TwoFollow DEF Finals
  <2>3. Followed(ops) /\ Range(ops) \subseteq {publish, pickle, write}
    BY <2>2, Ranges
  <2>4. Ctrl # <<>> /\ Head(Ctrl).op # "set" /\ Then("ctrl", ops)
    BY <1>1, <1>3, <1>5 DEF Ctrl
  <2>5. \A o \in Range(ops) : o.op # "emit"
    BY <1>4, <2>3
  <2> QED
    BY <1>1, <1>2, <2>3, <2>4, <2>5, QuietWorkKeeps
<1>6. CASE t = "sess"
  <2>1. Ctrl' = Ctrl
    BY <1>1, <1>3, <1>6 DEF Then, Types, TodoTypes, Threads, Ctrl
  <2> QED
    BY <1>1, <1>2, <2>1, OthersKeep DEF Hears
<1> QED
    BY <1>5, <1>6 DEF Threads

-----------------------------------------------------------------------------
(* The steps that bring a decision or a call forward.                      *)

LEMMA OnEventApproves ==
    ASSUME IInv, LiveInv, ApprovalInv, OnEvent
    PROVE  ApprovalInv'
<1> DEFINE e == Head(inC)
           o == OpOn("handle", e)
<1>1. /\ Types /\ Ctrl = <<>> /\ inC # <<>> /\ inC' = Tail(inC) /\ Ctrl' = <<o>>
      /\ UNCHANGED <<nextId, inR, shown, agentState, pending, running, executed, approved,
                     used>>
    BY DEF IInv, OnEvent, Ctrl, exec, Types, TodoTypes, Threads
<1>2. o.op = "handle" /\ o.ev = e
    BY DEF OpOn
<1>3. /\ Work = {} /\ Work' = {o} /\ Ctrl' # <<>> /\ Head(Ctrl') = o
      /\ DOMAIN Ctrl' = {1} /\ Ctrl'[1] = o
  <2>1. Ctrl' # <<>> /\ Head(Ctrl') = o /\ DOMAIN Ctrl' = {1} /\ Ctrl'[1] = o
    BY <1>1
  <2> QED
    BY <1>1, <2>1, Ranges DEF Work
<1> HIDE DEF o
<1>4. /\ e = inC[1] /\ 1 \in DOMAIN inC
      /\ \A i \in DOMAIN inC' : i \in Nat \ {0} /\ i + 1 \in DOMAIN inC /\ inC'[i] = inC[i + 1]
      /\ Range(inC) = {e} \cup Range(inC')
  <2>1. inC \in Seq(Sent)
    BY <1>1 DEF Types, BusTypes
  <2>2. e = inC[1] /\ 1 \in DOMAIN inC
    BY <1>1, <2>1
  <2>3. \A i \in DOMAIN inC' : i \in Nat \ {0} /\ i + 1 \in DOMAIN inC /\ inC'[i] = inC[i + 1]
    BY <1>1, <2>1
  <2>4. Range(inC) = {e} \cup Range(inC')
    BY <1>1, <2>1, RangeOfHeadAndTail
  <2> QED
    BY <2>2, <2>3, <2>4
<1> HIDE DEF e
<1>5. /\ AtWork' <=> IsDecision(e)
      /\ ~AtWork /\ ~AboutToRun'
      /\ Confirming(Head(Ctrl')) <=> IsDecision(e) /\ e.arg = "USER_CONFIRMED"
    BY <1>1, <1>2, <1>3 DEF AtWork, AboutToRun, Deciding, Confirming, StartsRun, Sets
<1>6. /\ Queued' \/ AtWork' => Queued
      /\ Guarded' => Guarded
      /\ Confirms' => Confirms
  <2>1. Queued' \/ AtWork' => Queued
    BY <1>4, <1>5 DEF Queued
  <2>2. Guarded' => Guarded
    BY <1>1, <2>1 DEF Guarded
  <2>3. Confirms' => Confirms
    BY <1>4, <1>5 DEF Confirms
  <2> QED
    BY <2>1, <2>2, <2>3
<1>7. ASSUME NEW i \in DOMAIN inC', IsDecision(inC'[i])
      PROVE  ~IsDecision(e) /\ (pending.kind = "recall" => ~Answers(e))
  <2>1. PICK k \in DOMAIN inC : k = i + 1 /\ IsDecision(inC[k]) /\ ~(k = 1) /\ ~(k < 1)
    BY <1>4, <1>7
  <2>2. ~IsDecision(e)
    BY <1>4, <2>1 DEF ApprovalInv, DecisionInv, OneDecision
  <2>3. pending.kind = "recall" => ~Answers(e)
    BY <1>4, <2>1 DEF ApprovalInv, DecisionInv, RecallIsLater
  <2> QED
    BY <2>2, <2>3
<1>8. OneDecision'
  <2>1. ASSUME NEW i \in DOMAIN inC', NEW j \in DOMAIN inC',
               IsDecision(inC'[i]), IsDecision(inC'[j])
        PROVE  i = j
    <3>1. i + 1 = j + 1
      BY <1>4, <2>1 DEF ApprovalInv, DecisionInv, OneDecision
    <3> QED
      BY <1>4, <3>1
  <2>2. Queued' => ~AtWork'
    BY <1>5, <1>7 DEF Queued, Range
  <2>3. Queued' \/ AtWork' => shown' = NoAction
    BY <1>1, <1>6 DEF ApprovalInv, DecisionInv, OneDecision
  <2> QED
    BY <2>1, <2>2, <2>3 DEF OneDecision
<1>9. RecallIsLater'
  <2> SUFFICES ASSUME pending.kind = "recall" PROVE RecallIsLater'
    BY <1>1 DEF RecallIsLater
  <2>1. ASSUME NEW i \in DOMAIN inC', NEW j \in DOMAIN inC',
               IsDecision(inC'[i]), Answers(inC'[j])
        PROVE  i < j
    <3>1. i + 1 < j + 1
      BY <1>4, <2>1 DEF ApprovalInv, DecisionInv, RecallIsLater
    <3> QED
      BY <1>4, <3>1
  <2>2. Queued' => ~Answers(e)
    BY <1>7 DEF Queued, Range
  <2>3. Ev("ctrl")' = e
    BY <1>2, <1>3 DEF Ev, Ctrl
  <2> QED
    BY <1>1, <2>1, <2>2, <2>3 DEF RecallIsLater, Answers
<1>10. GuardedIsQuiet'
    BY <1>2, <1>3 DEF GuardedIsQuiet
<1>11. ShownIsPending' /\ QueuedWaitsForRecall' /\ DecidedIsPending'
  <2>1. ShownIsPending'
    BY <1>1, <1>5 DEF ApprovalInv, DecisionInv, ShownIsPending
  <2>2. QueuedWaitsForRecall'
    BY <1>1, <1>5, <1>6 DEF ApprovalInv, DecisionInv, QueuedWaitsForRecall
  <2>3. DecidedIsPending'
    BY <1>1, <1>6 DEF ApprovalInv, DecisionInv, DecidedIsPending
  <2> QED
    BY <2>1, <2>2, <2>3
<1>12. CausesOld' /\ EmitsPending'
    BY <1>1, <1>2, <1>3, <1>4 DEF ApprovalInv, CausesOld, EmitsPending
<1>13. LastOnly'
    BY <1>2, <1>3 DEF LastOnly, Finals
<1>14. Idle
    BY <1>1, <1>2, <1>3 DEF Idle
<1> QED
    BY <1>8, <1>9, <1>10, <1>11, <1>12, <1>13, <1>14, IdleKeeps DEF ApprovalInv, DecisionInv

\* A message takes the buttons away, and what is queued before its recall can
\* not answer it.
LEMMA HandleUserMessageApproves ==
    ASSUME IInv, LiveInv, ApprovalInv, HandleUserMessage
    PROVE  ApprovalInv'
<1> DEFINE recall == NewEvent("recall", NoCause, NoCall, "none")
           ensure == Op("ensure running", "none")
           step == Op("step", "none")
           ops == <<ensure, step>>
<1>1. /\ Types /\ Ctrl # <<>> /\ Head(Ctrl).op = "handle" /\ Doing("ctrl", "handle")
      /\ Head(Ctrl).ev.kind = "msg"
      /\ pending' = WithId(recall) /\ Publish(recall) /\ Then("ctrl", ops)
      /\ UNCHANGED <<agentState, running, executed, approved, used>>
    BY DEF IInv, HandleUserMessage, Handling, Doing, Ctrl, Ev, exec
<1>2. recall \in Proper /\ recall.kind = "recall"
  <2>1. "recall" \in Kinds \ {"change", "run"}
    BY DEF Kinds
  <2>2. NoCause \in Nat \cup {NoId} /\ NoCall \in 0..MaxCalls /\ "none" \in Confirmation
    BY ConstantsAssumption DEF NoCause, NoId, NoCall, Confirmation
  <2> QED
    BY <2>1, <2>2, Constructors DEF NewEvent
<1> HIDE DEF recall
<1>3. pending'.kind = "recall" /\ pending'.id = nextId /\ inR' = inR
  <2>1. WithId(recall).kind = "recall" /\ WithId(recall).id = nextId
    BY <1>1, <1>2, WithIdIsProper DEF Types, BusTypes
  <2> QED
    BY <1>1, <2>1 DEF Publish, PublishTo
<1>4. Hears /\ shown' = NoAction
  <2>1. Hears
    BY <1>1, <1>2, PublishIsHeard DEF Publish, Types, Observations
  <2>2. WithId(recall).kind # "run"
    BY <1>1, <1>2, WithIdIsProper DEF Types, BusTypes
  <2> QED
    BY <1>1, <2>1, <2>2 DEF Publish, PublishTo
<1>5. /\ ensure \in GoodOps /\ ensure.op = "ensure running"
      /\ step \in Later /\ step.op = "step" /\ step \in GoodOps
    BY Operations DEF Op, Later
<1> HIDE DEF ensure, step
<1>6. Fits(ops) /\ Range(ops) = {ensure, step} /\ ops # <<>> /\ Head(ops) = ensure
  <2>1. ops # <<>> /\ Head(ops) = ensure
    OBVIOUS
  <2>2. Fits(ops) /\ Range(ops) = {ensure, step}
    BY <1>5, Fitting, Ranges
  <2> QED
    BY <2>1, <2>2
<1>7. LastFits(ops)
  <2>1. DOMAIN ops = {1, 2} /\ ops[1] = ensure /\ ops[2] = step /\ Len(ops) = 2
    OBVIOUS
  <2> QED
    BY <1>1, <1>5, <2>1 DEF LastFits, Ends, Finals
<1> HIDE DEF ops
<1>8. Work' = {ensure, step} /\ Ctrl' # <<>> /\ Head(Ctrl') = ensure
  <2>1. Rest = {}
    BY <1>1, HandlerIsAlone
  <2> QED
    BY <1>1, <1>6, <2>1, WorkGoesOn DEF Types
<1>9. ~AtWork' /\ ~Doing("ctrl", "handle")' /\ ~Confirming(Head(Ctrl'))
    BY <1>5, <1>8 DEF AtWork, Doing, Ctrl, Deciding, Confirming
<1>10. Queued' => Queued
    BY <1>1, <1>4, HeardInbox DEF Queued, Types
<1>11. OneDecision'
  <2>1. \A i, j \in DOMAIN inC' : IsDecision(inC'[i]) /\ IsDecision(inC'[j]) => i = j
    BY <1>1, <1>4, HeardInbox DEF Types, ApprovalInv, DecisionInv, OneDecision
  <2> QED
    BY <1>4, <1>9, <2>1 DEF OneDecision
<1>12. GuardedIsQuiet' /\ ShownIsPending' /\ DecidedIsPending'
    BY <1>3, <1>4, <1>5, <1>8 DEF GuardedIsQuiet, ShownIsPending, DecidedIsPending
<1>13. QueuedWaitsForRecall'
    BY <1>1, <1>3, <1>10 DEF ApprovalInv, DecisionInv, QueuedWaitsForRecall
<1>14. \A x \in Range(inC') : ~(x.kind \in Observations /\ x.cause = pending'.id)
  <2>1. \A x \in Range(inC') : x \in Range(inC) \/ x = WithId(recall)
    <3>1. inC' = Append(inC, WithId(recall)) /\ WithId(recall) \in Proper
      BY <1>1, <1>2, WithIdIsProper DEF Publish, PublishTo, Types, BusTypes
    <3>2. Range(inC') = Range(inC) \cup {WithId(recall)}
      BY <1>1, <3>1, RangeOfAppend DEF Types, BusTypes
    <3> QED
      BY <3>2
  <2>2. WithId(recall).kind \notin Observations
    BY <1>1, <1>2, WithIdIsProper DEF Types, BusTypes, Observations
  <2>3. \A x \in Range(inC) : x.kind \in Observations => x.cause # nextId
    <3>1. \A x \in Range(inC) : x.cause \in Int
      BY <1>1 DEF Types, BusTypes, Range, Proper, Event, NoId
    <3>2. nextId \in Nat
      BY <1>1 DEF Types, BusTypes
    <3> QED
      BY <3>1, <3>2 DEF ApprovalInv, CausesOld
  <2> QED
    BY <1>3, <2>1, <2>2, <2>3
<1>15. RecallIsLater'
    BY <1>9, <1>14 DEF RecallIsLater, Answers, Range
<1>16. CausesOld' /\ LastOnly'
    BY <1>1, <1>4, <1>6, <1>7, HeardCauses, LastStays DEF Types, ApprovalInv
<1>17. EmitsPending'
    BY <1>5, <1>8 DEF EmitsPending
<1>18. Idle
    BY <1>1, <1>3, <1>5, <1>8 DEF Idle, HeldBack
<1> QED
    BY <1>11, <1>12, <1>13, <1>15, <1>16, <1>17, <1>18, IdleKeeps DEF ApprovalInv, DecisionInv

\* The LLM is asked only when there is nothing to decide.
LEMMA AskedIsUnguarded ==
    ASSUME Types, LiveInv, ApprovalInv, Ctrl # <<>>, Head(Ctrl).op \in {"llm", "emit"}
    PROVE  ~Guarded /\ Tail(Ctrl) = <<>> /\ Rest = {}
<1>1. Head(Ctrl) \in Work
    BY RangeOfHeadAndTail DEF Types, TodoTypes, Threads, Work, Ctrl
<1>2. ~Guarded
    BY <1>1 DEF ApprovalInv, DecisionInv, GuardedIsQuiet
<1>3. Tail(Ctrl) = <<>> /\ Rest = {}
    BY EndsIsAlone DEF Ends, Finals, Types, ApprovalInv
<1> QED
    BY <1>2, <1>3

\* A new call is fresh: it is the pending action, or a thought.
LEMMA NewCallApproves ==
    ASSUME Types, LiveInv, ApprovalInv, Doing("ctrl", "llm"), used < MaxCalls, used' = used + 1,
           NEW e \in Proper, e.call = used', e.arg \in {"none", "awaiting"},
           \/ e.kind = "run" /\ pending' = e
           \/ e.kind = "think" /\ e.arg = "none" /\ pending' = pending,
           NEW ops, Fits(ops), LastFits(ops), Then("ctrl", ops),
           \/ ops = <<OpOn("emit", e)>> /\ e.arg = "none"
           \/ ops = <<Op("set", "AWAITING_USER_CONFIRMATION"), OpOn("emit", e)>>,
           UNCHANGED <<nextId, inC, inR, shown, agentState, running, executed, approved>>
    PROVE  ApprovalInv'
<1> DEFINE ask == Op("set", "AWAITING_USER_CONFIRMATION")
           emit == OpOn("emit", e)
<1>1. /\ ask.op = "set" /\ ask.arg = "AWAITING_USER_CONFIRMATION"
      /\ emit.op = "emit" /\ emit.ev = e
    BY DEF Op, OpOn
<1> HIDE DEF ask, emit
<1>2. \/ ops = <<emit>> /\ e.arg = "none"
      \/ ops = <<ask, emit>>
    BY DEF ask, emit
<1>3. /\ Range(ops) \subseteq {ask, emit} /\ ops # <<>>
      /\ \/ Head(ops) = emit /\ e.arg = "none"
         \/ Head(ops) = ask
  <2>1. /\ <<emit>> # <<>> /\ Head(<<emit>>) = emit
        /\ <<ask, emit>> # <<>> /\ Head(<<ask, emit>>) = ask
    OBVIOUS
  <2> QED
    BY <1>2, <2>1, Ranges
<1>4. Ctrl # <<>> /\ Head(Ctrl).op = "llm"
    BY DEF Doing, Ctrl
<1>5. ~Guarded /\ Rest = {}
    BY <1>4, AskedIsUnguarded
<1>6. /\ Work' \subseteq {ask, emit} /\ Ctrl' # <<>>
      /\ \/ Head(Ctrl') = emit /\ e.arg = "none"
         \/ Head(Ctrl') = ask
    BY <1>3, <1>4, <1>5, WorkGoesOn DEF Types
<1>7. ~Guarded'
  <2>1. ~AtWork'
    BY <1>1, <1>6 DEF AtWork, Deciding, Decision
  <2> QED
    BY <1>5, <2>1 DEF Guarded, Queued
<1>8. DecisionInv'
    BY <1>7, UnguardedKeeps
<1>9. CausesOld' /\ LastOnly'
    BY <1>4, LastStays DEF ApprovalInv, CausesOld, Types
<1>10. EmitsPending'
    BY <1>1, <1>6 DEF EmitsPending, Sets
<1>11. used \in Nat /\ used' \in Calls /\ used' \in 1..used' /\ used' > used
    BY ConstantsAssumption DEF Types, CtlTypes, Calls
<1>12. Fresh(used') /\ \A c : Fresh(c)' <=> Fresh(c)
  <2>1. Fresh(used')
    BY <1>11 DEF ApprovalInv, HeldIsFresh
  <2>2. \A c : Fresh(c)' <=> Fresh(c)
    BY DEF Fresh
  <2> QED
    BY <2>1, <2>2
<1>13. \A c \in Calls : c > used' => Fresh(c)'
    BY <1>11, <1>12 DEF ApprovalInv, HeldIsFresh, Calls
<1>14. HeldBack' => pending'.call \in 1..used' /\ Fresh(pending'.call)
  <2>1. CASE pending' = e
    BY <1>11, <1>12, <2>1
  <2>2. CASE pending' = pending
    <3>1. HeldBack => pending.call \in 1..used /\ Fresh(pending.call)
      BY DEF ApprovalInv, HeldIsFresh
    <3> QED
      BY <1>11, <2>2, <3>1 DEF HeldBack
  <2> QED
    BY <2>1, <2>2
<1>15. e.arg = "none" /\ HeldBack' => pending'.call # e.call
  <2>1. CASE pending' = e
    BY <2>1 DEF HeldBack
  <2>2. CASE pending' = pending
    <3>1. HeldBack => pending.call \in 1..used
      BY DEF ApprovalInv, HeldIsFresh
    <3> QED
      BY <1>11, <2>2, <3>1 DEF HeldBack
  <2> QED
    BY <2>1, <2>2
<1>16. HeldIsFresh'
    BY <1>1, <1>6, <1>11, <1>12, <1>13, <1>14, <1>15 DEF HeldIsFresh
<1>17. RunsOnce'
    BY DEF ApprovalInv, RunsOnce
<1> QED
    BY <1>8, <1>9, <1>10, <1>16, <1>17 DEF ApprovalInv

LEMMA LLMRunsApproves ==
    ASSUME IInv, LiveInv, ApprovalInv, NEW conf \in {"none", "awaiting"}, LLMRuns(conf)
    PROVE  ApprovalInv'
<1> DEFINE e == NewEvent("run", NoCause, used', conf)
           ask == Op("set", "AWAITING_USER_CONFIRMATION")
           emit == OpOn("emit", e)
           ops == When(conf = "awaiting", <<ask>>) \o <<emit>>
<1>1. /\ Types /\ Doing("ctrl", "llm") /\ used < MaxCalls /\ used' = used + 1
      /\ pending' = e /\ Then("ctrl", ops) /\ Ctrl # <<>> /\ Head(Ctrl).op = "llm"
      /\ UNCHANGED <<nextId, inC, inR, shown, agentState, running, executed, approved>>
    BY DEF IInv, LLMRuns, bus, inboxes, exec, Doing, Ctrl
<1>2. e \in Proper /\ e.kind = "run" /\ e.call = used' /\ e.arg = conf
  <2>1. used' \in Calls /\ used' \in 0..MaxCalls
    BY <1>1, ConstantsAssumption DEF Types, CtlTypes, Calls
  <2>2. NoCause \in Nat \cup {NoId} /\ conf \in Confirmation
    BY DEF NoCause, Confirmation
  <2> QED
    BY <2>1, <2>2, Constructors DEF NewEvent
<1> HIDE DEF e
<1>3. /\ ask \in GoodOps /\ ask.op = "set"
      /\ emit \in GoodOps /\ emit \in Later /\ emit.op = "emit"
  <2>1. emit \in GoodOps /\ emit.op = "emit"
    BY <1>2, Operations DEF Emitted, OpOn
  <2>2. "AWAITING_USER_CONFIRMATION" \in AgentState
    BY DEF AgentState
  <2>3. ask \in GoodOps /\ ask.op = "set"
    BY <2>2, Operations DEF Op
  <2> QED
    BY <2>1, <2>3 DEF Later
<1>4. ops = <<ask, emit>> \/ (ops = <<emit>> /\ conf = "none")
  <2>1. ops = <<ask>> \o <<emit>> \/ (ops = <<>> \o <<emit>> /\ conf = "none")
    BY DEF When
  <2> HIDE DEF ops, ask, emit
  <2> QED
    BY <1>3, <2>1, Concatenations
<1>5. Fits(ops) /\ LastFits(ops)
  <2> HIDE DEF ask, emit, ops
  <2>1. Fits(ops)
    BY <1>3, <1>4, Fitting
  <2>2. LastFits(ops)
    <3>1. /\ DOMAIN <<ask, emit>> = {1, 2} /\ <<ask, emit>>[1] = ask
          /\ <<ask, emit>>[2] = emit /\ Len(<<ask, emit>>) = 2
          /\ DOMAIN <<emit>> = {1} /\ Len(<<emit>>) = 1
      OBVIOUS
    <3> QED
      BY <1>1, <1>3, <1>4, <3>1 DEF LastFits, Ends, Finals
  <2> QED
    BY <2>1, <2>2
<1> HIDE DEF ops
<1> QED
    BY <1>1, <1>2, <1>4, <1>5, NewCallApproves

LEMMA LLMThinksApproves ==
    ASSUME IInv, LiveInv, ApprovalInv, LLMThinks
    PROVE  ApprovalInv'
<1> DEFINE e == NewEvent("think", NoCause, used', "none")
           emit == OpOn("emit", e)
<1>1. /\ Types /\ Doing("ctrl", "llm") /\ used < MaxCalls /\ used' = used + 1
      /\ Then("ctrl", <<emit>>) /\ Ctrl # <<>> /\ Head(Ctrl).op = "llm"
      /\ UNCHANGED <<nextId, inC, inR, shown, agentState, pending, running, executed,
                     approved>>
    BY DEF IInv, LLMThinks, bus, inboxes, exec, Doing, Ctrl
<1>2. e \in Proper /\ e.kind = "think" /\ e.call = used' /\ e.arg = "none"
  <2>1. used' \in 0..MaxCalls
    BY <1>1, ConstantsAssumption DEF Types, CtlTypes
  <2>2. /\ NoCause \in Nat \cup {NoId} /\ "none" \in Confirmation
        /\ "think" \in Kinds \ {"change", "run"}
    BY DEF NoCause, Confirmation, Kinds
  <2> QED
    BY <2>1, <2>2, Constructors DEF NewEvent
<1> HIDE DEF e
<1>3. Fits(<<emit>>) /\ LastFits(<<emit>>)
  <2>1. emit \in GoodOps /\ emit.op = "emit"
    BY <1>2, Operations DEF Emitted, OpOn
  <2> HIDE DEF emit
  <2>2. LastFits(<<emit>>)
    <3>1. DOMAIN <<emit>> = {1} /\ Len(<<emit>>) = 1
      OBVIOUS
    <3> QED
      BY <1>1, <3>1 DEF LastFits, Ends, Finals
  <2> QED
    BY <2>1, <2>2, Fitting
<1> QED
    BY <1>1, <1>2, <1>3, NewCallApproves

\* A call joins the runtime's inbox.
LEMMA CallJoins ==
    ASSUME BusTypes, RunsOnce, NEW f \in Sent', inR' = Append(inR, f), nextId' = nextId + 1,
           f.call \in Calls, Executable(f) => Fresh(f.call),
           f.arg = "confirmed" => f.call \in approved,
           UNCHANGED <<running, executed, approved>>
    PROVE  /\ RunsOnce'
           /\ \A c : Fresh(c) /\ (c = f.call => ~Executable(f)) => Fresh(c)'
<1>1. Sent \subseteq Sent'
    BY DEF BusTypes, Sent
<1>2. inR \in Seq(Sent')
    BY <1>1, SeqMonotonic DEF BusTypes
<1>3. Range(inR') = Range(inR) \cup {f}
    BY <1>2, RangeOfAppend
<1>4. PICK n \in Nat : n = Len(inR)
    BY <1>2
<1>5. /\ DOMAIN inR = 1..n /\ DOMAIN inR' = 1..(n + 1) /\ inR'[n + 1] = f
      /\ \A i \in 1..n : inR'[i] = inR[i]
    BY <1>2, <1>4
<1>6. \A i \in 1..n : inR[i] \in Range(inR)
    BY <1>5 DEF Range
<1>7. Executable(f) => \A i \in 1..n : Executable(inR[i]) => inR[i].call # f.call
    BY <1>6 DEF Fresh
<1>8. \A i \in DOMAIN inR' : i \in 1..n \/ i = n + 1
    BY <1>5
<1>9. \A i, j \in DOMAIN inR' :
         Executable(inR'[i]) /\ Executable(inR'[j]) /\ inR'[i].call = inR'[j].call => i = j
  <2> SUFFICES ASSUME NEW i \in DOMAIN inR', NEW j \in DOMAIN inR', Executable(inR'[i]),
                      Executable(inR'[j]), inR'[i].call = inR'[j].call
               PROVE  i = j
    OBVIOUS
  <2>1. CASE i \in 1..n /\ j \in 1..n
    BY <1>5, <2>1 DEF RunsOnce
  <2>2. CASE i = n + 1 \/ j = n + 1
    BY <1>5, <1>7, <1>8, <2>2
  <2> QED
    BY <1>8, <2>1, <2>2
<1>10. running => inR' # <<>> /\ Head(inR') = Head(inR) /\ n # 0
  <2> SUFFICES ASSUME running PROVE inR' # <<>> /\ Head(inR') = Head(inR) /\ n # 0
    OBVIOUS
  <2>1. inR # <<>>
    BY DEF RunsOnce
  <2> QED
    BY <1>2, <1>4, <2>1
<1>11. ASSUME NEW i \in DOMAIN inR', Executable(inR'[i]), ~(i = 1 /\ running)
       PROVE  executed[inR'[i].call] = 0
  <2>1. CASE i \in 1..n
    BY <1>5, <1>11, <2>1 DEF RunsOnce
  <2>2. CASE i = n + 1
    BY <1>5, <1>11, <2>2 DEF Fresh
  <2> QED
    BY <1>8, <2>1, <2>2
<1>12. RunsOnce'
    BY <1>3, <1>9, <1>10, <1>11 DEF RunsOnce
<1>13. \A c : Fresh(c) /\ (c = f.call => ~Executable(f)) => Fresh(c)'
    BY <1>3 DEF Fresh
<1> QED
    BY <1>12, <1>13

LEMMA EmitActionApproves ==
    ASSUME IInv, LiveInv, ApprovalInv, EmitAction
    PROVE  ApprovalInv'
<1>0. PICK e, f : e = Ev("ctrl") /\ f = WithId(e)
    OBVIOUS
<1>1. /\ Types /\ Ctrl # <<>> /\ Head(Ctrl).op = "emit" /\ Head(Ctrl).ev = e
      /\ PublishTo(e, inR, inM) /\ Then("ctrl", <<>>)
      /\ pending' = (IF pending = e THEN WithId(pending) ELSE pending)
      /\ UNCHANGED <<agentState, running, executed, approved, used>>
    BY <1>0 DEF IInv, EmitAction, Publish, Doing, Ctrl, Ev, exec
<1>2. e \in Proper /\ e.kind \in Emitted
    BY <1>1, HeadIsTyped DEF Types, GoodOps, Ctrl, Threads
<1>3. /\ nextId \in Nat \ {0} /\ nextId' = nextId + 1
      /\ f \in Proper /\ f.id = nextId /\ f.kind = e.kind /\ f.arg = e.arg /\ f.call = e.call
      /\ Range(inC') = Range(inC) \cup {f}
      /\ shown' = IF f.kind = "run" /\ f.arg = "awaiting" THEN f ELSE NoAction
      /\ inR' = IF f.kind \in {"run", "think"} THEN Append(inR, f) ELSE inR
    BY <1>0, <1>1, <1>2, OldIds, PublishedIsNew, WithIdIsProper DEF Types, PublishTo
<1>4. pending = e => pending' = f
    BY <1>0, <1>1
<1>5. pending # e => pending' = pending
    BY <1>1
<1>6. /\ Head(Ctrl) \in Work /\ ~Guarded /\ Ctrl' = <<>> /\ Work' = {}
  <2>1. Head(Ctrl) \in Work
    BY <1>1, RangeOfHeadAndTail DEF Types, TodoTypes, Threads, Work, Ctrl
  <2>2. ~Guarded /\ Tail(Ctrl) = <<>>
    BY <1>1, AskedIsUnguarded
  <2>3. Ctrl' = Tail(Ctrl)
    BY <1>1, CtrlGoesOn, NoneFollows DEF Types, Followed
  <2>4. Work' = {}
    BY <2>2, <2>3, Ranges DEF Work
  <2> QED
    BY <2>1, <2>2, <2>3, <2>4
<1>7. ~Queued' /\ ~AtWork' /\ ~AboutToRun' /\ ~Confirms'
  <2>1. ~Queued'
    BY <1>2, <1>3, <1>6 DEF Queued, Guarded, IsDecision, Emitted
  <2> QED
    BY <1>6, <2>1 DEF AtWork, AboutToRun, Confirms, Queued
<1>8. DecisionInv'
  <2>1. CASE shown' = NoAction
    BY <1>7, <2>1, UnguardedKeeps DEF Guarded
  <2>2. CASE shown' # NoAction
    <3>1. /\ shown' = f /\ f.kind = "run" /\ f.arg = "awaiting"
          /\ e.kind = "run" /\ e.arg = "awaiting"
      BY <1>3, <2>2
    <3>2. pending' \in {f, NoAction}
      <4>1. pending \in {e, NoAction}
        BY <1>1, <1>6, <3>1 DEF ApprovalInv, EmitsPending
      <4> QED
        BY <1>4, <1>5, <4>1
    <3>3. agentState' \notin {"RUNNING", "USER_CONFIRMED"}
      BY <1>1, <1>6, <3>1 DEF ApprovalInv, EmitsPending, LiveInv, WorkFits, Sets
    <3>4. \A i \in DOMAIN inC' : ~IsDecision(inC'[i])
      BY <1>7 DEF Queued, Range
    <3>5. NoAction.kind = "null"
      BY DEF NoAction, NewEvent
    <3>6. OneDecision' /\ RecallIsLater'
      BY <1>7, <3>4 DEF OneDecision, RecallIsLater
    <3>7. GuardedIsQuiet' /\ ShownIsPending' /\ QueuedWaitsForRecall'
      BY <1>6, <1>7, <3>1, <3>2, <3>3
      DEF GuardedIsQuiet, ShownIsPending, QueuedWaitsForRecall
    <3>8. DecidedIsPending'
      BY <1>7, <3>1, <3>2, <3>5 DEF DecidedIsPending
    <3> QED
      BY <3>6, <3>7, <3>8 DEF DecisionInv
  <2> QED
    BY <2>1, <2>2
<1>9. CausesOld'
  <2>1. \A x \in Range(inC) : x.cause \in Int
    BY <1>1 DEF Types, BusTypes, Range, Proper, Event, NoId
  <2>2. ASSUME NEW x \in Range(inC'), x.kind \in Observations PROVE x.cause < nextId'
    <3>1. x \in Range(inC)
      BY <1>2, <1>3, <2>2 DEF Emitted, Observations
    <3> QED
      BY <1>3, <2>1, <2>2, <3>1 DEF ApprovalInv, CausesOld
  <2> QED
    BY <2>2 DEF CausesOld
<1>10. LastOnly' /\ EmitsPending'
    BY <1>6 DEF LastOnly, EmitsPending
<1>11. HeldIsFresh' /\ RunsOnce'
  <2>1. CASE e.kind \notin {"run", "think"}
    <3>1. pending' = pending /\ inR' = inR
      BY <1>2, <1>3, <1>5, <2>1 DEF LiveInv, PendingIsKnown, Emitted
    <3> QED
      BY <1>1, <1>6, <3>1, IdleKeeps DEF Idle, ApprovalInv
  <2>2. CASE e.kind \in {"run", "think"}
    <3>1. /\ e.call \in 1..used /\ Fresh(e.call) /\ e.arg \in {"none", "awaiting"}
          /\ e.arg = "none" /\ HeldBack => pending.call # e.call
      BY <1>1, <1>6, <2>2 DEF ApprovalInv, HeldIsFresh
    <3>2. used \in 0..MaxCalls /\ e.call \in Calls /\ e.call <= used
      BY <1>1, <3>1, ConstantsAssumption DEF Types, CtlTypes, Calls
    <3>3. f \in Sent'
      BY <1>3 DEF Sent, Proper
    <3>4. /\ RunsOnce'
          /\ \A c : Fresh(c) /\ (c = f.call => ~Executable(f)) => Fresh(c)'
      BY <1>1, <1>3, <2>2, <3>1, <3>2, <3>3, CallJoins DEF Types, ApprovalInv
    <3>5. \A c \in Calls : c > used' => Fresh(c)'
      BY <1>1, <1>3, <3>2, <3>4 DEF ApprovalInv, HeldIsFresh, Calls
    <3>6. ASSUME HeldBack' PROVE pending'.call \in 1..used /\ Fresh(pending.call)'
      <4>1. PICK c : c = pending'.call
        OBVIOUS
      <4>2. c \in 1..used /\ Fresh(c) /\ (c = f.call => ~Executable(f))
        <5>1. CASE pending = e
          <6>1. pending' = f
            BY <1>4, <5>1
          <6>2. ~Executable(f)
            BY <3>6, <6>1 DEF HeldBack, Executable
          <6> QED
            BY <1>3, <3>1, <4>1, <6>1, <6>2
        <5>2. CASE pending # e
          <6>1. pending' = pending /\ HeldBack
            BY <1>5, <3>6, <5>2 DEF HeldBack
          <6>2. /\ pending.call \in 1..used /\ Fresh(pending.call)
                /\ pending.call = f.call => ~Executable(f)
            BY <1>3, <3>1, <6>1 DEF ApprovalInv, HeldIsFresh, Executable
          <6> QED
            BY <4>1, <6>1, <6>2
        <5> QED
          BY <5>1, <5>2
      <4>3. Fresh(c)'
        BY <3>4, <4>2
      <4> QED
        BY <4>1, <4>2, <4>3 DEF Fresh
    <3> QED
      BY <1>1, <1>6, <3>4, <3>5, <3>6 DEF HeldIsFresh
  <2> QED
    BY <2>1, <2>2
<1> QED
    BY <1>8, <1>9, <1>10, <1>11 DEF ApprovalInv

\* The decision reaches the call that was asked about.
LEMMA ReissueApproves ==
    ASSUME IInv, LiveInv, ApprovalInv, NEW t \in Threads, Reissue(t)
    PROVE  ApprovalInv'
<1> DEFINE arg == IF Arg(t) = "USER_CONFIRMED" THEN "confirmed" ELSE "rejected"
<1>0. PICK d, f : d = [pending EXCEPT !.arg = arg] /\ f = WithId(d)
    OBVIOUS
<1>1. /\ Types /\ t = "ctrl" /\ Ctrl # <<>> /\ Head(Ctrl).op = "reissue"
      /\ Head(Ctrl).arg = Arg(t) /\ Then("ctrl", <<>>)
      /\ UNCHANGED <<agentState, running, executed, approved, used>>
  <2>1. Types /\ todo[t] # <<>> /\ Head(todo[t]).op = "reissue"
    BY DEF IInv, Reissue, Doing
  <2>2. t = "ctrl"
    BY <2>1, HeadIsTyped DEF Types, SessOps, Threads
  <2> QED
    BY <2>1, <2>2 DEF Reissue, Ctrl, Arg, exec
<1>2. AtWork /\ Guarded
    BY <1>1 DEF AtWork, Guarded, Deciding
<1>3. ~Queued /\ shown = NoAction
    BY <1>2 DEF ApprovalInv, DecisionInv, OneDecision
<1>4. Work' \subseteq Work /\ ~AtWork' /\ \A o \in Work : o.op \notin {"llm", "emit"}
  <2>1. Work = {Head(Ctrl)} \cup Rest /\ Work' = Rest
    BY <1>1, HeadIsDone DEF Types
  <2>2. Ctrl' # <<>> => Head(Ctrl') \in Later
    BY <1>1, CtrlGoesOn, NoneFollows DEF Types, Followed
  <2>3. ~AtWork'
    BY <2>2 DEF AtWork, Deciding, Later
  <2> QED
    BY <1>2, <2>1, <2>3 DEF ApprovalInv, DecisionInv, GuardedIsQuiet
<1>5. CASE pending = NoAction
  <2>1. Followed(<<>>) /\ Range(<<>>) = {}
    BY NoneFollows, Ranges
  <2>2. UNCHANGED <<nextId, inC, inR, shown, pending>>
    BY <1>5 DEF Reissue, bus, inboxes
  <2> QED
    BY <1>1, <2>1, <2>2, QuietWorkKeeps
<1>6. CASE pending # NoAction
  <2>1. pending' = f /\ PublishTo(d, inR, inM)
    BY <1>0, <1>6 DEF Reissue, Publish
  <2>2. /\ d \in Proper /\ d.kind = pending.kind /\ d.call = pending.call
        /\ d.arg = arg /\ d.cause = pending.cause
    <3>1. arg \in Confirmation
      BY DEF Confirmation
    <3>2. pending \in Proper /\ pending.kind # "change"
      BY <1>1 DEF Types, CtlTypes
    <3> HIDE DEF arg
    <3> QED
      BY <1>0, <3>1, <3>2 DEF Proper, Event
  <2>3. d.kind \in {"run", "recall"}
    BY <1>6, <2>2 DEF LiveInv, PendingIsKnown
  <2>4. /\ f \in Proper /\ f.id = nextId /\ f.kind = d.kind /\ f.call = d.call
        /\ f.arg = arg /\ nextId \in Nat \ {0} /\ nextId' = nextId + 1
        /\ inR' = IF f.kind \in {"run", "think"} THEN Append(inR, f) ELSE inR
    BY <1>0, <1>1, <2>1, <2>2, OldIds, PublishedIsNew, WithIdIsProper DEF Types, PublishTo
  <2>5. arg # "awaiting"
    OBVIOUS
  <2>6. Hears
    BY <1>1, <2>1, <2>2, <2>3, <2>5, PublishIsHeard DEF Types, Observations
  <2>7. ~Guarded'
    <3>1. shown' = NoAction /\ ~Queued'
      BY <1>1, <1>3, <2>6, HeardInbox DEF Types, Queued
    <3> QED
      BY <1>4, <3>1 DEF Guarded
  <2>8. DecisionInv' /\ CausesOld'
    BY <1>1, <2>6, <2>7, UnguardedKeeps, HeardCauses DEF Types, ApprovalInv
  <2>9. LastOnly'
    BY <1>1, LastStays, NoneFollows DEF Types, ApprovalInv, Followed
  <2>10. EmitsPending'
    BY <1>4 DEF EmitsPending
  <2>11. ~HeldBack'
    BY <2>1, <2>4, <2>5 DEF HeldBack
  <2>12. CASE d.kind = "recall"
    BY <1>1, <1>4, <2>4, <2>8, <2>9, <2>10, <2>11, <2>12, IdleKeeps DEF Idle, ApprovalInv
  <2>13. CASE d.kind = "run"
    <3>1. HeldBack
      BY <1>2, <2>2, <2>13 DEF ApprovalInv, DecisionInv, DecidedIsPending, HeldBack
    <3>2. f.call \in 1..used /\ Fresh(f.call)
      BY <2>2, <2>4, <3>1 DEF ApprovalInv, HeldIsFresh
    <3>3. used \in 0..MaxCalls /\ f.call \in Calls /\ f.call <= used
      BY <1>1, <3>2, ConstantsAssumption DEF Types, CtlTypes, Calls
    <3>4. f.arg = "confirmed" => f.call \in approved
      <4>1. f.arg = "confirmed" => Head(Ctrl).arg = "USER_CONFIRMED"
        BY <1>1, <2>4
      <4>2. Head(Ctrl).arg = "USER_CONFIRMED" => Confirms
        BY <1>1 DEF Confirms, Confirming
      <4> QED
        BY <2>2, <2>4, <2>13, <4>1, <4>2 DEF ApprovalInv, DecisionInv, DecidedIsPending
    <3>5. f \in Sent'
      BY <2>4 DEF Sent, Proper
    <3>6. /\ RunsOnce'
          /\ \A c : Fresh(c) /\ (c = f.call => ~Executable(f)) => Fresh(c)'
      BY <1>1, <2>4, <2>13, <3>2, <3>3, <3>4, <3>5, CallJoins DEF Types, ApprovalInv
    <3>7. \A c \in Calls : c > used' => Fresh(c)'
      BY <1>1, <3>3, <3>6 DEF ApprovalInv, HeldIsFresh, Calls
    <3>8. HeldIsFresh'
      BY <1>4, <2>11, <3>7 DEF HeldIsFresh
    <3> QED
      BY <2>8, <2>9, <2>10, <3>6, <3>8 DEF ApprovalInv
  <2> QED
    BY <2>3, <2>12, <2>13
<1> QED
    BY <1>5, <1>6

-----------------------------------------------------------------------------
(* The runtime, the memory, the session's loop and the user.               *)

\* The runtime is done with the head of its inbox.
LEMMA RuntimeDrops ==
    ASSUME Types, ApprovalInv, inR # <<>>, inR' = Tail(inR), ~running',
           running \/ ~Executable(Head(inR)), Ctrl' = Ctrl,
           UNCHANGED <<executed, approved, used, pending>>
    PROVE  HeldIsFresh' /\ RunsOnce'
<1>1. /\ \A i \in DOMAIN inR' : i \in Nat \ {0} /\ i + 1 \in DOMAIN inR /\ inR'[i] = inR[i + 1]
      /\ Range(inR') \subseteq Range(inR)
  <2>1. inR \in Seq(Sent)
    BY DEF Types, BusTypes
  <2>2. \A i \in DOMAIN inR' : i \in Nat \ {0} /\ i + 1 \in DOMAIN inR /\ inR'[i] = inR[i + 1]
    BY <2>1
  <2>3. Range(inR') \subseteq Range(inR)
    BY <2>1, RangeOfHeadAndTail
  <2> QED
    BY <2>2, <2>3
<1>2. \A c : Fresh(c) => Fresh(c)'
    BY <1>1 DEF Fresh
<1>3. HeldIsFresh'
  <2>1. \A c \in Calls : c > used' => Fresh(c)'
    BY <1>2 DEF ApprovalInv, HeldIsFresh
  <2>2. HeldBack' => pending.call \in 1..used' /\ Fresh(pending.call)
    BY DEF ApprovalInv, HeldIsFresh, HeldBack
  <2>3. HeldBack' => (pending.call \in 1..used /\ Fresh(pending.call))'
    BY <1>1, <2>2 DEF Fresh
  <2>4. Work' = Work /\ HeldBack' = HeldBack
    BY DEF Work, HeldBack
  <2> QED
    BY <1>2, <2>1, <2>3, <2>4 DEF ApprovalInv, HeldIsFresh
<1>4. \A i, j \in DOMAIN inR' :
         Executable(inR'[i]) /\ Executable(inR'[j]) /\ inR'[i].call = inR'[j].call => i = j
  <2> SUFFICES ASSUME NEW i \in DOMAIN inR', NEW j \in DOMAIN inR', Executable(inR'[i]),
                      Executable(inR'[j]), inR'[i].call = inR'[j].call
               PROVE  i = j
    OBVIOUS
  <2>1. i + 1 = j + 1
    BY <1>1 DEF ApprovalInv, RunsOnce
  <2> QED
    BY <1>1, <2>1
<1>5. \A i \in DOMAIN inR' : Executable(inR'[i]) => executed[inR'[i].call] = 0
  <2> SUFFICES ASSUME NEW i \in DOMAIN inR', Executable(inR'[i])
               PROVE  executed[inR'[i].call] = 0
    OBVIOUS
  <2>1. i + 1 # 1
    BY <1>1
  <2> QED
    BY <1>1, <2>1 DEF ApprovalInv, RunsOnce
<1>6. RunsOnce'
    BY <1>1, <1>4, <1>5 DEF ApprovalInv, RunsOnce
<1> QED
    BY <1>3, <1>6

\* What the runtime executes was not held back and not executed before.
LEMMA RuntimeExecutes ==
    ASSUME Types, ApprovalInv, RuntimeBegins
    PROVE  \E c \in Calls : /\ c = Head(inR).call /\ executed[c] = 0
                            /\ executed' = [executed EXCEPT ![c] = 1]
                            /\ Head(inR).arg = "none" \/ c \in approved
<1>1. inR \in Seq(Sent) /\ inR # <<>> /\ ~running /\ Executable(Head(inR))
    BY DEF Types, BusTypes, RuntimeBegins
<1>2. 1 \in DOMAIN inR /\ Head(inR) = inR[1]
    BY <1>1
<1>3. Head(inR) \in Range(inR)
    BY <1>2 DEF Range
<1>4. Head(inR).call \in Calls /\ executed[Head(inR).call] = 0
    BY <1>1, <1>2, <1>3 DEF ApprovalInv, RunsOnce
<1>5. Head(inR).arg = "none" \/ Head(inR).call \in approved
    BY <1>1, <1>3 DEF ApprovalInv, RunsOnce, Executable
<1>6. executed' = [executed EXCEPT ![Head(inR).call] = 1]
    BY <1>4 DEF RuntimeBegins
<1> QED
    BY <1>4, <1>5, <1>6

LEMMA RuntimeApproves ==
    ASSUME IInv, LiveInv, ApprovalInv, Runtime
    PROVE  ApprovalInv'
<1>1. Types /\ Ctrl' = Ctrl /\ UNCHANGED <<agentState, pending, used, approved>>
    BY DEF IInv, Runtime, RuntimeSkips, RuntimeBegins, RuntimeAnswers, RuntimeFails,
           ctlVars, Ctrl, exec, bus, inboxes
<1>2. CASE RuntimeSkips \/ RuntimeFails
  <2>1. /\ Hears /\ inR # <<>> /\ inR' = Tail(inR) /\ executed' = executed
        /\ ~running' /\ (running \/ ~Executable(Head(inR)))
    <3>1. CASE RuntimeSkips
      <4>1. ~Executable(Head(inR)) /\ running' = running
        BY <3>1 DEF RuntimeSkips, Executable, exec
      <4>2. ~running
        BY <4>1 DEF ApprovalInv, RunsOnce
      <4> QED
        BY <3>1, <4>1, <4>2 DEF RuntimeSkips, Hears, exec
    <3>2. CASE RuntimeFails
      BY <3>2 DEF RuntimeFails, Hears
    <3> QED
      BY <1>2, <3>1, <3>2
  <2> QED
    BY <1>1, <2>1, RuntimeDrops, OthersDecide DEF ApprovalInv
<1>3. CASE RuntimeAnswers
  <2> DEFINE a == Head(inR)
             e == NewEvent("obs", a.id, a.call, "none")
  <2>1. a \in Sent
    BY <1>1, <1>3 DEF RuntimeAnswers, Types, BusTypes
  <2>2. e \in Proper /\ e.kind = "obs" /\ e.cause = a.id
    <3>1. a.id \in Nat \cup {NoId} /\ a.call \in 0..MaxCalls
      BY <2>1 DEF Sent, Event
    <3>2. "obs" \in Kinds /\ "none" \in Confirmation
      BY DEF Kinds, Confirmation
    <3>3. e \in Proper
      BY <3>1, <3>2, Constructors
    <3> QED
      BY <3>3 DEF NewEvent
  <2>3. PublishTo(e, Tail(inR), inM)
    BY <1>3 DEF RuntimeAnswers
  <2>4. a.id < nextId
    BY <1>1, <2>1 DEF Types, BusTypes, Sent
  <2> HIDE DEF e
  <2>5. Hears
    BY <1>1, <2>2, <2>3, <2>4, PublishIsHeard DEF Types
  <2>6. inR' = Tail(inR)
    <3>1. WithId(e).kind = "obs"
      BY <1>1, <2>2, WithIdIsProper DEF Types, BusTypes
    <3> QED
      BY <2>3, <3>1 DEF PublishTo
  <2>7. /\ inR # <<>> /\ ~running' /\ executed' = executed
        /\ running \/ ~Executable(Head(inR))
    BY <1>3 DEF RuntimeAnswers, Executable
  <2> QED
    BY <1>1, <2>5, <2>6, <2>7, RuntimeDrops, OthersDecide DEF ApprovalInv
<1>4. CASE RuntimeBegins
  <2>1. /\ Hears /\ inR' = inR /\ inR # <<>> /\ ~running /\ running' /\ Executable(Head(inR))
    BY <1>4 DEF RuntimeBegins, bus, inboxes, Hears
  <2>2. DecisionInv' /\ CausesOld' /\ LastOnly' /\ EmitsPending'
    BY <1>1, <2>1, OthersDecide
  <2>3. PICK c \in Calls : /\ c = Head(inR).call /\ executed[c] = 0
                           /\ executed' = [executed EXCEPT ![c] = 1]
    BY <1>1, <1>4, RuntimeExecutes
  <2>4. 1 \in DOMAIN inR /\ Head(inR) = inR[1] /\ Head(inR) \in Range(inR)
    <3>1. 1 \in DOMAIN inR /\ Head(inR) = inR[1]
      BY <1>1, <2>1 DEF Types, BusTypes
    <3> QED
      BY <3>1 DEF Range
  <2>5. \A k \in Calls : k # c => executed'[k] = executed[k]
    BY <1>1, <2>3 DEF Types, EnvTypes
  <2>6. ~Fresh(c)
    BY <2>1, <2>3, <2>4 DEF Fresh
  <2>7. \A k \in Calls : Fresh(k) => Fresh(k)'
    BY <2>1, <2>5, <2>6 DEF Fresh
  <2>8. 1..used \subseteq Calls
    BY <1>1, ConstantsAssumption DEF Types, CtlTypes, Calls
  <2>9. Work' = Work /\ HeldBack' = HeldBack
    BY <1>1 DEF Work, HeldBack
  <2>10. HeldBack => (pending.call \in 1..used /\ Fresh(pending.call))'
    <3> SUFFICES ASSUME HeldBack PROVE (pending.call \in 1..used /\ Fresh(pending.call))'
      OBVIOUS
    <3>1. PICK k : k = pending.call
      OBVIOUS
    <3>2. k \in 1..used /\ Fresh(k)
      BY <3>1 DEF ApprovalInv, HeldIsFresh
    <3>3. Fresh(k)'
      BY <2>7, <2>8, <3>2
    <3> QED
      BY <1>1, <3>1, <3>2, <3>3 DEF Fresh
  <2>11. HeldIsFresh'
    BY <1>1, <2>7, <2>8, <2>9, <2>10 DEF ApprovalInv, HeldIsFresh, HeldBack
  <2>12. RunsOnce'
    <3>1. ASSUME NEW i \in DOMAIN inR, Executable(inR[i]), i # 1
          PROVE  executed'[inR[i].call] = 0
      <4>1. inR[i].call # c
        BY <2>1, <2>3, <2>4, <3>1 DEF ApprovalInv, RunsOnce
      <4>2. executed[inR[i].call] = 0 /\ inR[i].call \in Calls
        BY <3>1 DEF ApprovalInv, RunsOnce, Range
      <4> QED
        BY <2>5, <4>1, <4>2
    <3> QED
      BY <1>1, <2>1, <3>1 DEF ApprovalInv, RunsOnce
  <2> QED
    BY <2>2, <2>11, <2>12 DEF ApprovalInv
<1> QED
    BY <1>2, <1>3, <1>4 DEF Runtime

LEMMA MemoryApproves ==
    ASSUME IInv, LiveInv, ApprovalInv, Memory
    PROVE  ApprovalInv'
<1>1. Types /\ Ctrl' = Ctrl
      /\ UNCHANGED <<agentState, pending, running, executed, approved, used>>
    BY DEF IInv, Memory, MemoryFails, MemoryWakes, MemoryAnswers, ctlVars, Ctrl, exec
<1>2. inR' = inR /\ Hears
  <2>1. CASE MemoryFails \/ MemoryWakes
    BY <2>1 DEF MemoryFails, MemoryWakes, inboxes, Hears
  <2>2. CASE \E kind \in {"robs", "null"} : MemoryAnswers(kind)
    <3>1. PICK kind \in {"robs", "null"} : MemoryAnswers(kind)
      BY <2>2
    <3> DEFINE e == NewEvent(kind, Head(inM).id, NoCall, "none")
    <3>2. PublishTo(e, inR, Tail(inM)) /\ Head(inM) \in Sent
      BY <1>1, <3>1 DEF MemoryAnswers, Types, BusTypes
    <3>3. e \in Proper /\ e.kind = kind /\ e.cause = Head(inM).id
      <4>1. /\ Head(inM).id \in Nat \cup {NoId} /\ NoCall \in 0..MaxCalls
            /\ kind \in Kinds \ {"change", "run"} /\ "none" \in Confirmation
        BY <3>2, ConstantsAssumption DEF Sent, Event, NoCall, Kinds, Confirmation
      <4>2. e \in Proper
        BY <4>1, Constructors
      <4> QED
        BY <4>2 DEF NewEvent
    <3>4. Head(inM).id < nextId
      BY <1>1, <3>2 DEF Types, BusTypes, Sent
    <3> HIDE DEF e
    <3>5. Hears
      BY <1>1, <3>2, <3>3, <3>4, PublishIsHeard DEF Types
    <3>6. inR' = inR
      <4>1. WithId(e).kind = kind
        BY <1>1, <3>3, WithIdIsProper DEF Types, BusTypes
      <4> QED
        BY <3>2, <4>1 DEF PublishTo
    <3> QED
      BY <3>5, <3>6
  <2> QED
    BY <2>1, <2>2 DEF Memory
<1> QED
    BY <1>1, <1>2, OthersKeep

LEMMA StatusErrorApproves ==
    ASSUME IInv, LiveInv, ApprovalInv, StatusError
    PROVE  ApprovalInv'
<1>1. Types /\ UNCHANGED <<nextId, inC, inR, shown, agentState, pending, running, executed,
                           approved, used>>
    BY DEF IInv, StatusError, bus, inboxes, exec
<1>2. Ctrl' = Ctrl
    BY <1>1 DEF StatusError, Types, TodoTypes, Threads, Ctrl
<1> QED
    BY <1>1, <1>2, OthersKeep DEF Hears

\* A decision is made: the buttons vanish, and the call they were shown for is
\* still the pending one, or none is.
LEMMA UserDecidesApproves ==
    ASSUME IInv, LiveInv, ApprovalInv, NEW d \in Decision, UserDecides(d)
    PROVE  ApprovalInv'
<1>0. PICK e, f : e = NewEvent("change", NoCause, NoCall, d) /\ f = WithId(e)
    OBVIOUS
<1>1. /\ Types /\ Ctrl' = Ctrl /\ shown # NoAction /\ PublishTo(e, inR, inM)
      /\ UNCHANGED <<agentState, pending, used, running, executed>>
      /\ approved' = IF d = "USER_CONFIRMED" THEN approved \cup {shown.call} ELSE approved
    BY <1>0 DEF IInv, UserDecides, Publish, ctlVars, Ctrl
<1>2. e \in Proper /\ e.kind = "change" /\ e.arg = d
  <2>1. NoCause \in Nat \cup {NoId} /\ NoCall \in 0..MaxCalls /\ d \in Asked
    BY ConstantsAssumption DEF NoCause, NoCall, Asked
  <2>2. e \in Proper
    BY <1>0, <2>1, Constructors
  <2> QED
    BY <1>0, <2>2 DEF NewEvent
<1>3. /\ f \in Proper /\ f.kind = "change" /\ f.arg = d
      /\ nextId' = nextId + 1 /\ inC' = Append(inC, f) /\ inR' = inR /\ shown' = NoAction
  <2>1. f \in Proper /\ f.kind = "change" /\ f.arg = d
    BY <1>0, <1>1, <1>2, WithIdIsProper DEF Types, BusTypes, WithId
  <2> QED
    BY <1>0, <1>1, <2>1 DEF PublishTo
<1>4. /\ ~Queued /\ ~AtWork /\ Guarded
      /\ shown.kind = "run" /\ shown.arg = "awaiting" /\ pending \in {NoAction, shown}
      /\ agentState \notin {"RUNNING", "USER_CONFIRMED"} /\ ~AboutToRun
    BY <1>1 DEF ApprovalInv, DecisionInv, OneDecision, ShownIsPending, Guarded
<1>5. /\ Work' = Work /\ ~AtWork' /\ ~AboutToRun'
      /\ Range(inC') = Range(inC) \cup {f}
  <2>1. Range(inC') = Range(inC) \cup {f}
    BY <1>1, <1>3, RangeOfAppend DEF Types, BusTypes
  <2> QED
    BY <1>1, <1>4, <2>1 DEF Work, AtWork, AboutToRun
<1>6. NoAction.kind = "null"
    BY DEF NoAction, NewEvent
<1>7. OneDecision'
  <2>1. PICK n \in Nat : n = Len(inC)
    BY <1>1 DEF Types, BusTypes
  <2>2. DOMAIN inC' = 1..(n + 1) /\ \A i \in 1..n : i \in DOMAIN inC /\ inC'[i] = inC[i]
    BY <1>1, <1>3, <2>1 DEF Types, BusTypes
  <2>3. \A i \in 1..n : ~IsDecision(inC'[i])
    BY <1>4, <2>2 DEF Queued, Range
  <2>4. \A i \in DOMAIN inC' : IsDecision(inC'[i]) => i = n + 1
    BY <2>2, <2>3
  <2> QED
    BY <1>3, <1>5, <2>4 DEF OneDecision
<1>8. GuardedIsQuiet' /\ ShownIsPending'
    BY <1>3, <1>4, <1>5 DEF GuardedIsQuiet, ShownIsPending, ApprovalInv, DecisionInv
<1>9. QueuedWaitsForRecall' /\ RecallIsLater'
    BY <1>1, <1>4, <1>5, <1>6 DEF QueuedWaitsForRecall, RecallIsLater
<1>10. DecidedIsPending'
  <2> SUFFICES ASSUME pending'.kind = "run"
               PROVE  /\ pending'.arg = "awaiting"
                      /\ Confirms' => pending'.call \in approved'
    BY DEF DecidedIsPending
  <2>1. pending' = shown
    BY <1>1, <1>4, <1>6
  <2>2. Confirms' => d = "USER_CONFIRMED"
    <3>1. \A o : Confirming(o) => Deciding(o)
      BY DEF Confirming, Deciding, Decision
    <3>2. Ctrl # <<>> => ~Confirming(Head(Ctrl))
      BY <1>4, <3>1 DEF AtWork
    <3> QED
      BY <1>1, <1>3, <1>4, <1>5, <3>2 DEF Confirms, Queued
  <2> QED
    BY <1>1, <1>4, <2>1, <2>2
<1>11. CausesOld'
  <2>1. \A x \in Range(inC) : x.cause \in Int
    BY <1>1 DEF Types, BusTypes, Range, Proper, Event, NoId
  <2>2. nextId \in Nat
    BY <1>1 DEF Types, BusTypes
  <2>3. ASSUME NEW x \in Range(inC'), x.kind \in Observations PROVE x.cause < nextId'
    <3>1. x \in Range(inC)
      BY <1>3, <1>5, <2>3 DEF Observations
    <3> QED
      BY <1>3, <2>1, <2>2, <2>3, <3>1 DEF ApprovalInv, CausesOld
  <2> QED
    BY <2>3 DEF CausesOld
<1>12. LastOnly' /\ EmitsPending'
    BY <1>1, <1>5 DEF ApprovalInv, LastOnly, EmitsPending
<1>13. HeldIsFresh' /\ RunsOnce'
    BY <1>1, <1>3, <1>5, IdleKeeps DEF Idle, ApprovalInv
<1> QED
    BY <1>7, <1>8, <1>9, <1>10, <1>11, <1>12, <1>13 DEF ApprovalInv, DecisionInv

LEMMA UserApproves ==
    ASSUME IInv, LiveInv, ApprovalInv, User
    PROVE  ApprovalInv'
<1>1. CASE UserWrites \/ UserStops
  <2>1. PICK kind \in {"msg", "change"}, arg \in {"none", "STOPPED"} :
           /\ Publish(NewEvent(kind, NoCause, NoCall, arg))
           /\ IF kind = "msg" THEN arg = "none" ELSE arg = "STOPPED"
    BY <1>1 DEF UserWrites, UserStops
  <2> DEFINE e == NewEvent(kind, NoCause, NoCall, arg)
  <2>2. /\ Types /\ Ctrl' = Ctrl /\ PublishTo(e, inR, inM)
        /\ UNCHANGED <<agentState, pending, used, running, executed, approved>>
    BY <1>1, <2>1 DEF IInv, UserWrites, UserStops, Publish, ctlVars, Ctrl, exec
  <2>3. e \in Proper /\ e.kind = kind /\ e.arg = arg
    <3>1. /\ NoCause \in Nat \cup {NoId} /\ NoCall \in 0..MaxCalls /\ "STOPPED" \in Asked
          /\ "msg" \in Kinds \ {"change", "run"} /\ "none" \in Confirmation
      BY ConstantsAssumption DEF NoCause, NoCall, Asked, Kinds, Confirmation
    <3>2. e \in Proper
      BY <2>1, <3>1, Constructors
    <3> QED
      BY <3>2 DEF NewEvent
  <2> HIDE DEF e
  <2>4. Hears
    BY <2>1, <2>2, <2>3, PublishIsHeard DEF Types, Observations, Decision
  <2>5. inR' = inR
    <3>1. WithId(e).kind = kind
      BY <2>2, <2>3, WithIdIsProper DEF Types, BusTypes
    <3> QED
      BY <2>2, <3>1 DEF PublishTo
  <2> QED
    BY <2>2, <2>4, <2>5, OthersKeep
<1> QED
    BY <1>1, UserDecidesApproves DEF User

-----------------------------------------------------------------------------
LEMMA InitApproves == Init => ApprovalInv
<1> SUFFICES ASSUME Init PROVE ApprovalInv
    OBVIOUS
<1>1. /\ Ctrl = <<>> /\ Work = {} /\ shown = NoAction /\ pending.kind = "null"
      /\ DOMAIN inC = {} /\ DOMAIN inR = {} /\ Range(inC) = {} /\ Range(inR) = {}
      /\ agentState # "USER_CONFIRMED" /\ ~running /\ executed = [c \in Calls |-> 0]
    BY Ranges DEF Init, Threads, Ctrl, Work, NoAction, NewEvent
<1>2. ~Queued /\ ~AtWork /\ ~Guarded /\ ~Confirms /\ ~HeldBack
    BY <1>1 DEF Queued, AtWork, Guarded, Confirms, HeldBack
<1>3. DecisionInv
    BY <1>1, <1>2
    DEF DecisionInv, OneDecision, GuardedIsQuiet, ShownIsPending, QueuedWaitsForRecall,
        RecallIsLater, DecidedIsPending
<1>4. CausesOld /\ LastOnly /\ EmitsPending
    BY <1>1 DEF CausesOld, LastOnly, EmitsPending
<1>5. HeldIsFresh /\ RunsOnce
    BY <1>1, <1>2 DEF HeldIsFresh, RunsOnce, Fresh
<1> QED
    BY <1>3, <1>4, <1>5 DEF ApprovalInv

\* Until an error status clears the recall of a message.
LEMMA NextApproves ==
    IInv /\ LiveInv /\ (dropped \/ ApprovalInv) /\ [Next]_vars => (dropped \/ ApprovalInv)'
<1> SUFFICES ASSUME IInv, LiveInv, dropped \/ ApprovalInv, [Next]_vars, ~dropped'
             PROVE  ApprovalInv'
    OBVIOUS
<1>1. ~dropped /\ ApprovalInv
  <2>1. dropped => dropped'
    BY DEF Next, Controller, SessionLoop, Runtime, Memory, User, Step, SetAgentStateTo,
           OnEvent, HandleUserMessage, HandleAction, HandleObservation, EnsureRunning,
           StepUnlessWaiting, StepBegin, StepStuck, LLMRuns, LLMThinks, LLMTalks,
           LLMUnusable, LLMRetries, LLMRateLimited, LLMFails, EmitAction,
           ReactToException, SetState, ClearPending, Reissue, Announce, PublishState,
           PickleState, WriteState, RuntimeSkips, RuntimeBegins, RuntimeAnswers,
           RuntimeFails, MemoryAnswers, MemoryFails, MemoryWakes, StatusError,
           UserWrites, UserStops, UserDecides, hist, vars
  <2> QED
    BY <2>1
<1>2. ASSUME NEW t \in Threads, SetAgentStateTo(t) PROVE ApprovalInv'
    BY <1>1, <1>2, SetStateApproves, ClearPendingApproves, ReissueApproves, AnnounceApproves
    DEF SetAgentStateTo
<1>3. CASE Controller
  <2>1. CASE Step
    <3>1. CASE \E conf \in {"none", "awaiting"} : LLMRuns(conf)
      BY <1>1, <3>1, LLMRunsApproves
    <3>2. CASE \E kind \in {"err", "condense"} : LLMUnusable(kind)
      BY <1>1, <3>2, LLMUnusableApproves
    <3> QED
      BY <1>1, <2>1, <3>1, <3>2, StepBeginApproves, LLMApproves, LLMThinksApproves,
         EmitActionApproves DEF Step
  <2>2. CASE SetAgentStateTo("ctrl")
    BY <1>2, <2>2 DEF Threads
  <2> QED
    BY <1>1, <1>3, <2>1, <2>2, OnEventApproves, HandleUserMessageApproves,
       HandleActionApproves, HandleObservationApproves, EnsureRunningApproves,
       StepUnlessWaitingApproves DEF Controller
<1>4. CASE SessionLoop
  <2>1. CASE SetAgentStateTo("sess")
    BY <1>2, <2>1 DEF Threads
  <2> QED
    BY <1>1, <1>4, <2>1, StatusErrorApproves DEF SessionLoop
<1>5. CASE UNCHANGED vars
  <2>1. /\ Types /\ Ctrl' = Ctrl
        /\ UNCHANGED <<nextId, inC, inR, shown, agentState, pending, running, executed,
                       approved, used>>
    BY <1>5 DEF IInv, vars, bus, inboxes, exec, Ctrl
  <2> QED
    BY <1>1, <2>1, OthersKeep DEF Hears
<1> QED
    BY <1>1, <1>3, <1>4, <1>5, RuntimeApproves, MemoryApproves, UserApproves DEF Next

\* A call that asked for a confirmation is executed only if the user pressed the
\* button of that very call, and no call is executed twice
\* (agent_controller.py:692-702, 958-974), until an error status clears the recall
\* of a message.
THEOREM ApprovalHolds == Spec => ExecutedAsApproved
<1>1. ASSUME IInv, LiveInv, dropped \/ ApprovalInv, [Next]_vars
      PROVE  [\A c \in Calls : executed'[c] # executed[c] =>
                \/ dropped
                \/ /\ executed[c] = 0
                   /\ Head(inR).arg = "none" \/ c \in approved]_vars
  <2>1. CASE RuntimeBegins
    <3>1. CASE dropped
      BY <3>1
    <3>2. CASE ApprovalInv
      <4>1. PICK c \in Calls : /\ executed[c] = 0
                               /\ executed' = [executed EXCEPT ![c] = 1]
                               /\ Head(inR).arg = "none" \/ c \in approved
        BY <1>1, <2>1, <3>2, RuntimeExecutes DEF IInv
      <4>2. \A k \in Calls : k # c => executed'[k] = executed[k]
        BY <1>1, <4>1 DEF IInv, Types, EnvTypes
      <4> QED
        BY <4>1, <4>2
    <3> QED
      BY <1>1, <3>1, <3>2
  <2>2. CASE ~RuntimeBegins
    <3>1. executed' = executed
      BY <1>1, <2>2
      DEF Next, Controller, SessionLoop, Runtime, Memory, User, Step, SetAgentStateTo,
          OnEvent, HandleUserMessage, HandleAction, HandleObservation, EnsureRunning,
          StepUnlessWaiting, StepBegin, StepStuck, LLMRuns, LLMThinks, LLMTalks,
          LLMUnusable, LLMRetries, LLMRateLimited, LLMFails, EmitAction,
          ReactToException, SetState, ClearPending, Reissue, Announce, PublishState,
          PickleState, WriteState, RuntimeSkips, RuntimeAnswers,
          RuntimeFails, MemoryAnswers, MemoryFails, MemoryWakes, StatusError,
          UserWrites, UserStops, UserDecides, exec, vars
    <3> QED
      BY <3>1
  <2> QED
    BY <2>1, <2>2
<1>2. IInv /\ LiveInv /\ (dropped \/ ApprovalInv) /\ [Next]_vars =>
      [\A c \in Calls : executed'[c] # executed[c] =>
         \/ dropped
         \/ /\ executed[c] = 0
            /\ Head(inR).arg = "none" \/ c \in approved]_vars
    BY <1>1
<1> QED
    BY <1>2, InitIInv, NextKeeps, InitLive, NextLives, InitApproves, NextApproves, PTL
    DEF Spec, ExecutedAsApproved
=============================================================================
