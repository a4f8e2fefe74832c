-------------------------- MODULE ControlFlagsProofs --------------------------
(***************************************************************************)
(* Proofs about ControlFlags, for every limit, budget and bound.           *)
(***************************************************************************)
EXTENDS ControlFlags, TLAPS

\* The limit was hit only if the iterations have reached the limit in force,
\* which is why an extension by increase_limit is never early.
HitIsReached == iterHit => iter >= maxIter

IInv == TypeOK /\ CallsWithinLimit /\ ExtensionsAreEarned /\ HitIsReached

\* A state no action has touched: what the invariant speaks of is the same.
LEMMA Stuttering ==
    ASSUME IInv, UNCHANGED vars PROVE IInv'
BY DEF IInv, TypeOK, CallsWithinLimit, ExtensionsAreEarned, HitIsReached,
       vars, flags, saves, bounds

\* The actions that touch neither the flags nor the number of calls.
LEMMA OtherSteps ==
    ASSUME IInv, TypeOK', UNCHANGED <<headless, iter, maxIter, iterHit, calls>>
    PROVE  IInv'
BY DEF IInv, CallsWithinLimit, ExtensionsAreEarned, HitIsReached

\* What a step of the agent does to the flags (_step, control_flags.py:59-66).
LEMMA StepCounts ==
    ASSUME IInv, NEW a \in Agents, Step(a), TypeOK'
    PROVE  IInv'
<1> USE ConstantsAssumption DEF IInv, TypeOK, CallsWithinLimit,
        ExtensionsAreEarned, HitIsReached, ReachedIterations
<1>1. CASE iter >= maxIter
  BY <1>1 DEF Step, Stop
<1>2. CASE ~(iter >= maxIter)
  <2>1. /\ headless' = headless /\ maxIter' = maxIter
        /\ iter' = iter + 1 /\ iterHit' = FALSE
    BY <1>2 DEF Step
  <2>2. calls' = calls \/ calls' = calls + 1
    BY <1>2 DEF Step, Stop
  <2> QED BY <1>2, <2>1, <2>2
<1> QED BY <1>1, <1>2

\* What the user's message does to the flags (control_flags.py:51-55).
LEMMA ResumeExtends ==
    ASSUME IInv, NEW a \in Agents, Resume(a), TypeOK'
    PROVE  IInv'
<1> USE ConstantsAssumption DEF IInv, TypeOK, CallsWithinLimit,
        ExtensionsAreEarned, HitIsReached, MayExtend
<1>1. headless' = headless /\ iter' = iter /\ calls' = calls
  BY DEF Resume
<1>2. CASE state[a] = "ERROR" /\ ~headless /\ iterHit
  <2>1. maxIter' = maxIter + Iterations /\ iterHit' = FALSE
    BY <1>2 DEF Resume
  <2> QED BY <1>1, <1>2, <2>1
<1>3. CASE ~(state[a] = "ERROR" /\ ~headless /\ iterHit)
  <2>1. maxIter' = maxIter /\ iterHit' = iterHit
    BY <1>3 DEF Resume
  <2> QED BY <1>1, <2>1
<1> QED BY <1>2, <1>3

\* A save that begins leaves its variables well typed.
LEMMA BeginSaveType ==
    ASSUME TypeOK, NEW t \in Threads, NEW a \in Agents, BeginSave(t, a)
    PROVE  /\ stats' \in [Agents -> BOOLEAN]
           /\ saving' \in [Threads -> Agents \cup {"none"}]
           /\ held' \in [Threads -> BOOLEAN]
           /\ t # "ctrl" => saving'["ctrl"] = saving["ctrl"]
BY DEF TypeOK, BeginSave, Threads

\* Every step keeps the types.
LEMMA StepKeepsType ==
    ASSUME TypeOK, Next PROVE TypeOK'
<1> USE ConstantsAssumption
<1>1. ASSUME NEW t \in Threads, EndSave(t) PROVE TypeOK'
  BY <1>1 DEF EndSave, TypeOK, flags, bounds
<1>2. ASSUME NEW t \in Threads, FailSave(t) PROVE TypeOK'
  BY <1>2 DEF FailSave, TypeOK, flags
<1>3. ASSUME NEW a \in Agents, Step(a) PROVE TypeOK'
  <2>1. cost' \in Nat /\ iterHit' \in BOOLEAN /\ budgetHit' \in BOOLEAN
    <3>1. cost' \in Nat
      BY <1>3 DEF Step, TypeOK, SyncedCost
    <3>2. iterHit' \in BOOLEAN
      BY <1>3 DEF Step, TypeOK, ReachedIterations
    <3>3. budgetHit' \in BOOLEAN
      BY <1>3, <3>1 DEF Step, TypeOK, ReachedBudget
    <3> QED BY <3>1, <3>2, <3>3
  <2>2. iter' \in Nat /\ maxIter' \in Nat /\ maxBudget' \in Nat
    BY <1>3 DEF Step, TypeOK
  <2>3. CASE \E why \in {"iteration", "budget"} : Stop(a, why)
    <3>1. PICK why \in {"iteration", "budget"} : Stop(a, why)
      BY <2>3
    <3>2. /\ state' \in [Agents -> States] /\ state'["root"] # "none"
          /\ error' \in [Agents -> Errors]
      BY <3>1 DEF Stop, TypeOK, States, Errors, Agents
    <3>3. asking' = "none" /\ calls' = calls
      BY <1>3, <3>1 DEF Step, Stop, Idle
    <3>4. /\ stats' \in [Agents -> BOOLEAN]
          /\ saving' \in [Threads -> Agents \cup {"none"}]
          /\ held' \in [Threads -> BOOLEAN]
      BY <3>1, BeginSaveType DEF Stop, Threads
    <3> QED BY <1>3, <2>1, <2>2, <3>2, <3>3, <3>4 DEF Step, TypeOK
  <2>4. CASE asking' = a /\ calls' = calls + 1 /\ UNCHANGED <<state, error, saves>>
    BY <1>3, <2>1, <2>2, <2>4 DEF Step, TypeOK, saves, Idle, Active, Delegate
  <2> QED BY <1>3, <2>3, <2>4 DEF Step
<1>4. ASSUME NEW a \in Agents, Resume(a) PROVE TypeOK'
  <2>1. /\ maxIter' \in Nat /\ iterHit' \in BOOLEAN
        /\ maxBudget' \in Nat /\ budgetHit' \in BOOLEAN
    BY <1>4 DEF Resume, TypeOK
  <2>2. /\ state' \in [Agents -> States] /\ state'["root"] # "none"
        /\ state'["child"] = "none" => state["child"] = "none"
    BY <1>4 DEF Resume, TypeOK, States, Agents
  <2>3. /\ stats' \in [Agents -> BOOLEAN]
        /\ saving' \in [Threads -> Agents \cup {"none"}]
        /\ held' \in [Threads -> BOOLEAN]
    BY <1>4, BeginSaveType DEF Resume, TypeOK, saves, Threads
  <2>4. asking' = "none"
    BY <1>4 DEF Resume, Idle
  <2> QED BY <1>4, <2>1, <2>2, <2>3, <2>4 DEF Resume, TypeOK
<1>5. CASE GoesOn
  BY <1>5 DEF GoesOn, Answers, TypeOK, flags, saves
<1>6. CASE Ends
  <2>1. PICK s \in {"AWAITING_USER_INPUT", "FINISHED"} :
                state' = [state EXCEPT ![asking] = s]
    BY <1>6 DEF Ends
  <2>2. state' \in [Agents -> States] /\ state'["root"] # "none"
    BY <1>6, <2>1 DEF Ends, Answers, TypeOK, States, Agents
  <2>3. asking \in Agents
    BY <1>6 DEF Ends, Answers, TypeOK
  <2>4. /\ stats' \in [Agents -> BOOLEAN]
        /\ saving' \in [Threads -> Agents \cup {"none"}]
        /\ held' \in [Threads -> BOOLEAN]
    BY <1>6, <2>3, BeginSaveType DEF Ends, Threads
  <2> QED BY <1>6, <2>2, <2>4 DEF Ends, Answers, TypeOK, flags
<1>7. CASE StartDelegate
  <2>1. /\ stats' \in [Agents -> BOOLEAN]
        /\ saving' \in [Threads -> Agents \cup {"none"}]
        /\ held' \in [Threads -> BOOLEAN]
    BY <1>7, BeginSaveType DEF StartDelegate, Threads, Agents
  <2> QED BY <1>7, <2>1 DEF StartDelegate, Answers, TypeOK, flags, States, Agents
<1>8. CASE EndDelegate
  BY <1>8 DEF EndDelegate, Idle, TypeOK, flags, bounds, States, Agents, Errors
<1>9. CASE StatusError
  <2>1. /\ stats' \in [Agents -> BOOLEAN]
        /\ saving' \in [Threads -> Agents \cup {"none"}]
        /\ held' \in [Threads -> BOOLEAN]
        /\ saving'["ctrl"] = saving["ctrl"]
    BY <1>9, BeginSaveType DEF StatusError, Threads, Agents
  <2> QED BY <1>9, <2>1 DEF StatusError, TypeOK, flags, States, Agents, Errors
<1> QED BY <1>1, <1>2, <1>3, <1>4, <1>5, <1>6, <1>7, <1>8, <1>9 DEF Next

\* The invariant holds initially and is inductive.
LEMMA InitIInv == Init => IInv
<1> SUFFICES ASSUME Init PROVE IInv
  OBVIOUS
<1>1. TypeOK
  <2>1. state \in [Agents -> States] /\ state["root"] # "none"
    BY DEF Init, Agents, States
  <2>2. error \in [Agents -> Errors]
    BY DEF Init, Errors
  <2>3. /\ saving \in [Threads -> Agents \cup {"none"}]
        /\ held \in [Threads -> BOOLEAN]
        /\ stats \in [Agents -> BOOLEAN]
    BY DEF Init
  <2> QED BY <2>1, <2>2, <2>3, ConstantsAssumption DEF Init, TypeOK
<1>2. CallsWithinLimit /\ ExtensionsAreEarned /\ HitIsReached
  BY ConstantsAssumption DEF Init, CallsWithinLimit, ExtensionsAreEarned,
     HitIsReached
<1> QED BY <1>1, <1>2 DEF IInv

LEMMA NextIInv == IInv /\ [Next]_vars => IInv'
<1> SUFFICES ASSUME IInv, [Next]_vars PROVE IInv'
  OBVIOUS
<1>1. CASE UNCHANGED vars
  BY <1>1, Stuttering
<1>2. CASE Next
  <2>1. TypeOK'
    BY <1>2, StepKeepsType DEF IInv
  <2>2. ASSUME NEW t \in Threads, EndSave(t) \/ FailSave(t) PROVE IInv'
    BY <2>1, <2>2, OtherSteps DEF EndSave, FailSave, flags, bounds
  <2>3. ASSUME NEW a \in Agents, Step(a) PROVE IInv'
    BY <2>1, <2>3, StepCounts
  <2>4. ASSUME NEW a \in Agents, Resume(a) PROVE IInv'
    BY <2>1, <2>4, ResumeExtends
  <2>5. CASE GoesOn \/ Ends \/ StartDelegate
    BY <2>1, <2>5, OtherSteps DEF GoesOn, Ends, StartDelegate, Answers, flags
  <2>6. CASE EndDelegate
    BY <2>1, <2>6, OtherSteps DEF EndDelegate, flags, bounds
  <2>7. CASE StatusError
    BY <2>1, <2>7, OtherSteps DEF StatusError, flags
  <2> QED BY <1>2, <2>2, <2>3, <2>4, <2>5, <2>6, <2>7 DEF Next
<1> QED BY <1>1, <1>2

LEMMA Invariance == Spec => []IInv
BY InitIInv, NextIInv, PTL DEF Spec

\* The variables of the flags, the controllers and the saves keep their types.
THEOREM TypeCorrect == Spec => []TypeOK
<1>1. IInv => TypeOK
  BY DEF IInv
<1> QED BY Invariance, <1>1, PTL

\* The LLM is never asked more often than the iteration limit in force allows,
\* by the root and its delegates together (control_flags.py:44-66).
THEOREM LimitHolds == Spec => []CallsWithinLimit
<1>1. IInv => CallsWithinLimit
  BY DEF IInv
<1> QED BY Invariance, <1>1, PTL

\* An extension of the limit is never early, and never happens in headless
\* mode (control_flags.py:51-55).
THEOREM ExtensionsEarned == Spec => []ExtensionsAreEarned
<1>1. IInv => ExtensionsAreEarned
  BY DEF IInv
<1> QED BY Invariance, <1>1, PTL

\* Without an error status and without a failing write, only the controller's
\* thread saves, the agent it saves is the only one without its stats, and it
\* holds them: so every step of an agent sees what has been spent.
StatsAtHand ==
    statusErrs = 0 /\ writeFails = 0 =>
        /\ saving["sess"] = "none"
        /\ \A a \in Agents : saving["ctrl"] # a => stats[a]
        /\ saving["ctrl"] # "none" => held["ctrl"]

BInv == TypeOK /\ StatsAtHand /\ BudgetHoldsUndisturbed

\* A save of the controller's thread begins with all the stats in place.
LEMMA BeginSaveHolds ==
    ASSUME TypeOK, StatsAtHand, saving["ctrl"] = "none",
           NEW a \in Agents, BeginSave("ctrl", a),
           UNCHANGED <<statusErrs, writeFails>>
    PROVE  StatsAtHand'
<1> SUFFICES ASSUME statusErrs = 0, writeFails = 0
             PROVE  /\ saving'["sess"] = "none"
                    /\ \A b \in Agents : saving'["ctrl"] # b => stats'[b]
                    /\ saving'["ctrl"] # "none" => held'["ctrl"]
  BY DEF StatsAtHand
<1>1. saving["sess"] = "none" /\ \A b \in Agents : stats[b]
  BY DEF StatsAtHand, Agents
<1>2. /\ saving' = [saving EXCEPT !["ctrl"] = a]
      /\ held' = [held EXCEPT !["ctrl"] = TRUE]
      /\ stats' = [stats EXCEPT ![a] = FALSE]
  BY <1>1 DEF BeginSave
<1>3. saving'["ctrl"] = a /\ saving'["sess"] = "none" /\ held'["ctrl"]
  BY <1>1, <1>2 DEF TypeOK, Threads
<1>4. ASSUME NEW b \in Agents, b # a PROVE stats'[b]
  BY <1>1, <1>2, <1>4 DEF TypeOK
<1> QED BY <1>3, <1>4

\* The stats stay at hand, whatever the controller's thread does.
LEMMA StepKeepsStats ==
    ASSUME TypeOK, StatsAtHand, Next PROVE StatsAtHand'
<1>1. ASSUME NEW t \in Threads, EndSave(t) PROVE StatsAtHand'
  <2> SUFFICES ASSUME statusErrs = 0, writeFails = 0
               PROVE  /\ saving'["sess"] = "none"
                      /\ \A b \in Agents : saving'["ctrl"] # b => stats'[b]
                      /\ saving'["ctrl"] # "none" => held'["ctrl"]
    BY <1>1 DEF EndSave, bounds, StatsAtHand
  <2>1. t = "ctrl" /\ held["ctrl"] /\ saving["ctrl"] \in Agents
    BY <1>1 DEF EndSave, StatsAtHand, TypeOK, Threads
  <2>2. saving'["sess"] = "none" /\ saving'["ctrl"] = "none"
    BY <1>1, <2>1 DEF EndSave, StatsAtHand, TypeOK, Threads
  <2>3. ASSUME NEW b \in Agents PROVE stats'[b]
    <3>1. stats' = [stats EXCEPT ![saving["ctrl"]] = TRUE]
      BY <1>1, <2>1 DEF EndSave
    <3> QED BY <2>1, <3>1 DEF StatsAtHand, TypeOK
  <2> QED BY <2>2, <2>3
<1>2. ASSUME NEW t \in Threads, FailSave(t) PROVE StatsAtHand'
  BY <1>2 DEF FailSave, StatsAtHand, TypeOK
<1>3. ASSUME NEW a \in Agents, Step(a) PROVE StatsAtHand'
  <2>1. /\ saving["ctrl"] = "none"
        /\ UNCHANGED <<statusErrs, writeFails>>
        /\ BeginSave("ctrl", a) \/ UNCHANGED saves
    BY <1>3 DEF Step, Stop, Idle
  <2>2. CASE BeginSave("ctrl", a)
    BY <2>1, <2>2, BeginSaveHolds
  <2>3. CASE UNCHANGED saves
    BY <2>1, <2>3 DEF saves, StatsAtHand
  <2> QED BY <2>1, <2>2, <2>3
<1>4. ASSUME NEW a \in Agents, Resume(a) PROVE StatsAtHand'
  <2>1. /\ saving["ctrl"] = "none"
        /\ UNCHANGED <<statusErrs, writeFails>>
        /\ BeginSave("ctrl", a) \/ UNCHANGED saves
    BY <1>4 DEF Resume, Idle
  <2>2. CASE BeginSave("ctrl", a)
    BY <2>1, <2>2, BeginSaveHolds
  <2>3. CASE UNCHANGED saves
    BY <2>1, <2>3 DEF saves, StatsAtHand
  <2> QED BY <2>1, <2>2, <2>3
<1>5. CASE GoesOn
  BY <1>5 DEF GoesOn, Answers, saves, StatsAtHand
<1>6. CASE Ends
  <2>1. /\ asking \in Agents /\ saving["ctrl"] = "none"
        /\ UNCHANGED <<statusErrs, writeFails>> /\ BeginSave("ctrl", asking)
    BY <1>6 DEF Ends, Answers, TypeOK
  <2> QED BY <2>1, BeginSaveHolds
<1>7. CASE StartDelegate
  <2>1. /\ "child" \in Agents /\ saving["ctrl"] = "none"
        /\ UNCHANGED <<statusErrs, writeFails>> /\ BeginSave("ctrl", "child")
    BY <1>7 DEF StartDelegate, Answers, TypeOK, Agents
  <2> QED BY <2>1, BeginSaveHolds
<1>8. CASE EndDelegate
  <2>1. /\ UNCHANGED <<saving, held, statusErrs, writeFails>>
        /\ stats' = [stats EXCEPT !["child"] = TRUE]
    BY <1>8 DEF EndDelegate, bounds
  <2> QED BY <2>1 DEF StatsAtHand, TypeOK
<1>9. CASE StatusError
  BY <1>9 DEF StatusError, StatsAtHand, TypeOK
<1> QED BY <1>1, <1>2, <1>3, <1>4, <1>5, <1>6, <1>7, <1>8, <1>9 DEF Next

\* The step that asks the LLM has compared what has been spent to the limit.
LEMMA StepKeepsBudget ==
    ASSUME BInv, Next PROVE BudgetHoldsUndisturbed'
<1> SUFFICES ASSUME statusErrs' = 0, writeFails' = 0, HasBudget, asking' # "none"
             PROVE  spent' < maxBudget'
  BY DEF BudgetHoldsUndisturbed, BudgetHolds
<1> USE DEF BInv
<1>1. ASSUME NEW t \in Threads, EndSave(t) PROVE spent' < maxBudget'
  BY <1>1 DEF EndSave, flags, bounds, BudgetHoldsUndisturbed, BudgetHolds
<1>2. ASSUME NEW t \in Threads, FailSave(t) PROVE spent' < maxBudget'
  BY <1>2 DEF FailSave, TypeOK
<1>3. ASSUME NEW a \in Agents, Step(a) PROVE spent' < maxBudget'
  <2>1. /\ asking = "none" /\ saving["ctrl"] = "none"
        /\ statusErrs = 0 /\ writeFails = 0
        /\ spent' = spent /\ maxBudget' = maxBudget
    BY <1>3 DEF Step, Idle
  <2>2. cost' = spent
    BY <1>3, <2>1 DEF Step, StatsAtHand, SyncedCost, Agents
  <2>3. ~ReachedBudget(cost')
    BY <1>3, <2>1 DEF Step, Stop
  <2> QED BY <2>1, <2>2, <2>3 DEF ReachedBudget, TypeOK
<1>4. ASSUME NEW a \in Agents, Resume(a) PROVE spent' < maxBudget'
  BY <1>4 DEF Resume, Idle
<1>5. CASE GoesOn \/ Ends \/ StartDelegate
  BY <1>5 DEF GoesOn, Ends, StartDelegate, Answers
<1>6. CASE EndDelegate
  BY <1>6 DEF EndDelegate, Idle
<1>7. CASE StatusError
  BY <1>7 DEF StatusError, TypeOK
<1> QED BY <1>1, <1>2, <1>3, <1>4, <1>5, <1>6, <1>7 DEF Next

\* As long as no error status and no failing write has come between a State and
\* its conversation stats, the LLM is asked only while less than the budget has
\* been spent, by whichever agent (agent_controller.py:142, state.py:112-140).
THEOREM BudgetIsKept == Spec => []BudgetHoldsUndisturbed
<1>1. Init => BInv
  <2> SUFFICES ASSUME Init PROVE BInv
    OBVIOUS
  <2>1. TypeOK
    BY InitIInv DEF IInv
  <2>2. StatsAtHand /\ BudgetHoldsUndisturbed
    BY DEF Init, StatsAtHand, Threads, BudgetHoldsUndisturbed, BudgetHolds
  <2> QED BY <2>1, <2>2 DEF BInv
<1>2. BInv /\ [Next]_vars => BInv'
  <2>1. ASSUME BInv, Next PROVE BInv'
    BY <2>1, StepKeepsType, StepKeepsStats, StepKeepsBudget DEF BInv
  <2>2. ASSUME BInv, UNCHANGED vars PROVE BInv'
    <3>1. TypeOK'
      BY <2>2 DEF BInv, TypeOK, vars, flags, saves, bounds
    <3>2. StatsAtHand' /\ BudgetHoldsUndisturbed'
      BY <2>2 DEF BInv, StatsAtHand, BudgetHoldsUndisturbed, BudgetHolds, vars,
                  flags, saves, bounds
    <3> QED BY <3>1, <3>2 DEF BInv
  <2> QED BY <2>1, <2>2
<1>3. BInv => BudgetHoldsUndisturbed
  BY DEF BInv
<1> QED BY <1>1, <1>2, <1>3, PTL DEF Spec
=============================================================================
