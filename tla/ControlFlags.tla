---------------------------- MODULE ControlFlags ----------------------------
(***************************************************************************)
(* The limits on iterations and on the budget of a task:                   *)
(* openhands/controller/state/control_flags.py, used by StateTracker       *)
(* (state_tracker.py:225-268), by AgentController when it steps, resumes   *)
(* and delegates, and dependent on State.save_to_session (state.py), which *)
(* takes the reference to the conversation stats away while it pickles.    *)
(*                                                                         *)
(* The root controller and the delegate it may have share both flags.  The *)
(* controller's thread ("ctrl") runs both; the session's loop ("sess") sets*)
(* the root's state to ERROR when an error status arrives, and saves.      *)
(***************************************************************************)
EXTENDS Integers, FiniteSets

CONSTANTS Iterations,    \* iteration_delta, the limit and its extension
          HasBudget,     \* max_budget_per_task is set: there is a budget_flag
          Budget,        \* max_budget_per_task, the limit and its extension
          MaxCost,       \* bound: cost of one LLM call
          MaxCalls,      \* bound: LLM calls
          MaxMsgs,       \* bound: messages of the user
          MaxDelegates,  \* bound: delegations
          MaxStatusErrs, \* bound: error statuses from runtime and memory
          MaxWriteFails  \* bound: failing writes of the state file

ASSUME ConstantsAssumption ==
    /\ HasBudget \in BOOLEAN
    /\ Iterations \in Nat \ {0} /\ Budget \in Nat \ {0}
    /\ MaxCost \in Nat /\ MaxCalls \in Nat /\ MaxMsgs \in Nat
    /\ MaxDelegates \in Nat /\ MaxStatusErrs \in Nat /\ MaxWriteFails \in Nat

Agents == {"root", "child"}
Threads == {"ctrl", "sess"}
States == {"none",       \* there is no delegate
           "RUNNING", "AWAITING_USER_INPUT", "FINISHED", "ERROR"}
Errors == {"none", "iteration", "budget"}   \* last_error

VARIABLES
    headless,                       \* headless_mode, fixed for a session
    iter, maxIter, iterHit,         \* iteration_flag
    cost, maxBudget, budgetHit,     \* budget_flag, cost = current_value
    spent,      \* accumulated cost in the conversation stats
    state,      \* agent_state of each controller
    error,      \* last_error of each controller
    stats,      \* state.conversation_stats is not None, per controller
    asking,     \* the agent whose LLM call is under way, or "none"
    saving,     \* the agent whose state each thread is saving, or "none"
    held,       \* the reference a saving thread will restore
    calls, msgs, delegates, statusErrs, writeFails   \* counted against the bounds

flags == <<headless, iter, maxIter, iterHit, cost, maxBudget, budgetHit>>
saves == <<stats, saving, held>>
bounds == <<calls, msgs, delegates, statusErrs, writeFails>>
vars == <<flags, spent, state, error, asking, saves, bounds>>

TypeOK ==
    /\ headless \in BOOLEAN
    /\ iter \in Nat /\ maxIter \in Nat /\ iterHit \in BOOLEAN
    /\ cost \in Nat /\ maxBudget \in Nat /\ budgetHit \in BOOLEAN
    /\ spent \in Nat
    /\ state \in [Agents -> States] /\ state["root"] # "none"
    /\ error \in [Agents -> Errors]
    /\ stats \in [Agents -> BOOLEAN]
    /\ asking \in Agents \cup {"none"}
    /\ asking = "child" => state["child"] # "none"
    /\ asking # "none" => saving["ctrl"] = "none"
    /\ saving \in [Threads -> Agents \cup {"none"}]
    /\ held \in [Threads -> BOOLEAN]
    /\ calls \in Nat /\ msgs \in Nat /\ delegates \in Nat
    /\ statusErrs \in Nat /\ writeFails \in Nat

Init ==
    /\ headless \in BOOLEAN
    /\ iter = 0 /\ maxIter = Iterations /\ iterHit = FALSE
    /\ cost = 0 /\ maxBudget = Budget /\ budgetHit = FALSE
    /\ spent = 0
    /\ state = [a \in Agents |->
                  IF a = "root" THEN "AWAITING_USER_INPUT" ELSE "none"]
    /\ error = [a \in Agents |-> "none"]
    /\ stats = [a \in Agents |-> TRUE]
    /\ asking = "none"
    /\ saving = [t \in Threads |-> "none"]
    /\ held = [t \in Threads |-> FALSE]
    /\ calls = 0 /\ msgs = 0 /\ delegates = 0
    /\ statusErrs = 0 /\ writeFails = 0

-----------------------------------------------------------------------------
(* save_to_session: take the reference away, pickle and write, put it back.*)
(* Whatever sets an agent's state begins a save, on its own thread.        *)

BeginSave(t, a) ==
    /\ saving' = [saving EXCEPT ![t] = a]
    /\ held' = [held EXCEPT ![t] = stats[a]]
    /\ stats' = [stats EXCEPT ![a] = FALSE]

EndSave(t) ==
    /\ saving[t] # "none"
    /\ stats' = [stats EXCEPT ![saving[t]] = held[t]]
    /\ saving' = [saving EXCEPT ![t] = "none"]
    /\ held' = [held EXCEPT ![t] = FALSE]
    /\ UNCHANGED <<flags, spent, state, error, asking, bounds>>

\* The write raises before the reference is back.
FailSave(t) ==
    /\ saving[t] # "none" /\ writeFails < MaxWriteFails
    /\ writeFails' = writeFails + 1
    /\ saving' = [saving EXCEPT ![t] = "none"]
    /\ held' = [held EXCEPT ![t] = FALSE]
    /\ UNCHANGED <<flags, spent, state, error, asking, stats, calls, msgs,
                   delegates, statusErrs>>

-----------------------------------------------------------------------------
(* _step.                                                                  *)

Delegate == state["child"] # "none"

\* The controller's thread has nothing under way; the mutant takes the next
\* event while the LLM is being asked.
Idle_WhileAsking == saving["ctrl"] = "none"
Idle == asking = "none" /\ saving["ctrl"] = "none"

\* The controller whose turn it is: the delegate, as long as there is one.
Active(a) == IF Delegate THEN a = "child" ELSE a = "root"

\* sync_budget_flag_with_metrics.
SyncedCost(a) == IF HasBudget /\ stats[a] THEN spent ELSE cost

\* reached_limit of the two flags.
ReachedIterations_OffByOne == iter > maxIter      \* mutant
ReachedIterations == iter >= maxIter
ReachedBudget_Late(c) == HasBudget /\ c > maxBudget    \* mutant
ReachedBudget(c) == HasBudget /\ c >= maxBudget

\* run_control_flags raises: the agent's state becomes ERROR.
Stop(a, why) ==
    /\ state' = [state EXCEPT ![a] = "ERROR"]
    /\ error' = [error EXCEPT ![a] = why]
    /\ BeginSave("ctrl", a)
    /\ UNCHANGED <<asking, calls>>

\* The iteration is counted before the budget is looked at.
Step(a) ==
    /\ Idle /\ Active(a) /\ state[a] = "RUNNING" /\ calls < MaxCalls
    /\ cost' = SyncedCost(a)
    /\ iterHit' = ReachedIterations
    /\ IF ReachedIterations
       THEN /\ Stop(a, "iteration")
            /\ UNCHANGED <<iter, budgetHit>>
       ELSE /\ iter' = iter + 1
            /\ budgetHit' = ReachedBudget(cost')
            /\ IF ReachedBudget(cost')
               THEN Stop(a, "budget")
               ELSE /\ asking' = a /\ calls' = calls + 1
                    /\ UNCHANGED <<state, error, saves>>
    /\ UNCHANGED <<headless, maxIter, maxBudget, spent, msgs, delegates, statusErrs,
                   writeFails>>

\* agent.step returns: the call has cost something, and the agent goes on,
\* asks the user, finishes, or delegates.
Answers ==
    /\ asking # "none"
    /\ \E c \in 0..MaxCost : spent' = spent + c
    /\ asking' = "none"
    /\ UNCHANGED <<flags, error, calls, msgs, statusErrs, writeFails>>

GoesOn == Answers /\ UNCHANGED <<state, saves, delegates>>

Ends ==
    /\ Answers
    /\ \E s \in {"AWAITING_USER_INPUT", "FINISHED"} :
          state' = [state EXCEPT ![asking] = s]
    /\ BeginSave("ctrl", asking)
    /\ UNCHANGED delegates

\* Setting the delegate to RUNNING saves its state, too.
StartDelegate ==
    /\ Answers /\ asking = "root" /\ delegates < MaxDelegates
    /\ delegates' = delegates + 1
    /\ state' = [state EXCEPT !["child"] = "RUNNING"]
    /\ BeginSave("ctrl", "child")

-----------------------------------------------------------------------------
(* on_event: events for the delegate, the end of it, and the resumption.   *)

\* The delegate still gets events.  The code's text for the budget error has
\* no space where the error's text has one, so it never matches.
Forwarded == state["child"] \notin {"FINISHED", "ERROR"} \/ error["child"] = "iteration"

\* end_delegate, by any event that arrives.
EndDelegate ==
    /\ Idle /\ Delegate /\ ~Forwarded
    /\ state' = [state EXCEPT !["child"] = "none"]
    /\ error' = [error EXCEPT !["child"] = "none"]
    /\ stats' = [stats EXCEPT !["child"] = TRUE]    \* the next one's
    /\ UNCHANGED <<flags, spent, asking, saving, held, bounds>>

\* increase_limit of the two flags.
MayExtend_InHeadless == iterHit      \* mutant
MayExtend_Unreached == ~headless     \* mutant
MayExtend == ~headless /\ iterHit

\* set_agent_state_to(RUNNING), from a message of the user.
Resume(a) ==
    /\ Idle /\ Active(a) /\ msgs < MaxMsgs
    /\ Delegate => Forwarded
    /\ msgs' = msgs + 1
    /\ IF state[a] = "RUNNING" THEN UNCHANGED <<state, saves>>
       ELSE /\ state' = [state EXCEPT ![a] = "RUNNING"]
            /\ BeginSave("ctrl", a)
    /\ LET extends == state[a] = "ERROR" IN
         /\ maxIter' = IF extends /\ MayExtend THEN maxIter + Iterations ELSE maxIter
         /\ iterHit' = (iterHit /\ ~(extends /\ MayExtend))
         /\ maxBudget' = IF extends /\ HasBudget /\ budgetHit
                         THEN cost + Budget ELSE maxBudget
         /\ budgetHit' = (budgetHit /\ ~(extends /\ HasBudget))
    /\ UNCHANGED <<headless, iter, cost, spent, error, asking, calls, delegates,
                   statusErrs, writeFails>>

-----------------------------------------------------------------------------
(* The session's loop: an error status sets the root's state to ERROR.     *)

StatusError ==
    /\ saving["sess"] = "none" /\ statusErrs < MaxStatusErrs
    /\ statusErrs' = statusErrs + 1
    /\ state["root"] # "ERROR"
    /\ state' = [state EXCEPT !["root"] = "ERROR"]
    /\ BeginSave("sess", "root")
    /\ UNCHANGED <<flags, spent, error, asking, calls, msgs, delegates, writeFails>>

Next == \/ \E t \in Threads : EndSave(t) \/ FailSave(t)
        \/ \E a \in Agents : Step(a) \/ Resume(a)
        \/ GoesOn \/ Ends \/ StartDelegate \/ EndDelegate
        \/ StatusError

Spec == Init /\ [][Next]_vars

-----------------------------------------------------------------------------
(* Properties.                                                             *)

\* The root and its delegates together never ask the LLM more often than the
\* iteration limit in force allows (control_flags.py:44-66).
CallsWithinLimit == calls <= iter /\ iter <= maxIter

\* The limit is never more than one portion ahead of the iterations taken, and
\* in headless mode it never moves, whatever the user, the delegates, the
\* errors and the budget do (control_flags.py:51-55).
ExtensionsAreEarned ==
    /\ maxIter <= iter + Iterations
    /\ headless => maxIter = Iterations

\* The LLM is asked only while less than the budget in force has been spent,
\* by whichever agent spent it (agent_controller.py:142).
BudgetHolds == HasBudget /\ asking # "none" => spent < maxBudget

\* That much holds as long as nothing has come between a State and its
\* conversation stats: no save on the session's loop and no failing write.
BudgetHoldsUndisturbed == statusErrs = 0 /\ writeFails = 0 => BudgetHolds

\* A delegate that has finished is ended by the next event.
FinishedDelegateEnds == state["child"] = "FINISHED" => ~Forwarded

\* The reference to the conversation stats is back once nobody is saving.
StatsComeBack == (\A t \in Threads : saving[t] = "none") => stats["root"]
=============================================================================
