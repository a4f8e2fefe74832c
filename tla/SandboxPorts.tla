---------------------------- MODULE SandboxPorts ----------------------------
(***************************************************************************)
(* openhands/runtime/impl/docker/docker_runtime.py: how a sandbox gets the *)
(* port of its action execution server, over PortLock.                     *)
(*                                                                         *)
(* connect() reuses the container of the conversation when there is one;   *)
(* otherwise init_container() searches a port under a lock, starts the     *)
(* container on it, and close() stops the container and releases the lock. *)
(* The stopped container keeps its port and is started again, without a    *)
(* lock, by the next connect().  The search for each of the four ports of  *)
(* a sandbox is the same, over disjoint ranges: one of them is modelled.   *)
(* keep_runtime_alive and attach_to_existing are off.                      *)
(***************************************************************************)
EXTENDS PortLock

CONSTANTS MaxAttempts,  \* max_attempts of _find_available_port_with_lock
          MaxFaults     \* bound: processes that die, requests to docker that fail

ASSUME SandboxAssumption ==
    /\ MaxAttempts \in Nat /\ MaxFaults \in Nat
    /\ MaxAttempts - MaxAttempts \div 2 <= MaxPort - MinPort

VARIABLES pc,       \* what each runtime is doing
          port,     \* the port it is trying or uses
          tries,    \* attempts made by find_available_port_with_lock
          budget,   \* its max_attempts
          back,     \* where release() returns to
          box,      \* state of the container of each runtime's conversation
          boxPort,  \* and the port it was created with
          deaths, errors

counts == <<deaths, errors>>
runVars == <<pc, port, tries, budget, back, box, boxPort, counts>>
vars == <<lockVars, runVars>>

NoPort == 0

TypeOK ==
    /\ LockTypeOK
    /\ pc \in [Runtimes -> {"off", "search", "wait", "bind", "docker", "start",
                            "up", "unlock", "unlink"}]
    /\ port \in [Runtimes -> Ports \cup {NoPort}]
    /\ tries \in [Runtimes -> 0..MaxAttempts]
    /\ budget \in [Runtimes -> 0..MaxAttempts]
    /\ back \in [Runtimes -> {"off", "search"}]
    /\ box \in [Runtimes -> {"none", "created", "running", "exited"}]
    /\ boxPort \in [Runtimes -> Ports \cup {NoPort}]
    /\ deaths \in Nat /\ errors \in Nat /\ deaths + errors <= MaxFaults

Init ==
    /\ LockInit
    /\ pc = [r \in Runtimes |-> "off"]
    /\ port = [r \in Runtimes |-> NoPort]
    /\ tries = [r \in Runtimes |-> 0]
    /\ budget = [r \in Runtimes |-> 0]
    /\ back = [r \in Runtimes |-> "off"]
    /\ box = [r \in Runtimes |-> "none"]
    /\ boxPort = [r \in Runtimes |-> NoPort]
    /\ deaths = 0 /\ errors = 0

\* A running container publishes this port.
InUse(q) == \E r \in Runtimes : box[r] = "running" /\ boxPort[r] = q

Goto(r, l) == pc' = [pc EXCEPT ![r] = l]

-----------------------------------------------------------------------------
(* connect.                                                                *)

\* _attach_to_container: a running container is used as it is, one that has
\* exited is started on the port it has.  No lock is taken.  When the port is
\* taken by then, or the container was never started, connect() raises.
Attach(r) ==
    /\ pc[r] = "off"
    /\ \/ box[r] = "running"
       \/ box[r] = "exited" /\ ~InUse(boxPort[r])
    /\ box' = [box EXCEPT ![r] = "running"]
    /\ port' = [port EXCEPT ![r] = boxPort[r]]
    /\ Goto(r, "up")
    /\ UNCHANGED <<lockVars, tries, budget, back, boxPort, counts>>

\* docker.errors.NotFound: init_container begins to look for a port.
InitContainer(r) ==
    /\ pc[r] = "off" /\ box[r] = "none"
    /\ tries' = [tries EXCEPT ![r] = 0]
    /\ budget' = [budget EXCEPT ![r] = MaxAttempts]
    /\ Goto(r, "search")
    /\ UNCHANGED <<lockVars, port, back, box, boxPort, counts>>

-----------------------------------------------------------------------------
(* find_available_port_with_lock.                                          *)

\* The first half of the attempts takes random ports, the second half follows
\* a random start port upwards.
RandomAttempts(r) == budget[r] \div 2
Candidate(r, q) ==
    LET remaining == budget[r] - RandomAttempts(r)
    IN  CASE tries[r] < RandomAttempts(r) -> TRUE
          [] tries[r] = RandomAttempts(r) -> q <= MaxPort - remaining
          [] OTHER -> q = port[r] + 1

\* Mutant: one attempt too many.
AttemptsLeft_OneMore(r) == tries[r] <= budget[r]
AttemptsLeft(r) == tries[r] < budget[r]

NextAttempt(r) ==
    /\ pc[r] = "search" /\ AttemptsLeft(r)
    /\ \E q \in Ports :
          /\ Candidate(r, q)
          /\ OpenFile(r, q)
          /\ port' = [port EXCEPT ![r] = q]
    /\ tries' = [tries EXCEPT ![r] = @ + 1]
    /\ Goto(r, "wait")
    /\ UNCHANGED <<budget, back, box, boxPort, counts>>

Acquired(r) ==
    /\ pc[r] = "wait" /\ TakeLock(r)
    /\ Goto(r, "bind")
    /\ UNCHANGED <<port, tries, budget, back, box, boxPort, counts>>

TimedOut(r) ==
    /\ pc[r] = "wait" /\ GiveUp(r)
    /\ Goto(r, "search")
    /\ UNCHANGED <<port, tries, budget, back, box, boxPort, counts>>

\* release(), after which the code goes on at l.
Release(r, l) ==
    /\ back' = [back EXCEPT ![r] = l]
    /\ Goto(r, "unlock")

\* _check_port_available: a process outside may have the port, and whether a
\* port published by docker can be bound depends on docker's proxy.
BindFails(r) ==
    /\ pc[r] = "bind"
    /\ Release(r, "search")
    /\ UNCHANGED <<lockVars, port, tries, budget, box, boxPort, counts>>

BindSucceeds(r) ==
    /\ pc[r] = "bind"
    /\ Goto(r, "docker")
    /\ UNCHANGED <<lockVars, port, tries, budget, back, box, boxPort, counts>>

-----------------------------------------------------------------------------
(* _find_available_port_with_lock of the docker runtime.                   *)

\* Mutant: the next search makes as many attempts again.
FewerAttempts_Same(r) == budget' = budget
FewerAttempts(r) == budget' = [budget EXCEPT ![r] = @ - 1]

\* Mutant: the search goes on with the lock in hand.
DockerUses_KeepsLock(r) ==
    /\ pc[r] = "docker" /\ InUse(port[r])
    /\ Goto(r, "search")
    /\ tries' = [tries EXCEPT ![r] = 0]
    /\ FewerAttempts(r)
    /\ UNCHANGED <<lockVars, port, back, box, boxPort, counts>>

\* _is_port_in_use_docker: release the lock and search again.
DockerUses(r) ==
    /\ pc[r] = "docker" /\ InUse(port[r])
    /\ Release(r, "search")
    /\ tries' = [tries EXCEPT ![r] = 0]
    /\ FewerAttempts(r)
    /\ UNCHANGED <<lockVars, port, box, boxPort, counts>>

PortFound(r) ==
    /\ pc[r] = "docker" /\ ~InUse(port[r])
    /\ Goto(r, "start")
    /\ UNCHANGED <<lockVars, port, tries, budget, back, box, boxPort, counts>>

\* No attempt succeeded: a port without a lock.  It was free a moment ago, or
\* every one tried was in use; without attempts it is the last one, unchecked.
Fallback(r) ==
    /\ pc[r] = "search" /\ ~AttemptsLeft(r)
    /\ \E q \in Ports :
          /\ budget[r] = 0 => q = MaxPort
          /\ port' = [port EXCEPT ![r] = q]
    /\ Goto(r, "start")
    /\ UNCHANGED <<lockVars, tries, budget, back, box, boxPort, counts>>

\* A request to docker raises.
DockerFails ==
    /\ deaths + errors < MaxFaults
    /\ errors' = errors + 1 /\ deaths' = deaths

\* containers.list() of _is_port_in_use_docker raises: the search is over, and a
\* lock in hand is neither released nor stored in the runtime.
CheckFails(r) ==
    /\ \/ pc[r] = "docker"
       \/ pc[r] = "search" /\ ~AttemptsLeft(r) /\ budget[r] > 0
    /\ DockerFails /\ LoseLock(r)
    /\ Goto(r, "off")
    /\ UNCHANGED <<port, tries, budget, back, box, boxPort>>

-----------------------------------------------------------------------------
(* The container, and close.                                               *)

CloseTo(r) == IF fd[r] # NoInode THEN Release(r, "off")
              ELSE Goto(r, "off") /\ back' = back

\* containers.run succeeds.
Started(r) ==
    /\ pc[r] = "start" /\ ~InUse(port[r])
    /\ box' = [box EXCEPT ![r] = "running"]
    /\ boxPort' = [boxPort EXCEPT ![r] = port[r]]
    /\ Goto(r, "up")
    /\ UNCHANGED <<lockVars, port, tries, budget, back, counts>>

\* The container is created but its port is taken; init_container closes the
\* runtime and raises.
StartFails(r) ==
    /\ pc[r] = "start" /\ InUse(port[r])
    /\ box' = [box EXCEPT ![r] = "created"]
    /\ boxPort' = [boxPort EXCEPT ![r] = port[r]]
    /\ CloseTo(r)
    /\ UNCHANGED <<lockVars, port, tries, budget, counts>>

\* containers.run raises for another reason.  close() may then raise as well,
\* where stop_all_containers lists them, and the lock is not released.
RunFails(r) ==
    /\ pc[r] = "start" /\ DockerFails
    /\ \/ UNCHANGED <<box, boxPort>>
       \/ /\ box' = [box EXCEPT ![r] = "created"]
          /\ boxPort' = [boxPort EXCEPT ![r] = port[r]]
    /\ \/ CloseTo(r) /\ UNCHANGED lockVars
       \/ LoseLock(r) /\ Goto(r, "off") /\ back' = back
    /\ UNCHANGED <<port, tries, budget>>

\* The same in the close() of a running sandbox, which goes on running.
StopFails(r) ==
    /\ pc[r] = "up" /\ DockerFails
    /\ LoseLock(r)
    /\ Goto(r, "off")
    /\ UNCHANGED <<port, tries, budget, back, box, boxPort>>

\* close(): the container is stopped, not removed, and the lock released.
Close(r) ==
    /\ pc[r] = "up"
    /\ box' = [box EXCEPT ![r] = "exited"]
    /\ CloseTo(r)
    /\ UNCHANGED <<lockVars, port, tries, budget, boxPort, counts>>

\* delete(): the conversation is deleted, and its container removed.
Delete(r) ==
    /\ pc[r] = "off" /\ box[r] # "none"
    /\ box' = [box EXCEPT ![r] = "none"]
    /\ boxPort' = [boxPort EXCEPT ![r] = NoPort]
    /\ UNCHANGED <<lockVars, pc, port, tries, budget, back, counts>>

Release_Unlock(r) ==
    /\ pc[r] = "unlock" /\ Unlock(r)
    /\ Goto(r, "unlink")
    /\ UNCHANGED <<port, tries, budget, back, box, boxPort, counts>>

Release_Unlink(r) ==
    /\ pc[r] = "unlink" /\ Unlink(port[r])
    /\ Goto(r, back[r])
    /\ UNCHANGED <<port, tries, budget, back, box, boxPort, counts>>

\* The process dies; the container stays as it is.
Die(r) ==
    /\ pc[r] # "off" \/ lost[r] # {}
    /\ deaths + errors < MaxFaults
    /\ deaths' = deaths + 1
    /\ DropLocks(r)
    /\ Goto(r, "off")
    /\ UNCHANGED <<port, tries, budget, back, box, boxPort, errors>>

Search(r) ==
    \/ NextAttempt(r) \/ Acquired(r) \/ TimedOut(r)
    \/ BindFails(r) \/ BindSucceeds(r)
    \/ DockerUses(r) \/ PortFound(r) \/ CheckFails(r) \/ Fallback(r)

Next == \E r \in Runtimes :
    \/ Attach(r) \/ InitContainer(r) \/ Search(r)
    \/ Started(r) \/ StartFails(r) \/ RunFails(r)
    \/ Close(r) \/ StopFails(r) \/ Delete(r) \/ Release_Unlock(r) \/ Release_Unlink(r)
    \/ Die(r)

Spec == Init /\ [][Next]_vars

\* A runtime that searches a port or releases a lock goes on with it.
Fairness == \A r \in Runtimes :
    WF_vars(Search(r) \/ Release_Unlock(r) \/ Release_Unlink(r))
FairSpec == Spec /\ Fairness

-----------------------------------------------------------------------------
(* Properties.                                                             *)

\* The runtimes for which a PortLock has _locked set.
Holds(r) == pc[r] \in {"bind", "docker", "unlock"}
            \/ (pc[r] \in {"start", "up"} /\ fd[r] # NoInode)

\* Two runtimes hold the lock of one port only once some runtime has released
\* it and removed the file (port_lock.py:117): until then the lock excludes.
ExclusiveUntilRelease ==
    \A r, s \in Runtimes :
        Holds(r) /\ Holds(s) /\ r # s /\ port[r] = port[s]
            => port[r] \in unlinked

\* No lock outlives its use, through failed attempts, new searches, failed starts
\* and close: whoever holds one still has it in hand, unless docker itself failed,
\* which loses one lock at a time until the process ends (docker_runtime.py:670).
NoLeakedLock ==
    /\ \A i \in Inodes : flock[i] # NoRuntime =>
                           fd[flock[i]] = i \/ i \in lost[flock[i]]
    /\ \A r \in Runtimes : pc[r] \in {"off", "search"} => fd[r] = NoInode
    /\ errors = 0 => \A r \in Runtimes : lost[r] = {}

\* A sandbox with a locked port fails to start only because another sandbox
\* uses the port without a lock, or because the lock was released before.
ConflictIsExplained ==
    [][\A r \in Runtimes :
         StartFails(r) /\ fd[r] # NoInode
            => \/ port[r] \in unlinked
               \/ \E s \in Runtimes \ {r} :
                     /\ box[s] = "running" /\ boxPort[s] = port[r]
                     /\ fd[s] = NoInode]_vars

\* Every search for a port ends.
SearchEnds == \A r \in Runtimes :
    pc[r] = "search" ~> pc[r] \in {"start", "off"}

\* "prevent multiple workers from allocating the same port simultaneously"
\* (docker_runtime.py:682-683).
Exclusive ==
    \A r, s \in Runtimes :
        Holds(r) /\ Holds(s) /\ r # s => port[r] # port[s]
=============================================================================
