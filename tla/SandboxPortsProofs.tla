------------------------- MODULE SandboxPortsProofs -------------------------
(***************************************************************************)
(* Proofs about SandboxPorts, for any runtimes, ports and attempts: types, *)
(* locks that are never left behind, and exclusion until the first release *)
(* of a port.                                                              *)
(***************************************************************************)
EXTENDS SandboxPorts, TLAPS

\* The attempts of a search are counted within its budget.
Counted ==
    \A r \in Runtimes :
        /\ tries[r] <= budget[r]
        /\ pc[r] \in {"wait", "bind", "docker"} => tries[r] >= 1

\* A file is open exactly while a runtime waits for its lock or uses it.
OpenWhileUsed ==
    \A r \in Runtimes :
        /\ pc[r] \in {"off", "search", "unlink"} => fd[r] = NoInode
        /\ pc[r] \in {"wait", "bind", "docker", "unlock"} => fd[r] # NoInode
        /\ fd[r] # NoInode => port[r] \in Ports
        /\ pc[r] = "unlink" => port[r] \in Ports

\* Whoever has the lock is recorded as its holder, and has the file open.
HolderIsRight ==
    /\ \A i \in Inodes :
          flock[i] # NoRuntime => \/ fd[flock[i]] = i /\ Holds(flock[i])
                                  \/ i \in lost[flock[i]]
    /\ \A r \in Runtimes : Holds(r) => flock[fd[r]] = r

\* Before the first removal the name of a port is the file everybody opened.
NameIsOpened ==
    \A r \in Runtimes :
        fd[r] # NoInode /\ port[r] \notin unlinked => name[port[r]] = fd[r]

\* The container of a runtime, by what the runtime is doing: it has none while
\* it searches, and a running one on its own port while it is up.
BoxFollows ==
    \A r \in Runtimes :
        /\ pc[r] \in {"search", "wait", "bind", "docker", "start"}
              => box[r] = "none"
        /\ pc[r] \in {"unlock", "unlink"}
              => /\ box[r] # "running"
                 /\ back[r] = "search" => box[r] = "none"
        /\ pc[r] = "up" => box[r] = "running" /\ boxPort[r] = port[r]

\* A lock is lost only by a request to docker that failed.
LostByErrors == errors = 0 => \A r \in Runtimes : lost[r] = {}

IInv == /\ TypeOK /\ Counted /\ OpenWhileUsed /\ HolderIsRight /\ NameIsOpened
        /\ BoxFollows /\ LostByErrors

LEMMA InitIInv == Init => IInv
<1> SUFFICES ASSUME Init PROVE IInv
    OBVIOUS
<1>1. TypeOK
    BY PortLockAssumption, SandboxAssumption
       DEF Init, LockInit, TypeOK, LockTypeOK, Ports, Inodes, NoInode, NoPort
<1>2. Counted /\ OpenWhileUsed /\ HolderIsRight /\ NameIsOpened
    BY PortLockAssumption
       DEF Init, LockInit, Counted, OpenWhileUsed, HolderIsRight, NameIsOpened,
           Holds
<1>3. BoxFollows /\ LostByErrors
    BY DEF Init, LockInit, BoxFollows, LostByErrors
<1> QED
    BY <1>1, <1>2, <1>3 DEF IInv

\* Neither a free lock nor a closed file is taken for another.
LEMMA NamesDiffer == NoRuntime \notin Runtimes /\ NoInode \notin Inodes
BY PortLockAssumption DEF Inodes, NoInode

\* os.open gives the runtime a file, and the port's name is that file.
LEMMA OpenedFile ==
    ASSUME TypeOK, NEW r \in Runtimes, NEW q \in Ports, OpenFile(r, q)
    PROVE  \E i \in Inodes : /\ fd' = [fd EXCEPT ![r] = i]
                             /\ name' = [name EXCEPT ![q] = i]
                             /\ UNCHANGED <<flock, lost, unlinked>>
                             /\ name[q] \in {NoInode, i}
<1>1. CASE name[q] # NoInode
    <2>1. name[q] \in Inodes /\ name' = [name EXCEPT ![q] = name[q]]
        BY <1>1 DEF TypeOK, LockTypeOK, OpenFile
    <2> QED
        BY <1>1, <2>1 DEF OpenFile
<1>2. CASE name[q] = NoInode
    BY <1>2 DEF OpenFile
<1> QED
    BY <1>1, <1>2

\* What an attempt does: it opens the file of some port.
LEMMA Attempted ==
    ASSUME TypeOK, NEW r \in Runtimes, NextAttempt(r)
    PROVE  /\ pc[r] = "search" /\ tries[r] < budget[r]
           /\ pc' = [pc EXCEPT ![r] = "wait"]
           /\ tries' = [tries EXCEPT ![r] = @ + 1]
           /\ UNCHANGED <<flock, lost, unlinked, budget, back, box, boxPort, counts>>
           /\ \E q \in Ports, i \in Inodes :
                 /\ port' = [port EXCEPT ![r] = q]
                 /\ fd' = [fd EXCEPT ![r] = i]
                 /\ name' = [name EXCEPT ![q] = i]
                 /\ name[q] \in {NoInode, i}
<1>1. PICK q \in Ports : OpenFile(r, q) /\ port' = [port EXCEPT ![r] = q]
    BY DEF NextAttempt
<1>2. PICK i \in Inodes : /\ fd' = [fd EXCEPT ![r] = i]
                          /\ name' = [name EXCEPT ![q] = i]
                          /\ UNCHANGED <<flock, lost, unlinked>>
                          /\ name[q] \in {NoInode, i}
    BY <1>1, OpenedFile
<1> QED
    BY <1>1, <1>2 DEF NextAttempt, AttemptsLeft, Goto

\* IInv is preserved, one part after another.
LEMMA NextTypeOK == IInv /\ [Next]_vars => TypeOK'
<1> SUFFICES ASSUME TypeOK, Counted, OpenWhileUsed, [Next]_vars
             PROVE  TypeOK'
    BY DEF IInv
<1> USE NamesDiffer, SandboxAssumption
<1> USE DEF TypeOK, LockTypeOK, Counted, OpenWhileUsed, NoPort, Goto, lockVars,
            counts
<1>1. ASSUME NEW r \in Runtimes, Attach(r) PROVE TypeOK'
    BY <1>1 DEF Attach
<1>2. ASSUME NEW r \in Runtimes, InitContainer(r) PROVE TypeOK'
    BY <1>2 DEF InitContainer
<1>3. ASSUME NEW r \in Runtimes, NextAttempt(r) PROVE TypeOK'
    <2>1. PICK q \in Ports, i \in Inodes : /\ port' = [port EXCEPT ![r] = q]
                                           /\ fd' = [fd EXCEPT ![r] = i]
                                           /\ name' = [name EXCEPT ![q] = i]
        BY <1>3, Attempted
    <2>2. /\ tries' = [tries EXCEPT ![r] = @ + 1] /\ tries[r] < budget[r]
          /\ pc' = [pc EXCEPT ![r] = "wait"]
          /\ UNCHANGED <<flock, lost, unlinked, budget, back, box, boxPort, counts>>
        BY <1>3, Attempted
    <2> QED
        BY <2>1, <2>2
<1>4. ASSUME NEW r \in Runtimes, Acquired(r) PROVE TypeOK'
    BY <1>4 DEF Acquired, TakeLock, Lockable
<1>5. ASSUME NEW r \in Runtimes, TimedOut(r) PROVE TypeOK'
    BY <1>5 DEF TimedOut, GiveUp, Lockable
<1>6. ASSUME NEW r \in Runtimes, BindFails(r) PROVE TypeOK'
    BY <1>6 DEF BindFails, Release
<1>7. ASSUME NEW r \in Runtimes, BindSucceeds(r) PROVE TypeOK'
    BY <1>7 DEF BindSucceeds
<1>8. ASSUME NEW r \in Runtimes, DockerUses(r) PROVE TypeOK'
    BY <1>8 DEF DockerUses, Release, FewerAttempts
<1>9. ASSUME NEW r \in Runtimes, PortFound(r) PROVE TypeOK'
    BY <1>9 DEF PortFound
<1>10. ASSUME NEW r \in Runtimes, Fallback(r) PROVE TypeOK'
    BY <1>10 DEF Fallback
<1>11. ASSUME NEW r \in Runtimes, Started(r) PROVE TypeOK'
    BY <1>11 DEF Started
<1>12. ASSUME NEW r \in Runtimes, StartFails(r) PROVE TypeOK'
    BY <1>12 DEF StartFails, CloseTo, Release
<1>13. ASSUME NEW r \in Runtimes, Close(r) PROVE TypeOK'
    BY <1>13 DEF Close, CloseTo, Release
<1>14. ASSUME NEW r \in Runtimes, Delete(r) PROVE TypeOK'
    BY <1>14 DEF Delete
<1>15. ASSUME NEW r \in Runtimes, Release_Unlock(r) PROVE TypeOK'
    BY <1>15 DEF Release_Unlock, Unlock
<1>16. ASSUME NEW r \in Runtimes, Release_Unlink(r) PROVE TypeOK'
    BY <1>16 DEF Release_Unlink, Unlink
<1>17. ASSUME NEW r \in Runtimes, Die(r) PROVE TypeOK'
    BY <1>17 DEF Die, DropLocks
<1>18. ASSUME NEW r \in Runtimes, CheckFails(r) PROVE TypeOK'
    BY <1>18 DEF CheckFails, DockerFails, LoseLock
<1>19. ASSUME NEW r \in Runtimes, RunFails(r) PROVE TypeOK'
    BY <1>19 DEF RunFails, DockerFails, LoseLock, CloseTo, Release
<1>20. ASSUME NEW r \in Runtimes, StopFails(r) PROVE TypeOK'
    BY <1>20 DEF StopFails, DockerFails, LoseLock
<1>21. CASE UNCHANGED vars
    BY <1>21 DEF vars, runVars
<1> QED
    BY <1>1, <1>2, <1>3, <1>4, <1>5, <1>6, <1>7, <1>8, <1>9, <1>10, <1>11,
       <1>12, <1>13, <1>14, <1>15, <1>16, <1>17, <1>18, <1>19, <1>20, <1>21
       DEF Next, Search

LEMMA NextCounted == IInv /\ [Next]_vars => Counted'
<1> SUFFICES ASSUME TypeOK, Counted, [Next]_vars
             PROVE  Counted'
    BY DEF IInv
<1> USE SandboxAssumption
<1> USE DEF TypeOK, Counted, Goto, counts
<1>1. ASSUME NEW r \in Runtimes, Attach(r) PROVE Counted'
    BY <1>1 DEF Attach
<1>2. ASSUME NEW r \in Runtimes, InitContainer(r) PROVE Counted'
    BY <1>2 DEF InitContainer
<1>3. ASSUME NEW r \in Runtimes, NextAttempt(r) PROVE Counted'
    BY <1>3, Attempted
<1>4. ASSUME NEW r \in Runtimes, Acquired(r) PROVE Counted'
    BY <1>4 DEF Acquired, TakeLock, Lockable
<1>5. ASSUME NEW r \in Runtimes, TimedOut(r) PROVE Counted'
    BY <1>5 DEF TimedOut, GiveUp, Lockable
<1>6. ASSUME NEW r \in Runtimes, BindFails(r) PROVE Counted'
    BY <1>6 DEF BindFails, Release
<1>7. ASSUME NEW r \in Runtimes, BindSucceeds(r) PROVE Counted'
    BY <1>7 DEF BindSucceeds
<1>8. ASSUME NEW r \in Runtimes, DockerUses(r) PROVE Counted'
    BY <1>8 DEF DockerUses, Release, FewerAttempts
<1>9. ASSUME NEW r \in Runtimes, PortFound(r) PROVE Counted'
    BY <1>9 DEF PortFound
<1>10. ASSUME NEW r \in Runtimes, Fallback(r) PROVE Counted'
    BY <1>10 DEF Fallback
<1>11. ASSUME NEW r \in Runtimes, Started(r) PROVE Counted'
    BY <1>11 DEF Started
<1>12. ASSUME NEW r \in Runtimes, StartFails(r) PROVE Counted'
    BY <1>12 DEF StartFails, CloseTo, Release
<1>13. ASSUME NEW r \in Runtimes, Close(r) PROVE Counted'
    BY <1>13 DEF Close, CloseTo, Release
<1>14. ASSUME NEW r \in Runtimes, Delete(r) PROVE Counted'
    BY <1>14 DEF Delete
<1>15. ASSUME NEW r \in Runtimes, Release_Unlock(r) PROVE Counted'
    BY <1>15 DEF Release_Unlock, Unlock
<1>16. ASSUME NEW r \in Runtimes, Release_Unlink(r) PROVE Counted'
    BY <1>16 DEF Release_Unlink, Unlink
<1>17. ASSUME NEW r \in Runtimes, Die(r) PROVE Counted'
    BY <1>17 DEF Die, DropLocks
<1>18. ASSUME NEW r \in Runtimes, CheckFails(r) PROVE Counted'
    BY <1>18 DEF CheckFails, DockerFails, LoseLock
<1>19. ASSUME NEW r \in Runtimes, RunFails(r) PROVE Counted'
    BY <1>19 DEF RunFails, DockerFails, LoseLock, CloseTo, Release
<1>20. ASSUME NEW r \in Runtimes, StopFails(r) PROVE Counted'
    BY <1>20 DEF StopFails, DockerFails, LoseLock
<1>21. CASE UNCHANGED vars
    BY <1>21 DEF vars, runVars
<1> QED
    BY <1>1, <1>2, <1>3, <1>4, <1>5, <1>6, <1>7, <1>8, <1>9, <1>10, <1>11,
       <1>12, <1>13, <1>14, <1>15, <1>16, <1>17, <1>18, <1>19, <1>20, <1>21
       DEF Next, Search

LEMMA NextOpen == IInv /\ [Next]_vars => OpenWhileUsed'
<1> SUFFICES ASSUME TypeOK, OpenWhileUsed, [Next]_vars
             PROVE  OpenWhileUsed'
    BY DEF IInv
<1> USE NamesDiffer
<1> USE DEF TypeOK, LockTypeOK, OpenWhileUsed, Goto, lockVars
<1>1. ASSUME NEW r \in Runtimes, Attach(r) PROVE OpenWhileUsed'
    BY <1>1 DEF Attach
<1>2. ASSUME NEW r \in Runtimes, InitContainer(r) PROVE OpenWhileUsed'
    BY <1>2 DEF InitContainer
<1>3. ASSUME NEW r \in Runtimes, NextAttempt(r) PROVE OpenWhileUsed'
    BY <1>3, Attempted
<1>4. ASSUME NEW r \in Runtimes, Acquired(r) PROVE OpenWhileUsed'
    BY <1>4 DEF Acquired, TakeLock, Lockable
<1>5. ASSUME NEW r \in Runtimes, TimedOut(r) PROVE OpenWhileUsed'
    BY <1>5 DEF TimedOut, GiveUp, Lockable
<1>6. ASSUME NEW r \in Runtimes, BindFails(r) PROVE OpenWhileUsed'
    BY <1>6 DEF BindFails, Release
<1>7. ASSUME NEW r \in Runtimes, BindSucceeds(r) PROVE OpenWhileUsed'
    BY <1>7 DEF BindSucceeds
<1>8. ASSUME NEW r \in Runtimes, DockerUses(r) PROVE OpenWhileUsed'
    BY <1>8 DEF DockerUses, Release, FewerAttempts
<1>9. ASSUME NEW r \in Runtimes, PortFound(r) PROVE OpenWhileUsed'
    BY <1>9 DEF PortFound
<1>10. ASSUME NEW r \in Runtimes, Fallback(r) PROVE OpenWhileUsed'
    BY <1>10 DEF Fallback
<1>11. ASSUME NEW r \in Runtimes, Started(r) PROVE OpenWhileUsed'
    BY <1>11 DEF Started
<1>12. ASSUME NEW r \in Runtimes, StartFails(r) PROVE OpenWhileUsed'
    BY <1>12 DEF StartFails, CloseTo, Release
<1>13. ASSUME NEW r \in Runtimes, Close(r) PROVE OpenWhileUsed'
    BY <1>13 DEF Close, CloseTo, Release
<1>14. ASSUME NEW r \in Runtimes, Delete(r) PROVE OpenWhileUsed'
    BY <1>14 DEF Delete
<1>15. ASSUME NEW r \in Runtimes, Release_Unlock(r) PROVE OpenWhileUsed'
    BY <1>15 DEF Release_Unlock, Unlock
<1>16. ASSUME NEW r \in Runtimes, Release_Unlink(r) PROVE OpenWhileUsed'
    BY <1>16 DEF Release_Unlink, Unlink
<1>17. ASSUME NEW r \in Runtimes, Die(r) PROVE OpenWhileUsed'
    BY <1>17 DEF Die, DropLocks
<1>18. ASSUME NEW r \in Runtimes, CheckFails(r) PROVE OpenWhileUsed'
    BY <1>18 DEF CheckFails, DockerFails, LoseLock
<1>19. ASSUME NEW r \in Runtimes, RunFails(r) PROVE OpenWhileUsed'
    BY <1>19 DEF RunFails, DockerFails, LoseLock, CloseTo, Release
<1>20. ASSUME NEW r \in Runtimes, StopFails(r) PROVE OpenWhileUsed'
    BY <1>20 DEF StopFails, DockerFails, LoseLock
<1>21. CASE UNCHANGED vars
    BY <1>21 DEF vars, runVars
<1> QED
    BY <1>1, <1>2, <1>3, <1>4, <1>5, <1>6, <1>7, <1>8, <1>9, <1>10, <1>11,
       <1>12, <1>13, <1>14, <1>15, <1>16, <1>17, <1>18, <1>19, <1>20, <1>21
       DEF Next, Search

LEMMA NextHolder == IInv /\ [Next]_vars => HolderIsRight'
<1> SUFFICES ASSUME TypeOK, OpenWhileUsed, HolderIsRight, [Next]_vars
             PROVE  HolderIsRight'
    BY DEF IInv
<1> USE NamesDiffer
<1> USE DEF TypeOK, LockTypeOK, OpenWhileUsed, HolderIsRight, Holds, Goto,
            lockVars
<1>1. ASSUME NEW r \in Runtimes, Attach(r) PROVE HolderIsRight'
    BY <1>1 DEF Attach
<1>2. ASSUME NEW r \in Runtimes, InitContainer(r) PROVE HolderIsRight'
    BY <1>2 DEF InitContainer
<1>3. ASSUME NEW r \in Runtimes, NextAttempt(r) PROVE HolderIsRight'
    BY <1>3, Attempted
<1>4. ASSUME NEW r \in Runtimes, Acquired(r) PROVE HolderIsRight'
    BY <1>4 DEF Acquired, TakeLock, Lockable
<1>5. ASSUME NEW r \in Runtimes, TimedOut(r) PROVE HolderIsRight'
    BY <1>5 DEF TimedOut, GiveUp, Lockable
<1>6. ASSUME NEW r \in Runtimes, BindFails(r) PROVE HolderIsRight'
    BY <1>6 DEF BindFails, Release
<1>7. ASSUME NEW r \in Runtimes, BindSucceeds(r) PROVE HolderIsRight'
    BY <1>7 DEF BindSucceeds
<1>8. ASSUME NEW r \in Runtimes, DockerUses(r) PROVE HolderIsRight'
    BY <1>8 DEF DockerUses, Release, FewerAttempts
<1>9. ASSUME NEW r \in Runtimes, PortFound(r) PROVE HolderIsRight'
    BY <1>9 DEF PortFound
<1>10. ASSUME NEW r \in Runtimes, Fallback(r) PROVE HolderIsRight'
    BY <1>10 DEF Fallback
<1>11. ASSUME NEW r \in Runtimes, Started(r) PROVE HolderIsRight'
    BY <1>11 DEF Started
<1>12. ASSUME NEW r \in Runtimes, StartFails(r) PROVE HolderIsRight'
    BY <1>12 DEF StartFails, CloseTo, Release
<1>13. ASSUME NEW r \in Runtimes, Close(r) PROVE HolderIsRight'
    BY <1>13 DEF Close, CloseTo, Release
<1>14. ASSUME NEW r \in Runtimes, Delete(r) PROVE HolderIsRight'
    BY <1>14 DEF Delete
<1>15. ASSUME NEW r \in Runtimes, Release_Unlock(r) PROVE HolderIsRight'
    BY <1>15 DEF Release_Unlock, Unlock
<1>16. ASSUME NEW r \in Runtimes, Release_Unlink(r) PROVE HolderIsRight'
    BY <1>16 DEF Release_Unlink, Unlink
<1>17. ASSUME NEW r \in Runtimes, Die(r) PROVE HolderIsRight'
    BY <1>17 DEF Die, DropLocks
<1>18. ASSUME NEW r \in Runtimes, CheckFails(r) PROVE HolderIsRight'
    BY <1>18 DEF CheckFails, DockerFails, LoseLock
<1>19. ASSUME NEW r \in Runtimes, RunFails(r) PROVE HolderIsRight'
    BY <1>19 DEF RunFails, DockerFails, LoseLock, CloseTo, Release
<1>20. ASSUME NEW r \in Runtimes, StopFails(r) PROVE HolderIsRight'
    BY <1>20 DEF StopFails, DockerFails, LoseLock
<1>21. CASE UNCHANGED vars
    BY <1>21 DEF vars, runVars
<1> QED
    BY <1>1, <1>2, <1>3, <1>4, <1>5, <1>6, <1>7, <1>8, <1>9, <1>10, <1>11,
       <1>12, <1>13, <1>14, <1>15, <1>16, <1>17, <1>18, <1>19, <1>20, <1>21
       DEF Next, Search

LEMMA NextName == IInv /\ [Next]_vars => NameIsOpened'
<1> SUFFICES ASSUME TypeOK, OpenWhileUsed, NameIsOpened, [Next]_vars
             PROVE  NameIsOpened'
    BY DEF IInv
<1> USE NamesDiffer
<1> USE DEF TypeOK, LockTypeOK, OpenWhileUsed, NameIsOpened, Goto, lockVars
<1>1. ASSUME NEW r \in Runtimes, Attach(r) PROVE NameIsOpened'
    BY <1>1 DEF Attach
<1>2. ASSUME NEW r \in Runtimes, InitContainer(r) PROVE NameIsOpened'
    BY <1>2 DEF InitContainer
<1>3. ASSUME NEW r \in Runtimes, NextAttempt(r) PROVE NameIsOpened'
    <2>1. PICK q \in Ports, i \in Inodes : /\ port' = [port EXCEPT ![r] = q]
                                           /\ fd' = [fd EXCEPT ![r] = i]
                                           /\ name' = [name EXCEPT ![q] = i]
                                           /\ name[q] \in {NoInode, i}
        BY <1>3, Attempted
    <2>2. unlinked' = unlinked
        BY <1>3, Attempted
    <2> QED
        BY <2>1, <2>2
<1>4. ASSUME NEW r \in Runtimes, Acquired(r) PROVE NameIsOpened'
    BY <1>4 DEF Acquired, TakeLock, Lockable
<1>5. ASSUME NEW r \in Runtimes, TimedOut(r) PROVE NameIsOpened'
    BY <1>5 DEF TimedOut, GiveUp, Lockable
<1>6. ASSUME NEW r \in Runtimes, BindFails(r) PROVE NameIsOpened'
    BY <1>6 DEF BindFails, Release
<1>7. ASSUME NEW r \in Runtimes, BindSucceeds(r) PROVE NameIsOpened'
    BY <1>7 DEF BindSucceeds
<1>8. ASSUME NEW r \in Runtimes, DockerUses(r) PROVE NameIsOpened'
    BY <1>8 DEF DockerUses, Release, FewerAttempts
<1>9. ASSUME NEW r \in Runtimes, PortFound(r) PROVE NameIsOpened'
    BY <1>9 DEF PortFound
<1>10. ASSUME NEW r \in Runtimes, Fallback(r) PROVE NameIsOpened'
    BY <1>10 DEF Fallback
<1>11. ASSUME NEW r \in Runtimes, Started(r) PROVE NameIsOpened'
    BY <1>11 DEF Started
<1>12. ASSUME NEW r \in Runtimes, StartFails(r) PROVE NameIsOpened'
    BY <1>12 DEF StartFails, CloseTo, Release
<1>13. ASSUME NEW r \in Runtimes, Close(r) PROVE NameIsOpened'
    BY <1>13 DEF Close, CloseTo, Release
<1>14. ASSUME NEW r \in Runtimes, Delete(r) PROVE NameIsOpened'
    BY <1>14 DEF Delete
<1>15. ASSUME NEW r \in Runtimes, Release_Unlock(r) PROVE NameIsOpened'
    BY <1>15 DEF Release_Unlock, Unlock
<1>16. ASSUME NEW r \in Runtimes, Release_Unlink(r) PROVE NameIsOpened'
    BY <1>16 DEF Release_Unlink, Unlink
<1>17. ASSUME NEW r \in Runtimes, Die(r) PROVE NameIsOpened'
    BY <1>17 DEF Die, DropLocks
<1>18. ASSUME NEW r \in Runtimes, CheckFails(r) PROVE NameIsOpened'
    BY <1>18 DEF CheckFails, DockerFails, LoseLock
<1>19. ASSUME NEW r \in Runtimes, RunFails(r) PROVE NameIsOpened'
    BY <1>19 DEF RunFails, DockerFails, LoseLock, CloseTo, Release
<1>20. ASSUME NEW r \in Runtimes, StopFails(r) PROVE NameIsOpened'
    BY <1>20 DEF StopFails, DockerFails, LoseLock
<1>21. CASE UNCHANGED vars
    BY <1>21 DEF vars, runVars
<1> QED
    BY <1>1, <1>2, <1>3, <1>4, <1>5, <1>6, <1>7, <1>8, <1>9, <1>10, <1>11,
       <1>12, <1>13, <1>14, <1>15, <1>16, <1>17, <1>18, <1>19, <1>20, <1>21
       DEF Next, Search

LEMMA NextBox == IInv /\ [Next]_vars => BoxFollows'
<1> SUFFICES ASSUME TypeOK, BoxFollows, [Next]_vars
             PROVE  BoxFollows'
    BY DEF IInv
<1> USE DEF TypeOK, BoxFollows, Goto, lockVars
<1>1. ASSUME NEW r \in Runtimes, Attach(r) PROVE BoxFollows'
    BY <1>1 DEF Attach
<1>2. ASSUME NEW r \in Runtimes, InitContainer(r) PROVE BoxFollows'
    BY <1>2 DEF InitContainer
<1>3. ASSUME NEW r \in Runtimes, NextAttempt(r) PROVE BoxFollows'
    BY <1>3, Attempted
<1>4. ASSUME NEW r \in Runtimes, Acquired(r) PROVE BoxFollows'
    BY <1>4 DEF Acquired, TakeLock, Lockable
<1>5. ASSUME NEW r \in Runtimes, TimedOut(r) PROVE BoxFollows'
    BY <1>5 DEF TimedOut, GiveUp, Lockable
<1>6. ASSUME NEW r \in Runtimes, BindFails(r) PROVE BoxFollows'
    BY <1>6 DEF BindFails, Release
<1>7. ASSUME NEW r \in Runtimes, BindSucceeds(r) PROVE BoxFollows'
    BY <1>7 DEF BindSucceeds
<1>8. ASSUME NEW r \in Runtimes, DockerUses(r) PROVE BoxFollows'
    BY <1>8 DEF DockerUses, Release, FewerAttempts
<1>9. ASSUME NEW r \in Runtimes, PortFound(r) PROVE BoxFollows'
    BY <1>9 DEF PortFound
<1>10. ASSUME NEW r \in Runtimes, Fallback(r) PROVE BoxFollows'
    BY <1>10 DEF Fallback
<1>11. ASSUME NEW r \in Runtimes, Started(r) PROVE BoxFollows'
    BY <1>11 DEF Started
<1>12. ASSUME NEW r \in Runtimes, StartFails(r) PROVE BoxFollows'
    BY <1>12 DEF StartFails, CloseTo, Release
<1>13. ASSUME NEW r \in Runtimes, Close(r) PROVE BoxFollows'
    BY <1>13 DEF Close, CloseTo, Release
<1>14. ASSUME NEW r \in Runtimes, Delete(r) PROVE BoxFollows'
    BY <1>14 DEF Delete
<1>15. ASSUME NEW r \in Runtimes, Release_Unlock(r) PROVE BoxFollows'
    BY <1>15 DEF Release_Unlock, Unlock
<1>16. ASSUME NEW r \in Runtimes, Release_Unlink(r) PROVE BoxFollows'
    BY <1>16 DEF Release_Unlink, Unlink
<1>17. ASSUME NEW r \in Runtimes, Die(r) PROVE BoxFollows'
    BY <1>17 DEF Die, DropLocks
<1>18. ASSUME NEW r \in Runtimes, CheckFails(r) PROVE BoxFollows'
    BY <1>18 DEF CheckFails, DockerFails, LoseLock
<1>19. ASSUME NEW r \in Runtimes, RunFails(r) PROVE BoxFollows'
    BY <1>19 DEF RunFails, DockerFails, LoseLock, CloseTo, Release
<1>20. ASSUME NEW r \in Runtimes, StopFails(r) PROVE BoxFollows'
    BY <1>20 DEF StopFails, DockerFails, LoseLock
<1>21. CASE UNCHANGED vars
    BY <1>21 DEF vars, runVars
<1> QED
    BY <1>1, <1>2, <1>3, <1>4, <1>5, <1>6, <1>7, <1>8, <1>9, <1>10, <1>11,
       <1>12, <1>13, <1>14, <1>15, <1>16, <1>17, <1>18, <1>19, <1>20, <1>21
       DEF Next, Search

LEMMA NextLost == IInv /\ [Next]_vars => LostByErrors'
<1> SUFFICES ASSUME TypeOK, LostByErrors, [Next]_vars
             PROVE  LostByErrors'
    BY DEF IInv
<1> USE DEF TypeOK, LostByErrors, Goto, lockVars, counts
<1>1. ASSUME NEW r \in Runtimes, Attach(r) PROVE LostByErrors'
    BY <1>1 DEF Attach
<1>2. ASSUME NEW r \in Runtimes, InitContainer(r) PROVE LostByErrors'
    BY <1>2 DEF InitContainer
<1>3. ASSUME NEW r \in Runtimes, NextAttempt(r) PROVE LostByErrors'
    BY <1>3, Attempted
<1>4. ASSUME NEW r \in Runtimes, Acquired(r) PROVE LostByErrors'
    BY <1>4 DEF Acquired, TakeLock, Lockable
<1>5. ASSUME NEW r \in Runtimes, TimedOut(r) PROVE LostByErrors'
    BY <1>5 DEF TimedOut, GiveUp, Lockable
<1>6. ASSUME NEW r \in Runtimes, BindFails(r) PROVE LostByErrors'
    BY <1>6 DEF BindFails, Release
<1>7. ASSUME NEW r \in Runtimes, BindSucceeds(r) PROVE LostByErrors'
    BY <1>7 DEF BindSucceeds
<1>8. ASSUME NEW r \in Runtimes, DockerUses(r) PROVE LostByErrors'
    BY <1>8 DEF DockerUses, Release, FewerAttempts
<1>9. ASSUME NEW r \in Runtimes, PortFound(r) PROVE LostByErrors'
    BY <1>9 DEF PortFound
<1>10. ASSUME NEW r \in Runtimes, Fallback(r) PROVE LostByErrors'
    BY <1>10 DEF Fallback
<1>11. ASSUME NEW r \in Runtimes, Started(r) PROVE LostByErrors'
    BY <1>11 DEF Started
<1>12. ASSUME NEW r \in Runtimes, StartFails(r) PROVE LostByErrors'
    BY <1>12 DEF StartFails, CloseTo, Release
<1>13. ASSUME NEW r \in Runtimes, Close(r) PROVE LostByErrors'
    BY <1>13 DEF Close, CloseTo, Release
<1>14. ASSUME NEW r \in Runtimes, Delete(r) PROVE LostByErrors'
    BY <1>14 DEF Delete
<1>15. ASSUME NEW r \in Runtimes, Release_Unlock(r) PROVE LostByErrors'
    BY <1>15 DEF Release_Unlock, Unlock
<1>16. ASSUME NEW r \in Runtimes, Release_Unlink(r) PROVE LostByErrors'
    BY <1>16 DEF Release_Unlink, Unlink
<1>17. ASSUME NEW r \in Runtimes, Die(r) PROVE LostByErrors'
    BY <1>17 DEF Die, DropLocks
<1>18. ASSUME NEW r \in Runtimes, CheckFails(r) PROVE LostByErrors'
    BY <1>18 DEF CheckFails, DockerFails, LoseLock
<1>19. ASSUME NEW r \in Runtimes, RunFails(r) PROVE LostByErrors'
    BY <1>19 DEF RunFails, DockerFails, LoseLock, CloseTo, Release
<1>20. ASSUME NEW r \in Runtimes, StopFails(r) PROVE LostByErrors'
    BY <1>20 DEF StopFails, DockerFails, LoseLock
<1>21. CASE UNCHANGED vars
    BY <1>21 DEF vars, runVars
<1> QED
    BY <1>1, <1>2, <1>3, <1>4, <1>5, <1>6, <1>7, <1>8, <1>9, <1>10, <1>11,
       <1>12, <1>13, <1>14, <1>15, <1>16, <1>17, <1>18, <1>19, <1>20, <1>21
       DEF Next, Search

LEMMA NextIInv == IInv /\ [Next]_vars => IInv'
BY NextTypeOK, NextCounted, NextOpen, NextHolder, NextName, NextBox, NextLost
   DEF IInv

LEMMA Invariance == Spec => []IInv
BY InitIInv, NextIInv, PTL DEF Spec

\* Every variable keeps its type: the attempts of a search stay within their
\* budget (port_lock.py:161, 181).
THEOREM TypeCorrect == Spec => []TypeOK
BY Invariance, PTL DEF IInv

\* Two holders of one port's lock have the same file open, which has one holder.
LEMMA Exclusion == IInv => ExclusiveUntilRelease
<1> SUFFICES ASSUME IInv,
                    NEW r \in Runtimes, NEW s \in Runtimes,
                    Holds(r), Holds(s), r # s, port[r] = port[s],
                    port[r] \notin unlinked
             PROVE  FALSE
    BY DEF ExclusiveUntilRelease
<1>1. fd[r] # NoInode /\ fd[s] # NoInode
    BY DEF IInv, OpenWhileUsed, Holds
<1>2. fd[r] = fd[s]
    BY <1>1 DEF IInv, NameIsOpened
<1> QED
    BY <1>2 DEF IInv, HolderIsRight

\* Until a runtime releases the lock of a port and removes its file, no two
\* runtimes hold the lock of that port (port_lock.py:37-120).
THEOREM LockExcludes == Spec => []ExclusiveUntilRelease
BY Exclusion, Invariance, PTL

\* A lock that is held is in the hand of a runtime that will release it: no
\* path of the search or of close forgets one (docker_runtime.py:715-720), but
\* for a request to docker that raises (docker_runtime.py:670).
THEOREM LocksAreReturned == Spec => []NoLeakedLock
<1>1. IInv => NoLeakedLock
    BY DEF IInv, HolderIsRight, OpenWhileUsed, LostByErrors, NoLeakedLock
<1> QED
    BY <1>1, Invariance, PTL

\* When a container with a locked port cannot start, the port is used by a
\* sandbox without a lock, or its lock was released by somebody before: the
\* locks alone never let two sandboxes meet (docker_runtime.py:682-723).
THEOREM ConflictsAreExplained == Spec => ConflictIsExplained
<1> DEFINE Explained(r) ==
        \/ port[r] \in unlinked
        \/ \E s \in Runtimes \ {r} :
              box[s] = "running" /\ boxPort[s] = port[r] /\ fd[s] = NoInode
<1>1. ASSUME IInv, NEW r \in Runtimes, StartFails(r), fd[r] # NoInode
      PROVE  Explained(r)
    <2> HIDE DEF Explained
    <2>1. pc[r] = "start" /\ box[r] = "none" /\ Holds(r)
        BY <1>1 DEF StartFails, IInv, BoxFollows, Holds
    <2>2. PICK s \in Runtimes : box[s] = "running" /\ boxPort[s] = port[r]
        BY <1>1 DEF StartFails, InUse
    <2>3. s # r
        BY <2>1, <2>2
    <2>4. CASE fd[s] = NoInode
        BY <2>2, <2>3, <2>4 DEF Explained
    <2>5. CASE fd[s] # NoInode
        <3>1. pc[s] = "up"
            BY <1>1, <2>2, <2>5 DEF IInv, TypeOK, OpenWhileUsed, BoxFollows
        <3>2. Holds(s) /\ port[s] = port[r]
            BY <1>1, <2>2, <2>5, <3>1 DEF IInv, BoxFollows, Holds
        <3> QED
            BY <1>1, <2>1, <2>3, <3>2, Exclusion
               DEF ExclusiveUntilRelease, Explained
    <2> QED
        BY <2>4, <2>5
<1>2. IInv => [\A r \in Runtimes :
         StartFails(r) /\ fd[r] # NoInode
            => \/ port[r] \in unlinked
               \/ \E s \in Runtimes \ {r} :
                     /\ box[s] = "running" /\ boxPort[s] = port[r]
                     /\ fd[s] = NoInode]_vars
    BY <1>1
<1> QED
    BY <1>2, Invariance, PTL DEF ConflictIsExplained
=============================================================================
