------------------------------ MODULE PortLock ------------------------------
(***************************************************************************)
(* openhands/runtime/utils/port_lock.py on a system with fcntl: one lock   *)
(* file per port, flock() on the open file, and a release that unlocks,    *)
(* closes and then removes the file by its name.                           *)
(*                                                                         *)
(* A file that is open keeps its inode when its name is removed; opening   *)
(* the name again creates another inode.  flock() locks the inode.         *)
(***************************************************************************)
EXTENDS Integers

CONSTANTS Runtimes,     \* runtime objects, in one or several processes
          NoRuntime,    \* the holder of a free lock
          MinPort, MaxPort,
          NInodes       \* bound: inodes of the file system of the lock files

Ports == MinPort..MaxPort
Inodes == 1..NInodes
NoInode == 0            \* lock_fd is None; the port has no lock file

ASSUME PortLockAssumption ==
    /\ NoRuntime \notin Runtimes
    /\ MinPort \in Nat \ {0} /\ MaxPort \in Nat /\ MinPort <= MaxPort
    /\ NInodes \in Nat

VARIABLES name,      \* the inode each lock file path names
          flock,     \* the holder of the exclusive lock on each inode
          fd,        \* lock_fd of each runtime: the inode it has open
          lost,      \* inodes its process has open in a PortLock nobody knows
          unlinked   \* history: the ports whose lock file was ever removed

lockVars == <<name, flock, fd, lost, unlinked>>

LockTypeOK ==
    /\ name \in [Ports -> Inodes \cup {NoInode}]
    /\ flock \in [Inodes -> Runtimes \cup {NoRuntime}]
    /\ fd \in [Runtimes -> Inodes \cup {NoInode}]
    /\ lost \in [Runtimes -> SUBSET Inodes]
    /\ unlinked \subseteq Ports

LockInit ==
    /\ name = [q \in Ports |-> NoInode]
    /\ flock = [i \in Inodes |-> NoRuntime]
    /\ fd = [r \in Runtimes |-> NoInode]
    /\ lost = [r \in Runtimes |-> {}]
    /\ unlinked = {}

Used(i) == \/ \E q \in Ports : name[q] = i
           \/ \E r \in Runtimes : fd[r] = i \/ i \in lost[r]

\* os.open(O_CREAT | O_TRUNC): the file that has the name, or a new one.
OpenFile(r, q) ==
    /\ IF name[q] # NoInode
       THEN /\ fd' = [fd EXCEPT ![r] = name[q]]
            /\ name' = name
       ELSE \E i \in Inodes :
              /\ ~Used(i) /\ \A j \in Inodes : ~Used(j) => i <= j
              /\ fd' = [fd EXCEPT ![r] = i]
              /\ name' = [name EXCEPT ![q] = i]
    /\ UNCHANGED <<flock, lost, unlinked>>

\* flock(LOCK_EX | LOCK_NB) may succeed; the mutant asks for a shared lock.
Lockable_Shared(r) == TRUE
Lockable(r) == flock[fd[r]] = NoRuntime

\* flock succeeds: _locked.
TakeLock(r) ==
    /\ Lockable(r)
    /\ flock' = [flock EXCEPT ![fd[r]] = r]
    /\ UNCHANGED <<name, fd, lost, unlinked>>

\* The lock was held by others until the timeout: the file is closed.
GiveUp(r) ==
    /\ ~Lockable(r)
    /\ fd' = [fd EXCEPT ![r] = NoInode]
    /\ UNCHANGED <<name, flock, lost, unlinked>>

\* release: flock(LOCK_UN) and os.close.
Unlock(r) ==
    /\ flock' = [flock EXCEPT ![fd[r]] = NoRuntime]
    /\ fd' = [fd EXCEPT ![r] = NoInode]
    /\ UNCHANGED <<name, lost, unlinked>>

\* release: os.unlink of the path, whatever file it names by now.
Unlink(q) ==
    /\ name' = [name EXCEPT ![q] = NoInode]
    /\ unlinked' = unlinked \cup {q}
    /\ UNCHANGED <<flock, fd, lost>>

\* An exception drops the PortLock, which has no finalizer: its descriptor is a
\* number, and stays open and locked.
LoseLock(r) ==
    /\ lost' = [lost EXCEPT ![r] = @ \cup ({fd[r]} \ {NoInode})]
    /\ fd' = [fd EXCEPT ![r] = NoInode]
    /\ UNCHANGED <<name, flock, unlinked>>

\* The kernel closes the files of a process that died, and drops its locks.
DropLocks(r) ==
    /\ flock' = [i \in Inodes |-> IF flock[i] = r THEN NoRuntime ELSE flock[i]]
    /\ fd' = [fd EXCEPT ![r] = NoInode]
    /\ lost' = [lost EXCEPT ![r] = {}]
    /\ UNCHANGED <<name, unlinked>>
=============================================================================
