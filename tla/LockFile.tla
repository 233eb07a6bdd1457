------------------------------ MODULE LockFile ------------------------------
(***************************************************************************)
(* bb.utils.lockfile and unlockfile: a lock on a path, made of a file that *)
(* is created on demand, flock()ed, and unlinked when the lock is given    *)
(* back.  build.exec_func holds such locks around a task's function,       *)
(* fetch.go around a download, packaged-staging around the staging area.   *)
(* A process can die anywhere; the shell it has started inherits the open  *)
(* file, and with it the lock, and can live on.                            *)
(***************************************************************************)
CONSTANTS
    Proc,       \* processes that use the lock
    Inode,      \* inodes of the file system
    None        \* no process, no inode

ASSUME NoneAssumption == None \notin Proc /\ None \notin Inode

VARIABLES
    pc,         \* [Proc -> next statement of lockfile / unlockfile]
    disk,       \* the inode the path names, or None
    fd,         \* [Proc -> inode of the file object lf, or None]
    flock       \* [Inode -> process whose open file holds the flock, or None]

vars == <<pc, disk, fd, flock>>

Goto(p, there) == pc' = [pc EXCEPT ![p] = there]

\* An inode is free once no name and no open file refers to it.
FreeInode(i) == i # disk /\ \A p \in Proc : fd[p] # i

\* Closing an open file gives back its flock.
Closed(p) == [i \in Inode |-> IF flock[i] = p THEN None ELSE flock[i]]

Init ==
    /\ pc = [p \in Proc |-> "out"]
    /\ disk = None
    /\ fd = [p \in Proc |-> None]
    /\ flock = [i \in Inode |-> None]

Request(p) ==
    /\ pc[p] = "out"
    /\ Goto(p, "open")
    /\ UNCHANGED <<disk, fd, flock>>

\* lf = open(name, "a+") creates the file when the path names none.  On a
\* retry the file of the attempt before is closed by the assignment only
\* ("lf.close" is not a call).
Open(p) ==
    /\ pc[p] = "open"
    /\ \E i \in Inode :
          /\ i = disk \/ (disk = None /\ FreeInode(i))
          /\ disk' = i
          /\ fd' = [fd EXCEPT ![p] = i]
    /\ flock' = Closed(p)
    /\ Goto(p, "flock")

Flock(p) ==
    /\ pc[p] = "flock"
    /\ flock[fd[p]] = None
    /\ flock' = [flock EXCEPT ![fd[p]] = p]
    /\ Goto(p, "exists")
    /\ UNCHANGED <<disk, fd>>

\* Mutant: when the file is gone the old one is locked again.
ExistsRelock(p) ==
    /\ pc[p] = "exists"
    /\ Goto(p, IF disk # None THEN "stat" ELSE "flock")
    /\ UNCHANGED <<disk, fd, flock>>

\* fstat of the locked file, then os.path.exists(lf.name).
Exists(p) ==
    /\ pc[p] = "exists"
    /\ Goto(p, IF disk # None THEN "stat" ELSE "open")
    /\ UNCHANGED <<disk, fd, flock>>

\* Mutant: the inode is not compared, as if existing were enough.
StatExists(p) ==
    /\ pc[p] = "stat"
    /\ Goto(p, IF disk # None THEN "in" ELSE "open")
    /\ UNCHANGED <<disk, fd, flock>>

\* os.stat(lf.name) raises when the file is gone by now; a file that is not
\* the locked one means another attempt.
Stat(p) ==
    /\ pc[p] = "stat"
    /\ Goto(p, IF disk = fd[p] THEN "in" ELSE "open")
    /\ UNCHANGED <<disk, fd, flock>>

\* unlockfile: os.unlink(lf.name), then LOCK_UN.
Unlink(p) ==
    /\ pc[p] = "in"
    /\ disk' = None
    /\ Goto(p, "unlock")
    /\ UNCHANGED <<fd, flock>>

Unlock(p) ==
    /\ pc[p] = "unlock"
    /\ flock' = Closed(p)
    /\ fd' = [fd EXCEPT ![p] = None]
    /\ Goto(p, "out")
    /\ UNCHANGED disk

\* The process dies, or its function raises and it exits without unlockfile.
\* The lock file stays behind.  (In "unlock" dying and going on come to the
\* same.)
Crash(p) ==
    /\ pc[p] \notin {"out", "unlock", "orphan"}
    /\ fd' = [fd EXCEPT ![p] = None]
    /\ flock' = Closed(p)
    /\ Goto(p, "out")
    /\ UNCHANGED disk

\* It dies while a shell it started goes on with the protected work.
CrashLeavingShell(p) ==
    /\ pc[p] = "in"
    /\ Goto(p, "orphan")
    /\ UNCHANGED <<disk, fd, flock>>

ShellExits(p) ==
    /\ pc[p] = "orphan"
    /\ fd' = [fd EXCEPT ![p] = None]
    /\ flock' = Closed(p)
    /\ Goto(p, "out")
    /\ UNCHANGED disk

Proceed(p) == Open(p) \/ Flock(p) \/ Exists(p) \/ Stat(p) \/ Unlink(p) \/ Unlock(p) \/ ShellExits(p)

Next == \E p \in Proc : Request(p) \/ Proceed(p) \/ Crash(p) \/ CrashLeavingShell(p)

Spec == Init /\ [][Next]_vars

\* A process that can go on does: protected work ends, and the kernel gives a
\* free flock to somebody.
FairSpec == Spec /\ \A p \in Proc : WF_vars(Proceed(p))
-----------------------------------------------------------------------------
Points == {"out", "open", "flock", "exists", "stat", "in", "unlock", "orphan"}

TypeOK ==
    /\ pc \in [Proc -> Points]
    /\ disk \in Inode \cup {None}
    /\ fd \in [Proc -> Inode \cup {None}]
    /\ flock \in [Inode -> Proc \cup {None}]

Inside == {p \in Proc : pc[p] \in {"in", "orphan"}}

\* At most one process at a time works under the lock, although the file is
\* unlinked and created again and processes hold flocks on old files.
MutualExclusion == \A p, q \in Inside : p = q

Trying == {p \in Proc : pc[p] \in {"open", "flock", "exists", "stat"}}

\* Once processes have stopped dying, whenever somebody asks for the lock
\* somebody gets it: neither the retries after an unlink nor the files and
\* flocks of the dead block everyone.  (Not everybody gets it: the comment in
\* lockfile calls it unfair.)
SomebodyEnters ==
    <>[][\A p \in Proc : ~Crash(p)]_vars => (Trying # {} ~> (Inside # {} \/ Trying = {}))
=============================================================================
