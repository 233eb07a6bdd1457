--------------------------- MODULE LockFileProofs ---------------------------
(***************************************************************************)
(* Proofs about lockfile, for any number of processes and inodes.          *)
(***************************************************************************)
EXTENDS LockFile, TLAPS

\* A process that came back from flock holds the flock of the file it has open
\* until it closes it, and one that works under the lock has the file the path
\* names open.  Two of them would hold one flock.
LockInv ==
    /\ TypeOK
    /\ \A p \in Proc : pc[p] \in {"flock", "exists", "stat", "in", "unlock", "orphan"} =>
                          fd[p] \in Inode
    /\ \A p \in Proc : pc[p] \in {"exists", "stat", "in", "orphan"} => flock[fd[p]] = p
    /\ \A p \in Inside : disk = fd[p]

LEMMA LockExclusion == LockInv => MutualExclusion
  BY DEF LockInv, MutualExclusion, Inside

LEMMA LockInit == Init => LockInv
  BY NoneAssumption DEF Init, LockInv, TypeOK, Points, Inside

LEMMA LockNext == LockInv /\ [Next]_vars => LockInv'
<1> SUFFICES ASSUME LockInv, [Next]_vars PROVE LockInv'
  OBVIOUS
<1> USE NoneAssumption DEF LockInv, TypeOK, Points, Inside, Goto
<1>1. CASE UNCHANGED vars
  BY <1>1 DEF vars
<1>2. ASSUME NEW p \in Proc, Request(p) PROVE LockInv'
  BY <1>2 DEF Request
<1>3. ASSUME NEW p \in Proc, Open(p) PROVE LockInv'
  BY <1>3 DEF Open, Closed
<1>4. ASSUME NEW p \in Proc, Flock(p) PROVE LockInv'
  BY <1>4 DEF Flock
<1>5. ASSUME NEW p \in Proc, Exists(p) PROVE LockInv'
  BY <1>5 DEF Exists
<1>6. ASSUME NEW p \in Proc, Stat(p) PROVE LockInv'
  BY <1>6 DEF Stat
<1>7. ASSUME NEW p \in Proc, Unlink(p) PROVE LockInv'
  BY <1>7, LockExclusion DEF Unlink, MutualExclusion
<1>8. ASSUME NEW p \in Proc, Unlock(p) PROVE LockInv'
  BY <1>8 DEF Unlock, Closed
<1>9. ASSUME NEW p \in Proc, Crash(p) PROVE LockInv'
  BY <1>9 DEF Crash, Closed
<1>10. ASSUME NEW p \in Proc, CrashLeavingShell(p) PROVE LockInv'
  BY <1>10 DEF CrashLeavingShell
<1>11. ASSUME NEW p \in Proc, ShellExits(p) PROVE LockInv'
  BY <1>11 DEF ShellExits, Closed
<1> QED
  BY <1>1, <1>2, <1>3, <1>4, <1>5, <1>6, <1>7, <1>8, <1>9, <1>10, <1>11 DEF Next, Proceed

LEMMA LockInvHolds == Spec => []LockInv
  BY LockInit, LockNext, PTL DEF Spec

\* Whatever dies and whoever unlinks, at most one process works under the lock.
THEOREM LockIsExclusive == Spec => []MutualExclusion
  BY LockExclusion, LockInvHolds, PTL
=============================================================================
