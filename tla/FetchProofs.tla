---------------------------- MODULE FetchProofs ----------------------------
(***************************************************************************)
(* Proofs about bb.fetch.go, for any tasks, URLs, mirrors, deaths and      *)
(* number of executions.                                                   *)
(***************************************************************************)
EXTENDS Fetch, TLAPS

\* From the lock on, its holder is at work on a file that has no stamp.
Working == {"wget", "fetching", "access", "clone", "refs", "readtree", "checkout", "tar", "taring",
            "md5", "orphan"}

FetchInv ==
    /\ TypeOK
    /\ \A t \in Task : pc[t] \in Working \cup {"lock", "unlock"} => url[t] \in File
    /\ \A t \in Task : pc[t] \in Working \cup {"unlock"} => holder[url[t]] = t
    /\ \A t \in Task : pc[t] \in Working => ~stamp[url[t]]
    /\ \A t \in Task : pc[t] \in Working \ {"wget", "fetching", "md5", "orphan"} => url[t] \in Git
    /\ \A t \in Task : pc[t] = "refs" => refs[MyRepo(t)] \in SUBSET Git

\* What most steps need of the constants: not Md5 and Listed.
LEMMA Constants ==
    /\ Git \subseteq File
    /\ Wants \in [Task -> SUBSET File]
    /\ Sites \in Nat \ {0}
    /\ BadSites \subseteq 1..Sites
    /\ MaxTries \in Nat \ {0}
    /\ None \notin Task \cup File
  BY FetchAssumption

LEMMA BrokenType == ASSUME NEW c \in Content, NEW s PROVE Broken(c, s) \subseteq Content
  BY DEF Broken, Content

LEMMA GotType == ASSUME NEW c \in Content, NEW s PROVE Got(c, s) \in {"good", "bad"}
  BY DEF Got, Content

LEMMA FetchInit == Init => FetchInv
  BY Constants DEF Init, FetchInv, TypeOK, Working, Content, Repos, Git

LEMMA FetchNext == FetchInv /\ [Next]_vars => FetchInv'
<1> SUFFICES ASSUME FetchInv, [Next]_vars PROVE FetchInv'
  OBVIOUS
<1> USE Constants DEF FetchInv, TypeOK, Working, Goto, MyRepo
<1>1. CASE UNCHANGED vars
  BY <1>1 DEF vars, gitVars
<1>2. ASSUME NEW t \in Task, NextUrl(t) PROVE FetchInv'
  BY <1>2 DEF NextUrl, gitVars
<1>3. ASSUME NEW t \in Task, LockUrl(t) PROVE FetchInv'
  BY <1>3 DEF LockUrl, gitVars
<1>4. ASSUME NEW t \in Task, WriteMd5sum(t) PROVE FetchInv'
  <2>1. CASE url[t] \in Md5[t] /\ file[url[t]] # "good"
    BY <1>4, <2>1 DEF WriteMd5sum, Fail, Released, gitVars
  <2>2. CASE ~(url[t] \in Md5[t] /\ file[url[t]] # "good")
    <3>1. /\ pc' = [pc EXCEPT ![t] = "unlock"] /\ stamp' = [stamp EXCEPT ![url[t]] = TRUE]
          /\ UNCHANGED <<todo, url, site, tries, holder, file, refs, index, codir>>
      BY <1>4, <2>2 DEF WriteMd5sum, gitVars
    <3>2. pc[t] = "md5"
      BY <1>4 DEF WriteMd5sum
    <3>3. \A u \in Task : u # t /\ pc'[u] \in Working => url[u] # url[t]
      BY <3>1, <3>2
    <3>4. \A u \in Task : pc'[u] \in Working => ~stamp'[url'[u]]
      BY <3>1, <3>2, <3>3
    <3>5. TypeOK'
      BY <3>1, <3>2
    <3> QED
      BY <3>1, <3>2, <3>4, <3>5
  <2> QED
    BY <2>1, <2>2
<1>5. ASSUME NEW t \in Task, UnlockUrl(t) PROVE FetchInv'
  BY <1>5 DEF UnlockUrl, Released, gitVars
<1>6. ASSUME NEW t \in Task, CheckSums(t) PROVE FetchInv'
  BY <1>6 DEF CheckSums, gitVars
<1>7. ASSUME NEW t \in Task, StartCommand(t) PROVE FetchInv'
  BY <1>7 DEF StartCommand, gitVars
<1>8. ASSUME NEW t \in Task, FetchUriSucceeds(t) PROVE FetchInv'
  BY <1>8, GotType DEF FetchUriSucceeds, Content, gitVars
<1>9. ASSUME NEW t \in Task, FetchUriFails(t) PROVE FetchInv'
  BY <1>9, BrokenType DEF FetchUriFails, MoreSites, Fail, Released, gitVars
<1>10. ASSUME NEW t \in Task, GitAccess(t) PROVE FetchInv'
  BY <1>10 DEF GitAccess, MyRepo, Repos, gitVars
<1>11. ASSUME NEW t \in Task, GitClone(t) PROVE FetchInv'
  <2>1. url[t] \in Git /\ MyRepo(t) \in Repos
    BY <1>11 DEF GitClone, Repos
  <2>2. ASSUME NEW have \in SUBSET Url(MyRepo(t)), pc' = [pc EXCEPT ![t] = "refs"],
               refs' = [refs EXCEPT ![MyRepo(t)] = have], UNCHANGED holder
        PROVE  FetchInv'
    <3>1. have \in SUBSET Git
      BY DEF Url
    <3>2. TypeOK'
      BY <1>11, <2>1, <2>2, <3>1 DEF GitClone
    <3>3. \A u \in Task : pc'[u] = "refs" => refs'[MyRepo(u)] \in SUBSET Git
      BY <1>11, <2>1, <2>2, <3>1 DEF GitClone, Repos
    <3>4. UNCHANGED <<url, stamp>> /\ pc[t] = "clone"
      BY <1>11 DEF GitClone
    <3> QED
      BY <2>2, <3>2, <3>3, <3>4
  <2>3. ASSUME Fail(t), UNCHANGED refs PROVE FetchInv'
    BY <1>11, <2>3 DEF GitClone, Fail, Released
  <2> QED
    BY <1>11, <2>2, <2>3 DEF GitClone
<1>12. ASSUME NEW t \in Task, GitRefs(t) PROVE FetchInv'
  <2>1. url[t] \in Git /\ MyRepo(t) \in Repos
    BY <1>12 DEF GitRefs, MyRepo, Repos
  <2>2. codir' \in [Git -> File \cup {None}]
    BY <1>12 DEF GitRefs
  <2>3. refs' \in {refs, WithTag(t)}
    BY <1>12 DEF GitRefs
  <2>4. WithTag(t) \in [Repos -> (SUBSET Git) \cup {None}]
    <3>1. refs[MyRepo(t)] \cup {url[t]} \subseteq Git
      BY <1>12, <2>1 DEF GitRefs
    <3> QED
      BY <3>1 DEF WithTag
  <2>5. refs' \in [Repos -> (SUBSET Git) \cup {None}]
    BY <2>3, <2>4
  <2>6. ASSUME NEW r \in Repos, refs[r] \in SUBSET Git PROVE refs'[r] \in SUBSET Git
    <3>1. CASE r = MyRepo(t)
      BY <2>1, <2>3, <2>6, <3>1 DEF WithTag
    <3>2. CASE r # MyRepo(t)
      BY <2>3, <2>6, <3>2 DEF WithTag
    <3> QED
      BY <3>1, <3>2
  <2>7. UNCHANGED <<url, stamp, todo, site, tries, file, index>> /\ pc[t] = "refs"
    BY <1>12 DEF GitRefs
  <2>8. \A u \in Task : pc[u] = "refs" => refs'[MyRepo(u)] \in SUBSET Git
    BY <2>6 DEF Repos
  <2>9. CASE pc' = [pc EXCEPT ![t] = "readtree"] /\ UNCHANGED holder
    BY <2>2, <2>5, <2>7, <2>8, <2>9
  <2>10. CASE Fail(t)
    BY <2>2, <2>5, <2>7, <2>8, <2>10 DEF Fail, Released
  <2> QED
    BY <1>12, <2>9, <2>10 DEF GitRefs
<1>13. ASSUME NEW t \in Task, GitReadTree(t) PROVE FetchInv'
  <2>1. url[t] \in File /\ pc[t] = "readtree"
        /\ UNCHANGED <<todo, url, site, tries, file, stamp, refs>>
    BY <1>13 DEF GitReadTree
  <2>2. codir' \in [Git -> File \cup {None}] /\ index' \in [Repos -> File \cup {None}]
    BY <1>13, <2>1 DEF GitReadTree
  <2>3. CASE pc' = [pc EXCEPT ![t] = "checkout"] /\ UNCHANGED holder
    BY <2>1, <2>2, <2>3
  <2>4. CASE Fail(t)
    BY <2>1, <2>2, <2>4 DEF Fail, Released
  <2> QED
    BY <1>13, <2>3, <2>4 DEF GitReadTree
<1>14. ASSUME NEW t \in Task, GitCheckout(t) PROVE FetchInv'
  <2>1. url[t] \in File /\ pc[t] = "checkout"
        /\ UNCHANGED <<todo, url, site, tries, file, stamp, refs, index>>
    BY <1>14 DEF GitCheckout
  <2>2. codir' \in [Git -> File \cup {None}]
    BY <1>14, <2>1 DEF GitCheckout, Repos
  <2>3. CASE pc' = [pc EXCEPT ![t] = "tar"] /\ UNCHANGED holder
    BY <2>1, <2>2, <2>3
  <2>4. CASE Fail(t)
    BY <2>1, <2>2, <2>4 DEF Fail, Released
  <2> QED
    BY <1>14, <2>3, <2>4 DEF GitCheckout
<1>15. ASSUME NEW t \in Task, GitTar(t) PROVE FetchInv'
  BY <1>15 DEF GitTar, Content, Fail, Released, gitVars
<1>16. ASSUME NEW t \in Task, GitTarEnds(t) PROVE FetchInv'
  BY <1>16 DEF GitTarEnds, Content, Fail, Released
<1>17. ASSUME NEW t \in Task, OrphanEnds(t) PROVE FetchInv'
  BY <1>17, BrokenType, GotType DEF OrphanEnds, Content, Fail, Released, gitVars
<1>18. ASSUME NEW t \in Task, Kill(t) PROVE FetchInv'
  BY <1>18, BrokenType DEF Kill, Fail, Released, gitVars
<1>19. ASSUME NEW t \in Task, KillLeavingWget(t) PROVE FetchInv'
  BY <1>19 DEF KillLeavingWget, gitVars
<1>20. ASSUME NEW t \in Task, Again(t) PROVE FetchInv'
  BY <1>20 DEF Again, gitVars
<1> QED
  BY <1>1, <1>2, <1>3, <1>4, <1>5, <1>6, <1>7, <1>8, <1>9, <1>10, <1>11, <1>12, <1>13, <1>14,
     <1>15, <1>16, <1>17, <1>18, <1>19, <1>20 DEF Next, Works

LEMMA FetchInvHolds == Spec => []FetchInv
  BY FetchInit, FetchNext, PTL DEF Spec

\* The steps of do_fetch, the locks and the files of DL_DIR keep their types.
THEOREM FetchTypeCorrect == Spec => []TypeOK
<1>1. FetchInv => TypeOK
  BY DEF FetchInv
<1> QED
  BY <1>1, FetchInvHolds, PTL

\* However many tasks want a file and whatever dies, one command at a time
\* writes it.
THEOREM OneWriterHolds == Spec => []OneWriter
<1>1. FetchInv => OneWriter
  BY DEF FetchInv, OneWriter, Writing, Working
<1> QED
  BY <1>1, FetchInvHolds, PTL

\* What has a stamp is never downloaded again.
THEOREM NoSecondDownloadHolds == Spec => NoSecondDownload
<1>1. FetchInv /\ [Next]_vars =>
        [\A t \in Task : pc[t] \notin {"fetching", "taring"} /\ pc'[t] \in {"fetching", "taring"}
                           => ~stamp[url[t]]]_vars
  <2> SUFFICES ASSUME FetchInv, Next, NEW t \in Task,
                      pc[t] \notin {"fetching", "taring"}, pc'[t] \in {"fetching", "taring"}
               PROVE  ~stamp[url[t]]
    OBVIOUS
  <2>1. pc[t] \in {"wget", "tar"}
    BY DEF Next, Works, NextUrl, LockUrl, WriteMd5sum, UnlockUrl, CheckSums, StartCommand,
           FetchUriSucceeds, FetchUriFails, GitAccess, GitClone, GitRefs, GitReadTree,
           GitCheckout, GitTar, GitTarEnds, OrphanEnds, Kill, KillLeavingWget, Again, Goto, Fail,
           FetchInv, TypeOK
  <2> QED
    BY <2>1 DEF FetchInv, Working
<1> QED
  BY <1>1, FetchInvHolds, PTL DEF Spec, NoSecondDownload

-----------------------------------------------------------------------------
(* Git, where its tarballs can be trusted: no two tags of one repository    *)
(* are wanted, and no task that wants one is killed.  Without the first the *)
(* index of one gets into the tarball of the other, without the second a    *)
(* tarball can be half written (README, section 5).                         *)

GitIsSafe ==
    /\ \A f, g \in Git : Repo[f] = Repo[g] => f = g
    /\ \A t \in Mortal : Wants[t] \cap Git = {}

\* The index and the checkout are those of the tag whose lock a task holds, and
\* a tarball is whole but for the tar that is writing it.
GitInv ==
    /\ \A t \in Task : todo[t] \subseteq Wants[t] /\ url[t] \in Wants[t] \cup {None}
    /\ \A t \in Task : pc[t] \in {"wget", "fetching", "orphan"} => url[t] \notin Git
    /\ \A t \in Task : pc[t] = "checkout" => index[MyRepo(t)] = url[t]
    /\ \A t \in Task : pc[t] \in {"tar", "taring"} => codir[url[t]] = url[t]
    /\ \A f \in Git : \/ file[f] \in {"absent", "good"}
                      \/ \E t \in Task : pc[t] = "taring" /\ url[t] = f

LEMMA GitInit == Init => GitInv
  BY Constants DEF Init, GitInv

\* A step that goes on to something else than git and leaves its files alone.
LEMMA StepOutsideGit ==
  ASSUME FetchInv, GitInv, NEW t \in Task, NEW p,
         pc' = [pc EXCEPT ![t] = p], p \notin {"checkout", "tar", "taring"}, pc[t] # "taring",
         \A u \in Task : u # t => url'[u] = url[u] /\ todo'[u] = todo[u],
         todo'[t] \subseteq Wants[t], url'[t] \in Wants[t] \cup {None},
         p \in {"wget", "fetching", "orphan"} => url'[t] \notin Git,
         UNCHANGED <<index, codir>>,
         \A f \in Git : file'[f] = file[f]
  PROVE  GitInv'
<1>1. pc'[t] = p /\ \A u \in Task : u # t => pc'[u] = pc[u]
  BY DEF FetchInv, TypeOK
<1>2. \A u \in Task : todo'[u] \subseteq Wants[u] /\ url'[u] \in Wants[u] \cup {None}
  BY DEF GitInv
<1>3. \A u \in Task : pc'[u] \in {"wget", "fetching", "orphan"} => url'[u] \notin Git
  BY <1>1 DEF GitInv
<1>4. \A u \in Task : pc'[u] = "checkout" => index'[MyRepo(u)'] = url'[u]
  BY <1>1 DEF GitInv, MyRepo
<1>5. \A u \in Task : pc'[u] \in {"tar", "taring"} => codir'[url'[u]] = url'[u]
  BY <1>1 DEF GitInv
<1>6. \A f \in Git : \/ file'[f] \in {"absent", "good"}
                     \/ \E u \in Task : pc'[u] = "taring" /\ url'[u] = f
  BY <1>1 DEF GitInv
<1> QED
  BY <1>2, <1>3, <1>4, <1>5, <1>6 DEF GitInv

\* Who else is at work on git is at work on another repository.
LEMMA Alone ==
  ASSUME GitIsSafe, FetchInv, NEW t \in Task, NEW u \in Task, u # t,
         pc[t] \in {"refs", "readtree", "checkout", "tar", "taring"},
         pc[u] \in {"checkout", "tar", "taring"}
  PROVE  url[u] # url[t] /\ MyRepo(u) # MyRepo(t)
<1>1. url[t] \in Git /\ url[u] \in Git /\ holder[url[t]] = t /\ holder[url[u]] = u
  BY DEF FetchInv, Working
<1> QED
  BY <1>1 DEF GitIsSafe, MyRepo

\* A step of t from one command of git to p, as far as the tasks of other
\* repositories see it.
InGit(t, p) ==
    /\ pc[t] \in {"refs", "readtree", "checkout", "tar", "taring"}
    /\ pc' = [pc EXCEPT ![t] = p]
    /\ p \notin {"wget", "fetching", "orphan"}
    /\ UNCHANGED <<todo, url>>
    /\ \A r \in Repos \ {MyRepo(t)} : index'[r] = index[r]
    /\ \A f \in Git : Repo[f] # MyRepo(t) => codir'[f] = codir[f]
    /\ \A f \in Git \ {url[t]} : file'[f] = file[f]
    /\ p = "checkout" => index'[MyRepo(t)] = url[t]
    /\ p \in {"tar", "taring"} => codir'[url[t]] = url[t]
    /\ file'[url[t]] \in {"absent", "good"} \/ p = "taring"

\* Such a step keeps GitInv: where it is safe, no two tasks are in one clone.
LEMMA StepInGit ==
  ASSUME GitIsSafe, FetchInv, GitInv, NEW t \in Task, NEW p, InGit(t, p)
  PROVE  GitInv'
<1> USE DEF InGit
<1>1. pc'[t] = p /\ \A u \in Task : u # t => pc'[u] = pc[u]
  BY DEF FetchInv, TypeOK
<1>2. \A u \in Task : todo'[u] \subseteq Wants[u] /\ url'[u] \in Wants[u] \cup {None}
  BY DEF GitInv
<1>3. \A u \in Task : pc'[u] \in {"wget", "fetching", "orphan"} => url'[u] \notin Git
  BY <1>1 DEF GitInv
<1>4. ASSUME NEW u \in Task, pc'[u] = "checkout" PROVE index'[MyRepo(u)'] = url'[u]
  <2>1. CASE u = t
    BY <1>1, <1>4, <2>1 DEF MyRepo
  <2>2. CASE u # t
    <3>1. pc[u] = "checkout" /\ MyRepo(u) # MyRepo(t) /\ url[u] \in Git
      BY <1>1, <1>4, <2>2, Alone DEF FetchInv, Working
    <3>2. MyRepo(u) \in Repos \ {MyRepo(t)}
      BY <3>1 DEF MyRepo, Repos
    <3> QED
      BY <3>1, <3>2 DEF GitInv, MyRepo
  <2> QED
    BY <2>1, <2>2
<1>5. ASSUME NEW u \in Task, pc'[u] \in {"tar", "taring"} PROVE codir'[url'[u]] = url'[u]
  <2>1. CASE u = t
    BY <1>1, <1>5, <2>1
  <2>2. CASE u # t
    <3>1. pc[u] \in {"tar", "taring"} /\ MyRepo(u) # MyRepo(t) /\ url[u] \in Git
      BY <1>1, <1>5, <2>2, Alone DEF FetchInv, Working
    <3> QED
      BY <3>1 DEF GitInv, MyRepo
  <2> QED
    BY <2>1, <2>2
<1>6. ASSUME NEW f \in Git, file'[f] \notin {"absent", "good"}
      PROVE  \E u \in Task : pc'[u] = "taring" /\ url'[u] = f
  <2>1. CASE f = url[t]
    BY <1>1, <1>6, <2>1
  <2>2. CASE f # url[t]
    <3>1. PICK u \in Task : pc[u] = "taring" /\ url[u] = f
      BY <1>6, <2>2 DEF GitInv
    <3>2. u # t
      BY <2>2, <3>1
    <3> QED
      BY <1>1, <3>1, <3>2
  <2> QED
    BY <2>1, <2>2
<1> QED
  BY <1>2, <1>3, <1>4, <1>5, <1>6 DEF GitInv

\* Outside tar a tarball is whole, or not there.
LEMMA TarballWhole ==
  ASSUME FetchInv, GitInv, NEW t \in Task, pc[t] \in Working \ {"taring"}, url[t] \in Git
  PROVE  file[url[t]] \in {"absent", "good"}
<1>1. \A u \in Task : pc[u] = "taring" /\ url[u] = url[t] => u = t
  BY DEF FetchInv, Working
<1> QED
  BY <1>1 DEF GitInv

LEMMA GitNext == ASSUME GitIsSafe, FetchInv, GitInv, [Next]_vars PROVE GitInv'
<1>0. /\ pc \in [Task -> {"next", "lock", "wget", "fetching", "access", "clone", "refs", "readtree",
                        "checkout", "tar", "taring", "md5", "unlock", "orphan", "failed", "done"}]
      /\ todo \in [Task -> SUBSET File] /\ url \in [Task -> File \cup {None}]
      /\ file \in [File -> Content] /\ Git \subseteq File
      /\ index \in [Repos -> File \cup {None}] /\ codir \in [Git -> File \cup {None}]
      /\ \A t \in Task : todo[t] \subseteq Wants[t] /\ url[t] \in Wants[t] \cup {None}
  BY Constants DEF FetchInv, TypeOK, GitInv
<1>1. CASE UNCHANGED vars
  BY <1>1 DEF vars, gitVars, GitInv, MyRepo
<1>2. ASSUME NEW t \in Task, NextUrl(t) PROVE GitInv'
  <2>1. PICK f \in todo[t] :
          /\ todo' = [todo EXCEPT ![t] = @ \ {f}]
          /\ IF stamp[f] THEN UNCHANGED <<pc, url>>
             ELSE pc' = [pc EXCEPT ![t] = "lock"] /\ url' = [url EXCEPT ![t] = f]
    BY <1>2 DEF NextUrl, Goto
  <2>2. pc[t] = "next" /\ UNCHANGED <<file, index, codir>>
    BY <1>2 DEF NextUrl, gitVars
  <2>3. \A u \in Task : u # t => url'[u] = url[u] /\ todo'[u] = todo[u]
    BY <1>0, <2>1
  <2>4. todo'[t] \subseteq Wants[t] /\ url'[t] \in Wants[t] \cup {None}
    BY <1>0, <2>1
  <2>5. CASE stamp[f]
    <3>1. pc' = [pc EXCEPT ![t] = "next"]
      BY <1>0, <2>1, <2>2, <2>5
    <3> QED
      BY <2>2, <2>3, <2>4, <3>1, StepOutsideGit
  <2>6. CASE ~stamp[f]
    <3>1. pc' = [pc EXCEPT ![t] = "lock"]
      BY <2>1, <2>6
    <3> QED
      BY <2>2, <2>3, <2>4, <3>1, StepOutsideGit
  <2> QED
    BY <2>5, <2>6
<1>3. ASSUME NEW t \in Task, NEW p, pc' = [pc EXCEPT ![t] = p], UNCHANGED <<todo, url, file, index, codir>>,
             p \in {"access", "unlock", "failed", "done", "wget", "fetching", "orphan", "md5", "clone",
                    "refs"},
             p \in {"wget", "fetching", "orphan"} => url[t] \notin Git,
             pc[t] # "taring"
      PROVE  GitInv'
  BY <1>0, <1>3, StepOutsideGit
<1>4. ASSUME NEW t \in Task, LockUrl(t) PROVE GitInv'
  <2>1. pc[t] = "lock" /\ UNCHANGED <<todo, url, file, index, codir>>
    BY <1>4 DEF LockUrl, gitVars
  <2>2. PICK p \in {"unlock", "access", "wget"} :
            pc' = [pc EXCEPT ![t] = p] /\ (p = "wget" => url[t] \notin Git)
    BY <1>4 DEF LockUrl, Goto
  <2> QED
    BY <1>3, <2>1, <2>2
<1>5. ASSUME NEW t \in Task, WriteMd5sum(t) PROVE GitInv'
  BY <1>3, <1>5 DEF WriteMd5sum, Fail, Goto, gitVars
<1>6. ASSUME NEW t \in Task, UnlockUrl(t) PROVE GitInv'
  <2>1. /\ pc[t] = "unlock" /\ pc' = [pc EXCEPT ![t] = "next"] /\ url' = [url EXCEPT ![t] = None]
        /\ UNCHANGED <<todo, file, index, codir>>
    BY <1>6 DEF UnlockUrl, Goto, gitVars
  <2>2. \A u \in Task : u # t => url'[u] = url[u]
    BY <1>0, <2>1
  <2>3. url'[t] = None
    BY <1>0, <2>1
  <2> QED
    BY <1>0, <2>1, <2>2, <2>3, StepOutsideGit
<1>7. ASSUME NEW t \in Task, CheckSums(t) PROVE GitInv'
  <2>1. pc[t] = "next" /\ UNCHANGED <<todo, url, file, index, codir>>
    BY <1>7 DEF CheckSums, gitVars
  <2>2. PICK p \in {"done", "failed"} : pc' = [pc EXCEPT ![t] = p]
    BY <1>7 DEF CheckSums, Goto
  <2> QED
    BY <1>3, <2>1, <2>2
<1>8. ASSUME NEW t \in Task, pc[t] \in {"wget", "fetching", "orphan"} PROVE url[t] \notin Git
  BY <1>8 DEF GitInv
<1>9. ASSUME NEW t \in Task, StartCommand(t) PROVE GitInv'
  BY <1>3, <1>8, <1>9 DEF StartCommand, Goto, gitVars
<1>10. ASSUME NEW t \in Task, pc[t] \in {"fetching", "orphan"}, NEW c, NEW p,
              file' = [file EXCEPT ![url[t]] = c], pc' = [pc EXCEPT ![t] = p],
              p \in {"md5", "wget", "failed"}, UNCHANGED <<todo, url, index, codir>>
       PROVE  GitInv'
  <2>1. url[t] \notin Git
    BY <1>8, <1>10
  <2>2. \A f \in Git : file'[f] = file[f]
    BY <1>0, <1>10, <2>1
  <2> QED
    BY <1>0, <1>10, <2>1, <2>2, StepOutsideGit
<1>11. ASSUME NEW t \in Task, FetchUriSucceeds(t) PROVE GitInv'
  BY <1>10, <1>11 DEF FetchUriSucceeds, Goto, gitVars
<1>12. ASSUME NEW t \in Task, FetchUriFails(t) PROVE GitInv'
  BY <1>10, <1>12 DEF FetchUriFails, Fail, Goto, gitVars
<1>13. ASSUME NEW t \in Task, OrphanEnds(t) PROVE GitInv'
  BY <1>10, <1>13 DEF OrphanEnds, Fail, Goto, gitVars
<1>14. ASSUME NEW t \in Task, GitAccess(t) PROVE GitInv'
  BY <1>3, <1>14 DEF GitAccess, Goto, gitVars
<1>15. ASSUME NEW t \in Task, GitClone(t) PROVE GitInv'
  BY <1>3, <1>15 DEF GitClone, Fail, Goto, gitVars
<1>16. ASSUME NEW t \in Task, pc[t] \in Working, url[t] \in Git
       PROVE  MyRepo(t) \in Repos /\ url[t] \in Url(MyRepo(t))
  BY <1>16 DEF MyRepo, Repos, Url
<1>17. ASSUME NEW t \in Task, GitRefs(t) PROVE GitInv'
  <2>1. pc[t] = "refs" /\ UNCHANGED <<todo, url, file, index>>
    BY <1>17 DEF GitRefs
  <2>2. PICK p \in {"readtree", "failed"} : pc' = [pc EXCEPT ![t] = p]
    BY <1>17 DEF GitRefs, Goto, Fail
  <2>3. url[t] \in Git
    BY <2>1 DEF FetchInv, Working
  <2>4. \A f \in Git : Repo[f] # MyRepo(t) => codir'[f] = codir[f]
    BY <1>0, <1>17 DEF GitRefs, Url
  <2>5. file[url[t]] \in {"absent", "good"}
    BY <2>1, <2>3, TarballWhole DEF Working
  <2> QED
    BY <2>1, <2>2, <2>4, <2>5, StepInGit DEF InGit
<1>18. ASSUME NEW t \in Task, GitReadTree(t) PROVE GitInv'
  <2>1. /\ pc[t] = "readtree" /\ UNCHANGED <<todo, url, file>>
        /\ codir' = [codir EXCEPT ![url[t]] = None]
    BY <1>18 DEF GitReadTree
  <2>2. url[t] \in Git /\ MyRepo(t) \in Repos
    BY <2>1 DEF FetchInv, Working, MyRepo, Repos
  <2>3. file[url[t]] \in {"absent", "good"}
    BY <2>1, <2>2, TarballWhole DEF Working
  <2>4. \A f \in Git : Repo[f] # MyRepo(t) => codir'[f] = codir[f]
    BY <1>0, <2>1, <2>2 DEF MyRepo
  <2>5. CASE index' = [index EXCEPT ![MyRepo(t)] = url[t]] /\ pc' = [pc EXCEPT ![t] = "checkout"]
    <3>1. index'[MyRepo(t)] = url[t] /\ \A r \in Repos \ {MyRepo(t)} : index'[r] = index[r]
      BY <1>0, <2>2, <2>5
    <3> QED
      BY <2>1, <2>3, <2>4, <2>5, <3>1, StepInGit DEF InGit
  <2>6. CASE UNCHANGED index /\ pc' = [pc EXCEPT ![t] = "failed"]
    BY <2>1, <2>3, <2>4, <2>6, StepInGit DEF InGit
  <2> QED
    BY <1>18, <2>5, <2>6 DEF GitReadTree, Goto, Fail
<1>19. ASSUME NEW t \in Task, GitCheckout(t) PROVE GitInv'
  <2>1. pc[t] = "checkout" /\ UNCHANGED <<todo, url, file, index>>
    BY <1>19 DEF GitCheckout
  <2>2. url[t] \in Git /\ index[MyRepo(t)] = url[t]
    BY <2>1 DEF FetchInv, Working, GitInv
  <2>3. file[url[t]] \in {"absent", "good"}
    BY <2>1, <2>2, TarballWhole DEF Working
  <2>4. CASE codir' = [codir EXCEPT ![url[t]] = index[MyRepo(t)]] /\ pc' = [pc EXCEPT ![t] = "tar"]
    <3>1. /\ codir'[url[t]] = url[t]
          /\ \A f \in Git : Repo[f] # MyRepo(t) => codir'[f] = codir[f]
      BY <1>0, <2>2, <2>4 DEF MyRepo
    <3> QED
      BY <2>1, <2>3, <2>4, <3>1, StepInGit DEF InGit
  <2>5. CASE UNCHANGED codir /\ pc' = [pc EXCEPT ![t] = "failed"]
    BY <2>1, <2>3, <2>5, StepInGit DEF InGit
  <2> QED
    BY <1>19, <2>4, <2>5 DEF GitCheckout, Goto, Fail
<1>20. ASSUME NEW t \in Task, pc[t] \in {"tar", "taring"} PROVE url[t] \in Git /\ codir[url[t]] = url[t] /\ url[t] # None
  BY <1>20, Constants DEF FetchInv, Working, GitInv
<1>21. ASSUME NEW t \in Task, GitTar(t) PROVE GitInv'
  <2>1. pc[t] = "tar" /\ UNCHANGED <<todo, url, index, codir>>
    BY <1>21 DEF GitTar, gitVars
  <2>2. pc' = [pc EXCEPT ![t] = "taring"] /\ file' = [file EXCEPT ![url[t]] = "partial"]
    BY <1>20, <1>21, <2>1 DEF GitTar, Goto
  <2>3. \A f \in Git \ {url[t]} : file'[f] = file[f]
    BY <1>0, <2>2
  <2> QED
    BY <1>20, <2>1, <2>2, <2>3, StepInGit DEF InGit
<1>22. ASSUME NEW t \in Task, GitTarEnds(t) PROVE GitInv'
  <2>1. pc[t] = "taring" /\ UNCHANGED <<todo, url, index>>
    BY <1>22 DEF GitTarEnds
  <2>2. /\ pc' = [pc EXCEPT ![t] = "md5"] /\ file' = [file EXCEPT ![url[t]] = "good"]
        /\ codir' = [codir EXCEPT ![url[t]] = None]
    BY <1>20, <1>22, <2>1 DEF GitTarEnds, Goto
  <2>3. \A f \in Git : Repo[f] # MyRepo(t) => codir'[f] = codir[f]
    BY <1>0, <1>20, <2>1, <2>2 DEF MyRepo
  <2>4. file'[url[t]] = "good" /\ \A f \in Git \ {url[t]} : file'[f] = file[f]
    BY <1>0, <1>20, <2>1, <2>2
  <2>5. InGit(t, "md5")
    BY <2>1, <2>2, <2>3, <2>4 DEF InGit
  <2> QED
    BY <2>5, StepInGit
<1>23. ASSUME NEW t \in Task, Kill(t) PROVE GitInv'
  <2>1. pc' = [pc EXCEPT ![t] = "failed"] /\ UNCHANGED <<todo, url, index, codir>>
    BY <1>23 DEF Kill, Fail, Goto, gitVars
  <2>2. CASE pc[t] = "fetching"
    BY <1>10, <1>23, <2>1, <2>2 DEF Kill
  <2>3. CASE pc[t] # "fetching"
    <3>1. UNCHANGED file
      BY <1>23, <2>3 DEF Kill
    <3>2. pc[t] # "taring"
      <4>1. url[t] \in Git => url[t] \notin Wants[t]
        BY <1>23 DEF Kill, GitIsSafe
      <4> QED
        BY <1>0, <1>20, <4>1
    <3> QED
      BY <1>3, <2>1, <3>1, <3>2
  <2> QED
    BY <2>2, <2>3
<1>24. ASSUME NEW t \in Task, KillLeavingWget(t) PROVE GitInv'
  BY <1>3, <1>8, <1>24 DEF KillLeavingWget, Goto, gitVars
<1>25. ASSUME NEW t \in Task, Again(t) PROVE GitInv'
  <2>1. /\ pc[t] = "failed" /\ pc' = [pc EXCEPT ![t] = "next"] /\ url' = [url EXCEPT ![t] = None]
        /\ todo' = [todo EXCEPT ![t] = Wants[t]] /\ UNCHANGED <<file, index, codir>>
    BY <1>25 DEF Again, Goto, gitVars
  <2>2. \A u \in Task : u # t => url'[u] = url[u] /\ todo'[u] = todo[u]
    BY <1>0, <2>1
  <2>3. url'[t] = None /\ todo'[t] = Wants[t]
    BY <1>0, <2>1
  <2> QED
    BY <2>1, <2>2, <2>3, StepOutsideGit
<1> QED
  BY <1>1, <1>2, <1>4, <1>5, <1>6, <1>7, <1>9, <1>11, <1>12, <1>13, <1>14, <1>15, <1>17, <1>18, <1>19,
     <1>21, <1>22, <1>23, <1>24, <1>25 DEF Next, Works

LEMMA GitInvHolds == ASSUME GitIsSafe PROVE Spec => []GitInv
<1>1. FetchInv /\ GitInv /\ [Next]_vars => GitInv'
  BY GitNext
<1> QED
  BY <1>1, GitInit, FetchInvHolds, PTL DEF Spec

-----------------------------------------------------------------------------
(* What has a stamp, and what a task that is done has *)

\* What is compared with md5sum= is whole, and what has a stamp is not written
\* any more.  Every URL a task has left behind has a stamp.
DownloadInv ==
    /\ \A t \in Task : pc[t] = "md5" => file[url[t]] \in {"good", "bad"}
    /\ \A f \in File : stamp[f] => file[f] = "good" \/ (file[f] = "bad" /\ f \notin Git /\ ~Summed(f))
    /\ \A t \in Task : pc[t] = "unlock" => stamp[url[t]]
    /\ \A t \in Task : pc[t] # "failed" =>
          \A f \in Wants[t] : \/ f \in todo[t] \/ stamp[f]
                              \/ f = url[t] /\ pc[t] \in Working \cup {"lock"}
    /\ \A t \in Task : pc[t] = "done" => todo[t] = {} /\ Verified(t)

LEMMA DownloadInit == Init => DownloadInv
  BY Constants DEF Init, DownloadInv, Working

LEMMA DoneIsStamped ==
  ASSUME DownloadInv, NEW t \in Task, pc[t] = "done" PROVE \A f \in Wants[t] : stamp[f]
<1> SUFFICES ASSUME NEW f \in Wants[t] PROVE stamp[f]
  OBVIOUS
<1>1. f \notin todo[t]
  BY DEF DownloadInv
<1>2. f \in todo[t] \/ stamp[f] \/ (f = url[t] /\ pc[t] \in Working \cup {"lock"})
  BY DEF DownloadInv
<1> QED
  BY <1>1, <1>2 DEF Working

\* A command that ends, and leaves c in its file, disturbs no file that has a
\* stamp, none that is compared, and none of a task that is done.
LEMMA CommandEnds ==
  ASSUME FetchInv, DownloadInv, NEW t \in Task, pc[t] \in {"fetching", "orphan", "tar", "taring"},
         NEW c, NEW p,
         file' = [file EXCEPT ![url[t]] = c], UNCHANGED <<todo, url, stamp>>,
         pc' = [pc EXCEPT ![t] = p],
         p \in {"wget", "failed", "taring"} \/ (p = "md5" /\ c \in {"good", "bad"}),
         pc[t] = "orphan" => p = "failed"
  PROVE  DownloadInv'
<1> USE Constants DEF FetchInv, TypeOK, Working
<1>1. url[t] \in File /\ ~stamp[url[t]] /\ holder[url[t]] = t
  OBVIOUS
<1>2. \A f \in File : f # url[t] => file'[f] = file[f]
  OBVIOUS
<1>3. \A u \in Task : u # t => pc'[u] = pc[u]
  OBVIOUS
<1>4. \A u \in Task : pc'[u] = "md5" => file'[url'[u]] \in {"good", "bad"}
  <2>1. pc'[t] = "md5" => file'[url'[t]] \in {"good", "bad"}
    BY <1>1
  <2>2. \A u \in Task : u # t /\ pc[u] = "md5" => url[u] \in File /\ url[u] # url[t]
    BY <1>1
  <2> QED
    BY <1>2, <1>3, <2>1, <2>2 DEF DownloadInv
<1>5. \A f \in File : stamp'[f] => file'[f] = "good" \/ (file'[f] = "bad" /\ f \notin Git /\ ~Summed(f))
  BY <1>1, <1>2 DEF DownloadInv
<1>6. \A u \in Task : pc'[u] = "unlock" => stamp'[url'[u]]
  BY <1>3 DEF DownloadInv
<1>7. \A u \in Task : pc'[u] # "failed" =>
          \A f \in Wants[u] : \/ f \in todo'[u] \/ stamp'[f]
                              \/ f = url'[u] /\ pc'[u] \in Working \cup {"lock"}
  BY <1>3 DEF DownloadInv
<1>8. \A u \in Task : pc'[u] = "done" => todo'[u] = {} /\ Verified(u)'
  <2> SUFFICES ASSUME NEW u \in Task, pc'[u] = "done" PROVE todo'[u] = {} /\ Verified(u)'
    OBVIOUS
  <2>1. u # t /\ pc[u] = "done" /\ todo[u] = {} /\ Verified(u)
    BY <1>3 DEF DownloadInv
  <2>2. \A f \in Wants[u] : stamp[f]
    BY <2>1, DoneIsStamped
  <2>3. Wants[u] \subseteq File
    OBVIOUS
  <2>4. \A f \in Wants[u] : file'[f] = file[f]
    BY <1>1, <1>2, <2>1, <2>2, <2>3
  <2> QED
    BY <2>1, <2>4 DEF Verified
<1> QED
  BY <1>4, <1>5, <1>6, <1>7, <1>8 DEF DownloadInv

LEMMA DownloadNext ==
  ASSUME FetchInv, FetchInv', GitInv, DownloadInv, [Next]_vars PROVE DownloadInv'
<1> USE Constants DEF FetchInv, TypeOK, Working, Goto, DownloadInv, Verified
<1>1. CASE UNCHANGED vars
  BY <1>1 DEF vars, gitVars
<1>2. ASSUME NEW t \in Task, NextUrl(t) PROVE DownloadInv'
  <2>1. PICK f \in todo[t] :
          /\ todo' = [todo EXCEPT ![t] = @ \ {f}]
          /\ IF stamp[f] THEN UNCHANGED <<pc, url>>
             ELSE pc' = [pc EXCEPT ![t] = "lock"] /\ url' = [url EXCEPT ![t] = f]
    BY <1>2 DEF NextUrl
  <2>2. pc[t] = "next" /\ UNCHANGED <<file, stamp>>
    BY <1>2 DEF NextUrl
  <2>3. CASE stamp[f]
    BY <2>1, <2>2, <2>3
  <2>4. CASE ~stamp[f]
    <3>1. pc' = [pc EXCEPT ![t] = "lock"] /\ url' = [url EXCEPT ![t] = f]
      BY <2>1, <2>4
    <3>2. \A u \in Task : u # t => pc'[u] = pc[u] /\ url'[u] = url[u] /\ todo'[u] = todo[u]
      BY <2>1, <3>1
    <3>3. pc'[t] = "lock" /\ url'[t] = f /\ todo'[t] = todo[t] \ {f}
      BY <2>1, <3>1
    <3>4. \A g \in Wants[t] : g \in todo[t] \/ stamp[g]
      BY <2>2
    <3>5. \A u \in Task : pc'[u] # "failed" =>
             \A g \in Wants[u] : \/ g \in todo'[u] \/ stamp'[g]
                                 \/ g = url'[u] /\ pc'[u] \in Working \cup {"lock"}
      <4> TAKE u \in Task
      <4>1. CASE u = t
        BY <2>2, <3>3, <3>4, <4>1
      <4>2. CASE u # t
        BY <2>2, <3>2, <4>2
      <4> QED
        BY <4>1, <4>2
    <3>6. \A u \in Task : pc'[u] = "done" => todo'[u] = {} /\ Verified(u)'
      <4> SUFFICES ASSUME NEW u \in Task, pc'[u] = "done" PROVE todo'[u] = {} /\ Verified(u)'
        OBVIOUS
      <4>1. u # t /\ pc[u] = "done"
        BY <3>2, <3>3
      <4>2. todo[u] = {} /\ Verified(u)
        BY <4>1
      <4> QED
        BY <2>2, <3>2, <4>1, <4>2
    <3>7. \A u \in Task : pc'[u] \in {"md5", "unlock"} => u # t
      BY <3>3
    <3>8. \A u \in Task : pc'[u] = "md5" => file'[url'[u]] \in {"good", "bad"}
      BY <2>2, <3>2, <3>7
    <3>9. \A u \in Task : pc'[u] = "unlock" => stamp'[url'[u]]
      BY <2>2, <3>2, <3>7
    <3> QED
      BY <2>2, <3>5, <3>6, <3>8, <3>9
  <2> QED
    BY <2>3, <2>4
<1>3. ASSUME NEW t \in Task, LockUrl(t) PROVE DownloadInv'
  BY <1>3 DEF LockUrl, gitVars
<1>4. ASSUME NEW t \in Task, WriteMd5sum(t) PROVE DownloadInv'
  <2>1. pc[t] = "md5" /\ url[t] \in File /\ UNCHANGED <<todo, url, file>>
    BY <1>4 DEF WriteMd5sum
  <2>2. CASE url[t] \in Md5[t] /\ file[url[t]] # "good"
    <3>1. pc' = [pc EXCEPT ![t] = "failed"] /\ UNCHANGED stamp
      BY <1>4, <2>2 DEF WriteMd5sum, Fail
    <3> QED
      BY <2>1, <3>1
  <2>3. CASE ~(url[t] \in Md5[t] /\ file[url[t]] # "good")
    <3>1. pc' = [pc EXCEPT ![t] = "unlock"] /\ stamp' = [stamp EXCEPT ![url[t]] = TRUE]
      BY <1>4, <2>3 DEF WriteMd5sum
    <3>2. url[t] \in Git => file[url[t]] = "good"
      <4>1. url[t] \in Git => file[url[t]] \in {"absent", "good"}
        BY <2>1, TarballWhole DEF Working
      <4> QED
        BY <2>1, <4>1
    <3>3. Summed(url[t]) => url[t] \in Md5[t]
      BY <2>1 DEF GitInv, Summed
    <3>4. \A f \in File : stamp'[f] => file'[f] = "good" \/ (file'[f] = "bad" /\ f \notin Git /\ ~Summed(f))
      BY <2>1, <2>3, <3>1, <3>2, <3>3
    <3> QED
      BY <2>1, <2>3, <3>1, <3>4
  <2> QED
    BY <2>2, <2>3
<1>5. ASSUME NEW t \in Task, UnlockUrl(t) PROVE DownloadInv'
  BY <1>5 DEF UnlockUrl, gitVars
<1>6. ASSUME NEW t \in Task, CheckSums(t) PROVE DownloadInv'
  BY <1>6 DEF CheckSums, gitVars
<1>7. ASSUME NEW t \in Task, StartCommand(t) PROVE DownloadInv'
  BY <1>7 DEF StartCommand, gitVars
<1>8. ASSUME NEW t \in Task, FetchUriSucceeds(t) PROVE DownloadInv'
  <2>1. pc[t] = "fetching" /\ pc' = [pc EXCEPT ![t] = "md5"] /\ UNCHANGED <<todo, url, stamp>>
    BY <1>8 DEF FetchUriSucceeds
  <2>2. PICK c \in {"good", "bad"} : file' = [file EXCEPT ![url[t]] = c]
    <3>1. file' = [file EXCEPT ![url[t]] = Got(file[url[t]], site[t])]
      BY <1>8 DEF FetchUriSucceeds
    <3>2. file[url[t]] \in Content
      BY <2>1
    <3>3. Got(file[url[t]], site[t]) \in {"good", "bad"}
      BY <3>2, GotType
    <3> QED
      BY <3>1, <3>3
  <2> QED
    BY <2>1, <2>2, CommandEnds
<1>9. ASSUME NEW t \in Task, FetchUriFails(t) PROVE DownloadInv'
  <2>1. PICK c : file' = [file EXCEPT ![url[t]] = c]
    BY <1>9 DEF FetchUriFails
  <2>2. pc[t] = "fetching" /\ UNCHANGED <<todo, url, stamp>>
    BY <1>9 DEF FetchUriFails
  <2>3. CASE pc' = [pc EXCEPT ![t] = "wget"]
    BY <2>1, <2>2, <2>3, CommandEnds
  <2>4. CASE pc' = [pc EXCEPT ![t] = "failed"]
    BY <2>1, <2>2, <2>4, CommandEnds
  <2> QED
    BY <1>9, <2>3, <2>4 DEF FetchUriFails, Fail
<1>10. ASSUME NEW t \in Task, GitAccess(t) PROVE DownloadInv'
  <2>1. pc[t] = "access" /\ UNCHANGED <<todo, url, file, stamp>>
    BY <1>10 DEF GitAccess
  <2>2. PICK p \in {"md5", "clone", "refs"} :
            pc' = [pc EXCEPT ![t] = p] /\ (p = "md5" => file[url[t]] # "absent")
    BY <1>10 DEF GitAccess
  <2>3. url[t] \in Git
    BY <2>1
  <2>4. p = "md5" => file[url[t]] = "good"
    BY <2>1, <2>2, <2>3, TarballWhole DEF Working
  <2> QED
    BY <2>1, <2>2, <2>4
<1>15. ASSUME NEW t \in Task, NEW p \in {"refs", "failed", "readtree", "checkout", "tar"},
              pc[t] \in {"clone", "refs", "readtree", "checkout", "tar", "taring"},
              pc' = [pc EXCEPT ![t] = p], UNCHANGED <<todo, url, file, stamp>>
       PROVE  DownloadInv'
  BY <1>15
<1>16. ASSUME NEW t \in Task, GitClone(t) \/ GitRefs(t) \/ GitReadTree(t) \/ GitCheckout(t)
       PROVE  DownloadInv'
  BY <1>15, <1>16 DEF GitClone, GitRefs, GitReadTree, GitCheckout, Fail
<1>17. ASSUME NEW t \in Task, GitTar(t) PROVE DownloadInv'
  <2>1. pc[t] = "tar" /\ UNCHANGED <<todo, url, stamp>>
    BY <1>17 DEF GitTar
  <2>2. CASE pc' = [pc EXCEPT ![t] = "failed"] /\ UNCHANGED file
    BY <1>15, <2>1, <2>2
  <2>3. CASE pc' = [pc EXCEPT ![t] = "taring"] /\ file' = [file EXCEPT ![url[t]] = "partial"]
    BY <2>1, <2>3, CommandEnds
  <2> QED
    BY <1>17, <2>2, <2>3 DEF GitTar, Fail
<1>18. ASSUME NEW t \in Task, GitTarEnds(t) PROVE DownloadInv'
  <2>1. pc[t] = "taring" /\ UNCHANGED <<todo, url, stamp>>
    BY <1>18 DEF GitTarEnds
  <2>2. CASE pc' = [pc EXCEPT ![t] = "failed"] /\ UNCHANGED file
    BY <1>15, <2>1, <2>2
  <2>3. CASE \E c \in {"good", "bad"} :
                pc' = [pc EXCEPT ![t] = "md5"] /\ file' = [file EXCEPT ![url[t]] = c]
    <3>1. PICK c \in {"good", "bad"} :
                pc' = [pc EXCEPT ![t] = "md5"] /\ file' = [file EXCEPT ![url[t]] = c]
      BY <2>3
    <3> QED
      BY <2>1, <3>1, CommandEnds
  <2> QED
    BY <1>18, <2>2, <2>3 DEF GitTarEnds, Fail
<1>11. ASSUME NEW t \in Task, OrphanEnds(t) PROVE DownloadInv'
  <2>1. PICK c : file' = [file EXCEPT ![url[t]] = c]
    <3>1. \E c \in Broken(file[url[t]], site[t]) \cup {Got(file[url[t]], site[t])} :
             file' = [file EXCEPT ![url[t]] = c]
      BY <1>11 DEF OrphanEnds
    <3> QED
      BY <3>1
  <2>2. pc[t] = "orphan" /\ pc' = [pc EXCEPT ![t] = "failed"] /\ UNCHANGED <<todo, url, stamp>>
    BY <1>11 DEF OrphanEnds, Fail
  <2> QED
    BY <2>1, <2>2, CommandEnds
<1>12. ASSUME NEW t \in Task, Kill(t) PROVE DownloadInv'
  <2>1. CASE pc[t] = "fetching"
    <3>1. PICK c : file' = [file EXCEPT ![url[t]] = c]
      <4>1. \E c \in Broken(file[url[t]], site[t]) : file' = [file EXCEPT ![url[t]] = c]
        BY <1>12, <2>1 DEF Kill
      <4> QED
        BY <4>1
    <3>2. pc' = [pc EXCEPT ![t] = "failed"] /\ UNCHANGED <<todo, url, stamp>>
      BY <1>12 DEF Kill, Fail
    <3> QED
      BY <2>1, <3>1, <3>2, CommandEnds
  <2>2. CASE pc[t] # "fetching"
    BY <1>12, <2>2 DEF Kill, Fail, gitVars
  <2> QED
    BY <2>1, <2>2
<1>13. ASSUME NEW t \in Task, KillLeavingWget(t) PROVE DownloadInv'
  BY <1>13 DEF KillLeavingWget, gitVars
<1>14. ASSUME NEW t \in Task, Again(t) PROVE DownloadInv'
  BY <1>14 DEF Again, gitVars
<1> QED
  BY <1>1, <1>2, <1>3, <1>4, <1>5, <1>6, <1>7, <1>8, <1>9, <1>10, <1>11, <1>12, <1>13, <1>14,
     <1>16, <1>17, <1>18
     DEF Next, Works

LEMMA DownloadInvHolds == ASSUME GitIsSafe PROVE Spec => []DownloadInv
<1>1. FetchInv /\ FetchInv' /\ GitInv /\ DownloadInv /\ [Next]_vars => DownloadInv'
  BY DownloadNext
<1> QED
  BY <1>1, DownloadInit, FetchInvHolds, GitInvHolds, PTL DEF Spec

\* A file with a stamp is whole, and right if all URLs of its name have an
\* md5sum=: write_md5sum sees only whole files, and nobody writes one
\* afterwards (fetch/__init__.py:151).
THEOREM StampedDownloadIsGood == ASSUME GitIsSafe PROVE Spec => []StampedIsGood
<1>1. DownloadInv => StampedIsGood
  BY DEF DownloadInv, StampedIsGood
<1> QED
  BY <1>1, DownloadInvHolds, PTL

\* A do_fetch that succeeds leaves all its files stamped and checked, whoever
\* has fetched them and whatever others do meanwhile.
THEOREM DoneDownloadIsVerified == ASSUME GitIsSafe PROVE Spec => []DoneIsVerified
<1>1. FetchInv /\ DownloadInv => DoneIsVerified
  BY Constants DEF FetchInv, TypeOK, DownloadInv, DoneIsVerified, Verified, Working
<1> QED
  BY <1>1, FetchInvHolds, DownloadInvHolds, PTL
=============================================================================
