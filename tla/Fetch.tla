------------------------------- MODULE Fetch --------------------------------
(***************************************************************************)
(* bb.fetch.go and the wget and git fetchers under it.  Tasks of one or    *)
(* several bitbakes bring files into one DL_DIR.  <file>.md5 says that a   *)
(* file need not be fetched again, <file>.lock that somebody is at it.     *)
(* The lock has one holder at a time, as LockFile shows.  Other fetchers   *)
(* than wget and git, SCM checkouts with date=now and the tarballs of      *)
(* BB_GENERATE_MIRROR_TARBALLS are left out.                               *)
(***************************************************************************)
EXTENDS Naturals, FiniteSets

CONSTANTS
    Task,       \* do_fetch tasks
    File,       \* files of DL_DIR; URLs that end in one name mean one file
    Wants,      \* [Task -> the files of its SRC_URI]
    Repo,       \* [File -> the repository in GITDIR], for the git:// URLs only
    Sites,      \* the URIs wget tries: PREMIRRORS, the URL itself, MIRRORS
    BadSites,   \* those of 1..Sites that answer with something else
    Md5,        \* [Task -> the files whose URL there has the parameter md5sum]
    Listed,     \* [Task -> the wget files with an entry in conf/checksums.ini for its URL]
    Mortal,     \* tasks that can be killed
    MaxTries,   \* bound: executions of each task
    None

Git == DOMAIN Repo
Repos == {Repo[f] : f \in Git}
Url(r) == {f \in Git : Repo[f] = r}

ASSUME FetchAssumption ==
    /\ Git \subseteq File
    /\ Wants \in [Task -> SUBSET File]
    /\ Sites \in Nat \ {0}
    /\ BadSites \subseteq 1..Sites
    /\ Md5 \in [Task -> SUBSET File]
    /\ Listed \in [Task -> SUBSET (File \ Git)]
    /\ MaxTries \in Nat \ {0}
    /\ None \notin Task \cup File

VARIABLES
    pc,         \* [Task -> next step of base_do_fetch and go]
    todo,       \* [Task -> URLs of the loop in go that are left]
    url,        \* [Task -> the URL it is at, or None]
    site,       \* [Task -> the URI wget is given, from 1]
    tries,      \* [Task -> executions so far]
    holder,     \* [File -> the task with a process that holds <file>.lock, or None]
    file,       \* [File -> what DL_DIR has under that name]
    stamp,      \* [File -> does <file>.md5 exist]
    refs,       \* [Repos -> URLs whose tag the clone has, None: no clone]
    index,      \* [Repos -> the URL whose tree the index of the clone holds, or None]
    codir       \* [Git -> the URL whose tree its checkout holds, or None]

gitVars == <<refs, index, codir>>
vars == <<pc, todo, url, site, tries, holder, file, stamp, gitVars>>

Content == {"absent", "partial", "badpartial", "good", "bad"}

Goto(t, there) == pc' = [pc EXCEPT ![t] = there]

Released(t) == [f \in File |-> IF holder[f] = t THEN None ELSE holder[f]]

Init ==
    /\ pc = [t \in Task |-> "next"]
    /\ todo = Wants
    /\ url = [t \in Task |-> None]
    /\ site = [t \in Task |-> 1]
    /\ tries = [t \in Task |-> 1]
    /\ holder = [f \in File |-> None]
    /\ file = [f \in File |-> "absent"]
    /\ stamp = [f \in File |-> FALSE]
    /\ refs = [r \in Repos |-> None]
    /\ index = [r \in Repos |-> None]
    /\ codir = [f \in Git |-> None]

\* A file with a stamp is passed over without the lock.
NextUrl(t) ==
    /\ pc[t] = "next"
    /\ \E f \in todo[t] :
          /\ todo' = [todo EXCEPT ![t] = @ \ {f}]
          /\ IF stamp[f]
             THEN UNCHANGED <<pc, url>>
             ELSE Goto(t, "lock") /\ url' = [url EXCEPT ![t] = f]
    /\ UNCHANGED <<site, tries, holder, file, stamp, gitVars>>

\* Mutant: the stamp is not looked at again under the lock.
LockUrlUnchecked(t) ==
    /\ pc[t] = "lock"
    /\ holder[url[t]] = None
    /\ holder' = [holder EXCEPT ![url[t]] = t]
    /\ Goto(t, IF url[t] \in Git THEN "access" ELSE "wget")
    /\ site' = [site EXCEPT ![t] = 1]
    /\ UNCHANGED <<todo, url, tries, file, stamp, gitVars>>

\* Somebody else may have fetched it before the lock was granted.
LockUrl(t) ==
    /\ pc[t] = "lock"
    /\ holder[url[t]] = None
    /\ holder' = [holder EXCEPT ![url[t]] = t]
    /\ Goto(t, IF stamp[url[t]] THEN "unlock" ELSE IF url[t] \in Git THEN "access" ELSE "wget")
    /\ site' = [site EXCEPT ![t] = 1]
    /\ UNCHANGED <<todo, url, tries, file, stamp, gitVars>>

\* Mutant: a lock that is only a file outlives its process.
FailKeepingLock(t) == Goto(t, "failed") /\ UNCHANGED holder

\* An exception ends the process of the task, and its lock with it.
Fail(t) == Goto(t, "failed") /\ holder' = Released(t)

-----------------------------------------------------------------------------
(* Wget.go *)

\* What the command leaves when it is given site s.  A file that exists is
\* resumed from its end, whatever it is; a whole one is left as it is.
Got(c, s) ==
    CASE c \in {"absent", "partial"} -> IF s \in BadSites THEN "bad" ELSE "good"
      [] c \in {"badpartial", "bad"} -> "bad"
      [] c = "good" -> "good"

\* What it leaves when it fails or is killed.
Broken(c, s) ==
    IF c = "absent" THEN {"absent", IF s \in BadSites THEN "badpartial" ELSE "partial"} ELSE {c}

StartCommand(t) ==
    /\ pc[t] = "wget"
    /\ Goto(t, "fetching")
    /\ UNCHANGED <<todo, url, site, tries, holder, file, stamp, gitVars>>

FetchUriSucceeds(t) ==
    /\ pc[t] = "fetching"
    /\ file' = [file EXCEPT ![url[t]] = Got(@, site[t])]
    /\ Goto(t, "md5")
    /\ UNCHANGED <<todo, url, site, tries, holder, stamp, gitVars>>

MoreSites(t) == site[t] < Sites

\* The command fails, or says that it succeeded and there is no file: the
\* next URI is tried, and after the last FetchError is raised.
FetchUriFails(t) ==
    /\ pc[t] = "fetching"
    /\ \E c \in Broken(file[url[t]], site[t]) : file' = [file EXCEPT ![url[t]] = c]
    /\ IF MoreSites(t)
       THEN Goto(t, "wget") /\ site' = [site EXCEPT ![t] = @ + 1] /\ UNCHANGED holder
       ELSE Fail(t) /\ UNCHANGED site
    /\ UNCHANGED <<todo, url, tries, stamp, gitVars>>

-----------------------------------------------------------------------------
(* Git.go, in the clone of the repository, which has no lock of its own. *)

MyRepo(t) == Repo[url[t]]

\* A tarball that can be read is taken as it is.
GitAccess(t) ==
    /\ pc[t] = "access"
    /\ Goto(t, IF file[url[t]] # "absent" THEN "md5"
               ELSE IF refs[MyRepo(t)] = None THEN "clone" ELSE "refs")
    /\ UNCHANGED <<todo, url, site, tries, holder, file, stamp, gitVars>>

\* The tag may be younger than the clone.  Cloning over a clone fails.
GitClone(t) ==
    /\ pc[t] = "clone"
    /\ \/ /\ refs[MyRepo(t)] = None
          /\ \E have \in SUBSET Url(MyRepo(t)) : refs' = [refs EXCEPT ![MyRepo(t)] = have]
          /\ Goto(t, "refs")
          /\ UNCHANGED holder
       \/ Fail(t) /\ UNCHANGED refs
    /\ UNCHANGED <<todo, url, site, tries, file, stamp, index, codir>>

WithTag(t) == [refs EXCEPT ![MyRepo(t)] = @ \cup {url[t]}]

\* Without the tag, everything but .git is removed, the checkouts that are
\* being made included, and the repository is fetched: a command that fails
\* can be one before or one after the tag has come.
GitRefs(t) ==
    /\ pc[t] = "refs"
    /\ IF url[t] \in refs[MyRepo(t)]
       THEN Goto(t, "readtree") /\ UNCHANGED <<refs, codir, holder>>
       ELSE /\ codir' = [f \in Git |-> IF f \in Url(MyRepo(t)) THEN None ELSE codir[f]]
            /\ \/ refs' = WithTag(t) /\ Goto(t, "readtree") /\ UNCHANGED holder
               \/ refs' \in {refs, WithTag(t)} /\ Fail(t)
    /\ UNCHANGED <<todo, url, site, tries, file, stamp, index>>

\* prunedir(codir); git read-tree tag
GitReadTree(t) ==
    /\ pc[t] = "readtree"
    /\ codir' = [codir EXCEPT ![url[t]] = None]
    /\ \/ /\ index' = [index EXCEPT ![MyRepo(t)] = url[t]]
          /\ Goto(t, "checkout")
          /\ UNCHANGED holder
       \/ Fail(t) /\ UNCHANGED index
    /\ UNCHANGED <<todo, url, site, tries, file, stamp, refs>>

\* git checkout-index writes what the index says.  What is left when it fails
\* is removed before the next read-tree.
GitCheckout(t) ==
    /\ pc[t] = "checkout"
    /\ \/ /\ codir' = [codir EXCEPT ![url[t]] = index[MyRepo(t)]]
          /\ Goto(t, "tar")
          /\ UNCHANGED holder
       \/ Fail(t) /\ UNCHANGED codir
    /\ UNCHANGED <<todo, url, site, tries, file, stamp, refs, index>>

GitTar(t) ==
    /\ pc[t] = "tar"
    /\ IF codir[url[t]] = None
       THEN Fail(t) /\ UNCHANGED file
       ELSE Goto(t, "taring") /\ file' = [file EXCEPT ![url[t]] = "partial"] /\ UNCHANGED holder
    /\ UNCHANGED <<todo, url, site, tries, stamp, gitVars>>

\* tar ends with an error if the files were removed under it.
GitTarEnds(t) ==
    /\ pc[t] = "taring"
    /\ IF codir[url[t]] = None
       THEN Fail(t) /\ UNCHANGED <<file, codir>>
       ELSE /\ file' = [file EXCEPT ![url[t]] = IF codir[url[t]] = url[t] THEN "good" ELSE "bad"]
            /\ codir' = [codir EXCEPT ![url[t]] = None]
            /\ Goto(t, "md5")
            /\ UNCHANGED holder
    /\ UNCHANGED <<todo, url, site, tries, stamp, refs, index>>
-----------------------------------------------------------------------------

\* Mutant: write_md5sum makes the stamp and then compares.
WriteMd5sumFirst(t) ==
    /\ pc[t] = "md5"
    /\ stamp' = [stamp EXCEPT ![url[t]] = TRUE]
    /\ IF url[t] \in Md5[t] /\ file[url[t]] # "good" THEN Fail(t) ELSE Goto(t, "unlock") /\ UNCHANGED holder
    /\ UNCHANGED <<todo, url, site, tries, file, gitVars>>

\* write_md5sum: what does not match the md5sum of this task's URL gets no stamp
\* and stays where it is.
WriteMd5sum(t) ==
    /\ pc[t] = "md5"
    /\ IF url[t] \in Md5[t] /\ file[url[t]] # "good"
       THEN Fail(t) /\ UNCHANGED stamp
       ELSE Goto(t, "unlock") /\ stamp' = [stamp EXCEPT ![url[t]] = TRUE] /\ UNCHANGED holder
    /\ UNCHANGED <<todo, url, site, tries, file, gitVars>>

UnlockUrl(t) ==
    /\ pc[t] = "unlock"
    /\ holder' = Released(t)
    /\ url' = [url EXCEPT ![t] = None]
    /\ Goto(t, "next")
    /\ UNCHANGED <<todo, site, tries, file, stamp, gitVars>>

\* Mutant: checksums.ini is only applied to what this task has fetched.
VerifiedOwn(t) == \A f \in Wants[t] \cap Listed[t] : site[t] = 1 \/ file[f] = "good"

\* The rest of base_do_fetch: checksums.ini, without the locks.
Verified(t) == \A f \in Wants[t] \cap Listed[t] : file[f] = "good"

CheckSums(t) ==
    /\ pc[t] = "next"
    /\ todo[t] = {}
    /\ Goto(t, IF Verified(t) THEN "done" ELSE "failed")
    /\ UNCHANGED <<todo, url, site, tries, holder, file, stamp, gitVars>>

\* The task and its command are killed (^C, a full disk under tar).
Kill(t) ==
    /\ t \in Mortal
    /\ pc[t] \notin {"done", "failed", "orphan"}
    /\ IF pc[t] = "fetching"
       THEN \E c \in Broken(file[url[t]], site[t]) : file' = [file EXCEPT ![url[t]] = c]
       ELSE UNCHANGED file
    /\ Fail(t)
    /\ UNCHANGED <<todo, url, site, tries, stamp, gitVars>>

\* Mutant: wget is started with its descriptors closed and does not keep the lock.
KillReleasing(t) ==
    /\ t \in Mortal
    /\ pc[t] = "fetching"
    /\ Goto(t, "orphan")
    /\ holder' = Released(t)
    /\ UNCHANGED <<todo, url, site, tries, file, stamp, gitVars>>

\* Only the process of the task is killed: its wget has inherited the lock.
KillLeavingWget(t) ==
    /\ t \in Mortal
    /\ pc[t] = "fetching"
    /\ Goto(t, "orphan")
    /\ UNCHANGED <<todo, url, site, tries, holder, file, stamp, gitVars>>

OrphanEnds(t) ==
    /\ pc[t] = "orphan"
    /\ \E c \in Broken(file[url[t]], site[t]) \cup {Got(file[url[t]], site[t])} :
          file' = [file EXCEPT ![url[t]] = c]
    /\ Fail(t)
    /\ UNCHANGED <<todo, url, site, tries, stamp, gitVars>>

\* A later bitbake runs the task again.
Again(t) ==
    /\ pc[t] = "failed"
    /\ tries[t] < MaxTries
    /\ tries' = [tries EXCEPT ![t] = @ + 1]
    /\ todo' = [todo EXCEPT ![t] = Wants[t]]
    /\ url' = [url EXCEPT ![t] = None]
    /\ Goto(t, "next")
    /\ UNCHANGED <<site, holder, file, stamp, gitVars>>

Works(t) ==
    \/ NextUrl(t) \/ LockUrl(t) \/ WriteMd5sum(t) \/ UnlockUrl(t) \/ CheckSums(t)
    \/ StartCommand(t) \/ FetchUriSucceeds(t) \/ FetchUriFails(t)
    \/ GitAccess(t) \/ GitClone(t) \/ GitRefs(t) \/ GitReadTree(t) \/ GitCheckout(t)
    \/ GitTar(t) \/ GitTarEnds(t) \/ OrphanEnds(t)

Next == \E t \in Task : Works(t) \/ Kill(t) \/ KillLeavingWget(t) \/ Again(t)

Spec == Init /\ [][Next]_vars

\* Processes run and commands end (wget has its own time-outs), and flock
\* serves those who wait in the order in which they came.
FairSpec == Spec /\ \A t \in Task : WF_vars(Works(t)) /\ SF_vars(LockUrl(t))

-----------------------------------------------------------------------------
TypeOK ==
    /\ pc \in [Task -> {"next", "lock", "wget", "fetching", "access", "clone", "refs", "readtree",
                        "checkout", "tar", "taring", "md5", "unlock", "orphan", "failed", "done"}]
    /\ todo \in [Task -> SUBSET File]
    /\ url \in [Task -> File \cup {None}]
    /\ site \in [Task -> 1..Sites]
    /\ tries \in [Task -> 1..MaxTries]
    /\ holder \in [File -> Task \cup {None}]
    /\ file \in [File -> Content]
    /\ stamp \in [File -> BOOLEAN]
    /\ refs \in [Repos -> (SUBSET Git) \cup {None}]
    /\ index \in [Repos -> File \cup {None}]
    /\ codir \in [Git -> File \cup {None}]

\* At no time do two commands write the same file of DL_DIR, the wget of a
\* task that was killed included: the lock around m.go is what a command
\* inherits, not what its task remembers.
Writing(t) == pc[t] \in {"fetching", "orphan", "taring"}
OneWriter == \A t, u \in Task : t # u /\ Writing(t) /\ Writing(u) => url[t] # url[u]

\* Every URL that ends in this name has an md5sum=.
Summed(f) == \A t \in Task : f \in Wants[t] => f \in Md5[t]

\* A file with a stamp is whole, what md5sum= says if every URL of its name has
\* one, and for git the tree of its tag: the stamp is what every later fetch
\* relies on, in this bitbake and in others, after deaths and mirrors that send
\* something else.  (A git tarball whose tar was killed is taken as it is by
\* the next execution: tasks that use git are not in Mortal where this is
\* checked.)
StampedIsGood ==
    \A f \in File : stamp[f] => \/ file[f] = "good"
                                \/ file[f] = "bad" /\ f \notin Git /\ ~Summed(f)

\* A do_fetch that succeeds leaves every file of its SRC_URI stamped, and right
\* if checksums.ini has its URL or every URL of its name has an md5sum=,
\* whoever fetched it.  (An md5sum= of this URL alone is not compared with what
\* was fetched, and stamped, for another.)
DoneIsVerified ==
    \A t \in Task : pc[t] = "done" =>
        \A f \in Wants[t] : stamp[f] /\ (f \in Listed[t] \/ Summed(f) => file[f] = "good")

\* No command is started for a file that has a stamp, however many tasks
\* were waiting for the lock when it was made.
NoSecondDownload ==
    [][\A t \in Task : pc[t] \notin {"fetching", "taring"} /\ pc'[t] \in {"fetching", "taring"}
                          => ~stamp[url[t]]]_vars

\* Every execution of do_fetch ends: a task that waits for a lock gets it,
\* also from one that was killed, and the list of mirrors comes to an end.
FetchEnds == \A t \in Task : pc[t] = "next" ~> pc[t] \in {"done", "failed"}

=============================================================================
