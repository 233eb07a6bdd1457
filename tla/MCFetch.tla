------------------------------ MODULE MCFetch -------------------------------
(***************************************************************************)
(* Instances of Fetch for TLC.  src.tgz and doc.tgz come over http,        *)
(* lib_1 and lib_2 are two tags of one git repository.                     *)
(***************************************************************************)
EXTENDS Fetch

\* Two recipes that share a tarball.
MixedWants == [app |-> {"src.tgz", "doc.tgz"}, lib |-> {"src.tgz", "lib_1"}]
\* Each of the two has src.tgz checked in another way.
MixedMd5 == [app |-> {"doc.tgz", "src.tgz"}, lib |-> {}]
MixedListed == [app |-> {}, lib |-> {"src.tgz"}]
MixedRepo == [lib_1 |-> "lib"]

\* Two recipes that use different tags of one repository.
TagWants == [app |-> {"lib_1"}, lib |-> {"lib_2"}]
NoSums == [t \in Task |-> {}]
TagRepo == [lib_1 |-> "lib", lib_2 |-> "lib"]
=============================================================================
