----------------------------- MODULE MCLockFile -----------------------------
(***************************************************************************)
(* Instances of LockFile for TLC.  One inode more than processes: each can *)
(* have one open, and the path can need another.                           *)
(***************************************************************************)
EXTENDS LockFile
=============================================================================
