---------------------------- MODULE MCDataSmart ----------------------------
(***************************************************************************)
(* Instances of DataSmart for TLC: A and A_arm, the name B_key that is     *)
(* expanded to A_arm, and OVERRIDES.                                       *)
(***************************************************************************)
EXTENDS DataSmart

A == <<"A">>
A_arm == <<"A", "arm">>
A_task == <<"A", "task">>
B == <<"B">>

MCVar == {A, A_arm, A_task, B, OVERRIDES}
MCGiven ==
    [v \in MCVar |-> CASE v = A -> <<[text |-> "a"]>>
                       [] v = OVERRIDES -> <<[text |-> "arm"]>>
                       [] OTHER -> None]
MCAssignments ==
    {<<A_arm, <<[text |-> "t"]>>>>, <<B, <<[ref |-> A]>>>>,
     <<OVERRIDES, <<[text |-> "task"], [text |-> "arm"]>>>>}
MCAppends ==
    {<<A, "_append", None, "x">>, <<A, "_append", "task", "y">>, <<B, "_prepend", None, "z">>}
MCRenames == {<<B, A_task>>}
MCDeleted == {A}
MCRead == {B}

ASSUME TextsApart
=============================================================================
