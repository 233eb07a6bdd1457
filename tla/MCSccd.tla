------------------------------- MODULE MCSccd -------------------------------
(***************************************************************************)
(* Instances of Sccd for TLC.                                              *)
(***************************************************************************)
EXTENDS Sccd

Ask(p, l) == [power |-> p, led |-> l]

\* scc -l blue, as at the end of the boot, and scc -d -p advoff
MCPacket == [c \in Client |-> IF c \in Direct THEN Ask("advstop", Zero) ELSE Ask(Zero, "blue")]

\* Nothing happens, or power and LED change.
MCJunk == {Ask("run", "blue"), Ask("stop", "red")}
=============================================================================
