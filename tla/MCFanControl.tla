---------------------------- MODULE MCFanControl ----------------------------
(* An instance of FanControl for TLC: one D-Bus caller next to the job, two *)
(* fans, one profile with a curve for each of them, and ids that a caller   *)
(* may pass, the last of which is past the end of the packed word.          *)
EXTENDS FanControl

CONSTANT c1

MCClients == {c1}
MCCurveSets == {<<0, 1>>}
MCFanIds == {0, 1, 2}
=============================================================================
