---------------------------- MODULE MCGuiClient ----------------------------
(* Instances of GuiClient for TLC: one component, two requests at a time;   *)
(* GuiClient.cfg replaces the connection at the second failure in a row,    *)
(* GuiReconnect.cfg has the code's limit of ten.                            *)
EXTENDS GuiClient, TLC

\* The refresh tasks are interchangeable.
MCSymmetry == Permutations(Tasks)
=============================================================================
