--------------------------- MODULE MCPollScheduler ---------------------------
(* An instance of PollScheduler for TLC: a machine without fan control, so  *)
(* that two jobs share the scheduler, and payloads that differ for both and *)
(* ask for less than the minimum.                                           *)
EXTENDS PollScheduler

Payload(c, g, o) == [cpu |-> c, gpu |-> g, fans |-> 2, oc |-> o]

MCJobs == {"hardware_monitor", "gpu_overclock"}
MCRates == {0, 2}
MCPayloads == {Payload(2, 2, 0), Payload(0, 2, 2)}
=============================================================================
