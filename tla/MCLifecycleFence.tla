-------------------------- MODULE MCLifecycleFence -------------------------
EXTENDS LifecycleFence

\* The measured combinations, and the one in which the loop and the guest both switch.
MCMeasured ==
    {[auto |-> TRUE, benchmark |-> "bandwidth"], [auto |-> FALSE, benchmark |-> "latency"],
     [auto |-> TRUE, benchmark |-> "plain"]}
MCAutoLatency == {[auto |-> TRUE, benchmark |-> "latency"]}
=============================================================================
