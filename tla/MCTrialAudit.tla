---------------------------- MODULE MCTrialAudit ----------------------------
EXTENDS TrialAudit

Trial(verb, bidirectional, sizes) ==
    [verb |-> verb, bidirectional |-> bidirectional, sizes |-> sizes,
     latency |-> FALSE, drain |-> TRUE, retry |-> TRUE]

\* Every verb, both directions of a READ, messages below and above one segment and two cases;
\* a trial that also measures latency, one without draining and one without retransmission.
SomeOptions ==
    {Trial("write", TRUE, <<1>>), Trial("send", TRUE, <<2>>), Trial("read", TRUE, <<1>>),
     Trial("read", FALSE, <<3>>), Trial("read", FALSE, <<1, 2>>),
     [Trial("read", FALSE, <<1>>) EXCEPT !.latency = TRUE],
     [Trial("read", FALSE, <<1>>) EXCEPT !.drain = FALSE],
     [Trial("read", FALSE, <<2>>) EXCEPT !.retry = FALSE]}
=============================================================================
