---------------------------- MODULE MCRmaTransfer ----------------------------
(* Instances of RmaTransfer for TLC. *)
EXTENDS RmaTransfer, TLC

Seg(ta, offset, length) == [ta |-> ta, offset |-> offset, length |-> length]

\* A request of 2 bytes is one segment; one of 3 bytes is cut in several ways, with ranges that
\* overlap before and behind and a hole that only another cut fills.
Overlapping == {Seg(1, 0, 2), Seg(2, 1, 2), Seg(3, 2, 1)}

OneJetty == [r \in Requests |-> 1]
=============================================================================
