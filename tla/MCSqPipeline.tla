---- MODULE MCSqPipeline ----
(* TLC instances of SqPipeline. *)
EXTENDS SqPipeline

Shape(op, ordered, bb, signaled) ==
    [op |-> op, ordered |-> ordered, bb |-> bb, signaled |-> signaled]

\* Each operation, and each way a WQE can be refused, one basic block long.
KindsAll == {Shape("READ", FALSE, 1, TRUE), Shape("WRITE", FALSE, 1, TRUE),
             Shape("LONG", FALSE, 1, FALSE), Shape("EMPTY", FALSE, 1, TRUE),
             Shape("BAD", FALSE, 1, TRUE), Shape("TORN", FALSE, 1, TRUE),
             Shape("SEND", FALSE, 1, TRUE)}

\* Ordered and unordered, signaled and not, one to three basic blocks.
KindsSizes == {Shape("READ", TRUE, 1, TRUE), Shape("READ", FALSE, 1, TRUE),
               Shape("WRITE", FALSE, 1, FALSE), Shape("INLINE", FALSE, 3, TRUE),
               Shape("SEND", FALSE, 2, TRUE)}
=============================
