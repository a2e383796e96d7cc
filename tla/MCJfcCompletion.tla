-------------------------- MODULE MCJfcCompletion --------------------------
EXTENDS JfcCompletion

\* All JFCs share one CEQ.
OneCeq == [j \in Jfcs |-> 1]
=============================================================================
