----------------------------- MODULE MCLabRuns -----------------------------
(* Tasks of one simulator share a run directory. *)
EXTENDS LabRuns

MCSimOf == [t \in Tasks |-> "gem5"]
=============================================================================
