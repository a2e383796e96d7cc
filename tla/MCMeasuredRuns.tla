--------------------------- MODULE MCMeasuredRuns --------------------------
EXTENDS MeasuredRuns
=============================================================================
