--------------------------- MODULE RiskReservationsMC ---------------------------
\* Instance of RiskReservations: a paper run and a learning run.
EXTENDS RiskReservations
CONSTANTS f1, f2, f3, run, learner
================================================================================
