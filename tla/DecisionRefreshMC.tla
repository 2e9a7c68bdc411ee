--------------------------- MODULE DecisionRefreshMC ---------------------------
\* Instance of DecisionRefresh: the service and an operator.
EXTENDS DecisionRefresh
CONSTANTS svc, op
================================================================================
