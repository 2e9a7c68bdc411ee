---------------------------- MODULE StageDrainMC ----------------------------
\* Instances of StageDrain: two services, or a service and an operator.
EXTENDS StageDrain
CONSTANTS gh1, gh2, op1
Services == {gh1, gh2}
=============================================================================
