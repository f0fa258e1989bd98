----------------------------- MODULE MCEventBus -----------------------------
EXTENDS EventBus
CONSTANT c1
=============================================================================
