-------------------------- MODULE MCSignalTransfer --------------------------
EXTENDS SignalTransfer
=============================================================================
