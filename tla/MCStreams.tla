------------------------------ MODULE MCStreams ------------------------------
EXTENDS Transfers

CONSTANT s1
=============================================================================
