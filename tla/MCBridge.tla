------------------------------ MODULE MCBridge ------------------------------
EXTENDS VxBridge
MCThreads == {"t1", "t2"}
=============================================================================
