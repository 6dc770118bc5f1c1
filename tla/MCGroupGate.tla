---------------------------- MODULE MCGroupGate ----------------------------
EXTENDS GroupGate
=============================================================================
