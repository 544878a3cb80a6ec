---------------------------- MODULE MCCheckBlock ----------------------------
EXTENDS CheckBlock
=============================================================================
