-------------------------- MODULE MCHandlingCycles --------------------------
\* Instances of HandlingCycles for TLC.
EXTENDS HandlingCycles
=============================================================================
