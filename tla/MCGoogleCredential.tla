-------------------------- MODULE MCGoogleCredential --------------------------
\* Instances of GoogleCredential for TLC.
EXTENDS GoogleCredential, TLC

Calls ==
  Permutations(Refreshers) \cup Permutations(Disconnects) \cup Permutations(Accounts)
=============================================================================
