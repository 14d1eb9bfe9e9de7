----------------------------- MODULE MCSession -----------------------------
EXTENDS Session, TLC

Interchangeable ==
  Permutations(Calls) \cup Permutations(Emails) \cup Permutations(Secrets) \cup Permutations(Names)
=============================================================================
