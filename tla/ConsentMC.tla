------------------------------ MODULE ConsentMC -------------------------------
EXTENDS Consent, TLC

CONSTANT l1

Symmetry == Permutations(Contacts) \cup Permutations(Mailings) \cup Permutations(Requests)
                \cup Permutations(Emails)
===============================================================================
