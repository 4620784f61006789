----------------------------- MODULE SendWorkerMC -----------------------------
EXTENDS SendWorker, TLC
CONSTANTS m1
OneMailing == [d \in Deliveries |-> m1]
Symmetry == Permutations(Deliveries) \cup Permutations(Workers)
===============================================================================
