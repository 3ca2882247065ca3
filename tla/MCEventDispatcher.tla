--------------------------- MODULE MCEventDispatcher ---------------------------
EXTENDS EventDispatcher, TLC
CONSTANTS s1, s2, w1, w2, w3
Alike == Permutations(Sender) \cup Permutations(Worker)
===============================================================================
