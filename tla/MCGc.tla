-------------------------------- MODULE MCGc --------------------------------
EXTENDS Gc, TLC

CONSTANTS t1, t2, a1, a2, a3, a4

Threads == {t1, t2}
Addrs == {a1, a2, a3, a4}
Starts == [t \in Threads |-> IF t = t1 THEN 3 ELSE 1]
Lives == [t \in Threads |-> IF t = t1 THEN 1 ELSE 2]
Sym == Permutations(Addrs \ Start)
=============================================================================
