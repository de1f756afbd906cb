------------------------------- MODULE MCEstm -------------------------------
EXTENDS Estm

Two == {"t1", "t2"}
Apart == [a \in Addresses |-> a]
Shared == [a \in Addresses |-> 1]

\* a thread of normal transactions that stores whole words
Normal(byte) ==
    [types |-> {"NL"}, nested |-> {}, ro |-> {FALSE}, byte |-> byte, masks |-> {Bytes},
     aborts |-> FALSE, ends |-> FALSE, starts |-> 2, accesses |-> 2]
Clients(c1, c2) == [t \in Threads |-> IF t = "t1" THEN c1 ELSE c2]

\* two normal transactions in conflict, of which one stores single bytes
Conflict == [stripe |-> Apart, version_max |-> 9, rw_set_size |-> 4,
             clients |-> Clients([Normal(1) EXCEPT !.masks = {{1}}, !.starts = 1, !.accesses = 3], Normal(2))]
\* an elastic transaction whose reads a normal one overtakes
Elastic == [Conflict EXCEPT !.clients["t1"].types = {"EL"}, !.clients["t1"].accesses = 3]
\* both addresses under one lock, stores of a byte or of nothing, nesting, aborts, read-only
\* transactions
Covered == [Conflict EXCEPT !.stripe = Shared, !.rw_set_size = 1,
                            !.clients["t1"].masks = {{}, {1}}, !.clients["t1"].nested = {"NL"},
                            !.clients["t1"].accesses = 3, !.clients["t1"].starts = 2,
                            !.clients["t1"].ro = BOOLEAN, !.clients["t1"].aborts = TRUE,
                            !.clients["t2"].accesses = 1, !.clients["t2"].starts = 1]
\* the clock rolls over while threads come and go
Rolling(byte) == [Normal(byte) EXCEPT !.accesses = 1, !.ends = TRUE]
Rollover == [Conflict EXCEPT !.version_max = 2, !.clients = Clients(Rolling(1), Rolling(2))]
All == {Conflict, Elastic, Covered, Rollover}
=============================================================================
