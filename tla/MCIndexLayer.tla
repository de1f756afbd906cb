---------------------------- MODULE MCIndexLayer ----------------------------
(* Small instances of IndexLayer.  Three keys without a level raise one      *)
(* inode, seven raise a third row, fifteen an inode in it.                   *)
EXTENDS IndexLayer

\* The operations of the program, from the population through the reset.
Program ==
  [keys |-> 1 .. 5, searched |-> {2, 4}, populated |-> {1, 3, 5}, alternating |-> TRUE,
   ratio |-> 10, jobs |-> 5, rounds |-> 3]

\* Any key deleted, three rows, the index lowered at every opportunity.
Rows3 ==
  [keys |-> 1 .. 7, searched |-> {6}, populated |-> 1 .. 7 \ {6}, alternating |-> FALSE,
   ratio |-> 0, jobs |-> 2, rounds |-> 3]

\* A key of the third row deleted, and the index lowered; nobody searches.
Tall ==
  [keys |-> 1 .. 15, searched |-> {}, populated |-> 1 .. 15, alternating |-> FALSE,
   ratio |-> 0, jobs |-> 2, rounds |-> 3]

All   == {Program, Rows3, Tall}
Short == {[Program EXCEPT !.jobs = 4]}
=============================================================================
