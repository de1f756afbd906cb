--------------------------- MODULE MCMeasurement ----------------------------
(* Two threads and main, two keys, the default mode and the others.          *)
EXTENDS Measurement

Modes ==
  {[alternate |-> FALSE, effective |-> TRUE,  update |-> 60],
   [alternate |-> TRUE,  effective |-> TRUE,  update |-> 60],
   [alternate |-> TRUE,  effective |-> FALSE, update |-> 50],
   [alternate |-> TRUE,  effective |-> TRUE,  update |-> 0]}
=============================================================================
