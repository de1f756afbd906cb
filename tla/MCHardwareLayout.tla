-------------------------- MODULE MCHardwareLayout --------------------------
(* All the machines up to the bounds, with too few and too many enclaves.    *)
EXTENDS HardwareLayout
=============================================================================
