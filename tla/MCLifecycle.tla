---------------------------- MODULE MCLifecycle -----------------------------
(* Two enclaves.  The index has a second row from eight keys each on.        *)
EXTENDS Lifecycle
=============================================================================
