----------------------------- MODULE MCOpBuffer -----------------------------
(* Small instances of OpBuffer: operations are the insertion of a node      *)
(* under a key and the removal of a key.                                    *)
EXTENDS OpBuffer
=============================================================================
