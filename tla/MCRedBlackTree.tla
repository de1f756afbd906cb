--------------------------- MODULE MCRedBlackTree ---------------------------
EXTENDS RedBlackTree

Load == [keys |-> 1..9, values |-> {1}, loading |-> TRUE]
Shapes == [keys |-> 1..5, values |-> {1}, loading |-> FALSE]
Values == [keys |-> 1..3, values |-> {1, 2}, loading |-> FALSE]
All == {Load, Shapes, Values}
=============================================================================
