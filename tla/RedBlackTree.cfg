SPECIFICATION Spec
CONSTANT Settings <- All
INVARIANTS RedBlack KeepsDictionary
