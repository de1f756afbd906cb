SPECIFICATION Spec
CONSTANT Platforms <- All
INVARIANT OrderKept
PROPERTY NeverWeakened
CHECK_DEADLOCK FALSE
