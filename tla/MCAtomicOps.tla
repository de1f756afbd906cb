----------------------------- MODULE MCAtomicOps -----------------------------
EXTENDS AtomicOps

Plat(a, o) == [arch |-> a, options |-> o]

All ==
    {Plat("x86_64", {}), Plat("x86_64", {"AO_CMPXCHG16B_AVAILABLE"}),
     Plat("x86_64", {"AO_NO_DD_ORDERING"}),
     Plat("x86", {}), Plat("x86", {"AO_USE_PENTIUM4_INSTRS"}),
     Plat("sparc", {}), Plat("sparc", {"AO_NO_SPARC_V9"}),
     Plat("ia64", {}), Plat("ia64", {"_ILP32"}),
     Plat("powerpc", {}), Plat("powerpc", {"__powerpc64__"})}
==============================================================================
