------------------------------ MODULE AtomicOps ------------------------------
(***************************************************************************)
(* How the preprocessor builds the atomic operations of src/src/atomic_ops *)
(* for one platform. The header of the platform defines a few operations   *)
(* in assembly, generalize.h and generalize-small.h derive the others, and *)
(* each line of them depends on which AO_HAVE_ macros are set when it is   *)
(* reached. hosk relies on the ordering that the suffix of an operation    *)
(* promises: AO_compare_and_swap_full for CAS, AO_fetch_and_add1_full and  *)
(* AO_fetch_and_add_full for FAI and IAF, AO_load_full, AO_store_full.     *)
(*                                                                         *)
(* An operation is <<size, operation, suffix>>, where size "" is AO_t. A   *)
(* definition is either assembly or a sequence of other operations; what   *)
(* it computes is left out, what it orders is kept.                        *)
(***************************************************************************)
EXTENDS Naturals, SequencesExt

\* the platforms: an architecture and the macros given on the command line
CONSTANT Platforms

Architectures == {"x86_64", "x86", "sparc", "ia64", "powerpc"}
Options == {"AO_USE_PENTIUM4_INSTRS", "AO_CMPXCHG16B_AVAILABLE", "AO_WEAK_DOUBLE_CAS_EMULATION",
            "AO_NO_SPARC_V9", "_ILP32", "__powerpc64__", "AO_NO_DD_ORDERING"}

ASSUME PlatformsAssumption ==
    Platforms \subseteq [arch : Architectures, options : SUBSET Options]

VARIABLES
    platform,   \* what the program is compiled for
    pos,        \* the next line of the headers
    def,        \* each operation defined so far: its body and what it orders
    have        \* the AO_HAVE_ macros set so far

vars == <<platform, pos, def, have>>

Word(op, suffix) == <<"", op, suffix>>
NopFull == Word("nop", "full")
Asm(kind) == <<"asm", kind, "">>

(***************************************************************************)
(* What a definition orders: pairs of the reads and writes that come       *)
(* earlier (ER, EW), its own (OR, OW) and those that come later (LR, LW).  *)
(***************************************************************************)
Earlier == {"ER", "EW"}
Later == {"LR", "LW"}
Own == {"OR", "OW"}

Reads(op) == op \notin {"nop", "store"}
Writes(op) == op \notin {"nop", "load"}
OwnOf(op) == (IF Reads(op) THEN {"OR"} ELSE {}) \cup (IF Writes(op) THEN {"OW"} ELSE {})

Everything == (Earlier \X (Own \cup Later)) \cup (Own \X Later)
Barrier == Earlier \X Later
AllButStoreLoad == Barrier \ {<<"EW", "LR">>}

\* the processor-ordered machines keep all but a write before a later read once
\* the compiler keeps the program order; the others promise nothing by themselves
Primitive(p, kind) ==
    CASE kind = "locked" -> Everything
      [] kind = "full" -> Barrier
      [] kind = "lwsync" -> AllButStoreLoad
      [] kind = "compiler" -> IF p.arch \in {"x86_64", "x86", "sparc"} THEN AllButStoreLoad ELSE {}
      [] kind = "acquire" -> Own \X Later
      [] kind = "release" -> Earlier \X Own
      [] kind = "plain" -> {}

Fences == {Asm("full"), Asm("lwsync"), Asm("compiler")}
IsFence(part) == part \in Fences \/ part[2] = "nop"

Closure(R) ==
    LET Via(S, y) == S \cup {<<x, z>> \in Everything : <<x, y>> \in S /\ <<y, z>> \in S}
    IN Via(Via(R, "OR"), "OW")

\* a fence before the operation takes it for a later access, one behind for an earlier
AsLater == [e \in Own |-> IF e = "OR" THEN "LR" ELSE "LW"]
AsEarlier == [e \in Own |-> IF e = "OR" THEN "ER" ELSE "EW"]

\* what the sequence "as" orders when op is the operation it makes
Orders(p, defined, op, as) ==
    LET OfPart(i) == IF as[i][1] = "asm" THEN Primitive(p, as[i][2]) ELSE defined[as[i]].orders
        mine == {i \in DOMAIN as : ~IsFence(as[i])}
        touched == IF op = "nop" THEN Own ELSE OwnOf(op)
        Before(i) == {<<x, o>> \in Earlier \X touched :
                        (\E j \in mine : i < j) /\ <<x, AsLater[o]>> \in OfPart(i)}
        Behind(i) == {<<o, y>> \in touched \X Later :
                        (\E j \in mine : j < i) /\ <<AsEarlier[o], y>> \in OfPart(i)}
        all == Closure(UNION {OfPart(i) \cup Before(i) \cup Behind(i) : i \in DOMAIN as})
        seen == Earlier \cup Later \cup OwnOf(op)
    IN {e \in all : e[1] \in seen /\ e[2] \in seen}

(***************************************************************************)
(* The lines of the headers. If guards the lines of its body; Let defines  *)
(* an operation and sets macros; Derive is the usual pair of both.         *)
(***************************************************************************)
None == Word("", "")
Let(to, as, flags) ==
    <<[need |-> {}, lack |-> {}, skip |-> 0, to |-> to, as |-> as, flags |-> flags]>>
If(need, lack, body) ==
    <<[need |-> need, lack |-> lack, skip |-> Len(body), to |-> None, as |-> <<>>, flags |-> {}]>>
        \o body
Make(to, as) == Let(to, as, {to})
DeriveAlways(to, as) == If(ToSet(as), {}, Make(to, as))  \* mutant: without its #if !defined
Derive(to, as) == If(ToSet(as), {to}, Make(to, as))
DeriveUnflagged(to, as) == If(ToSet(as), {to}, Let(to, as, {}))

\* F applied to each element of s, the results one behind the other
Each(s, F(_)) == FlattenSeq([i \in DOMAIN s |-> F(s[i])])

--------------------------------------------------------------------------------
(* The parts that the families of operations share.                            *)

Weaken(z, op) ==
    If({<<z, op, "full">>}, {},
       Each(<<"release", "acquire", "write", "read">>,
            LAMBDA x : If({}, {<<z, op, x>>}, Make(<<z, op, x>>, <<<<z, op, "full">>>>))))

Plain(z, op) ==
    Each(<<"release", "acquire", "write", "read">>,
         LAMBDA x : Derive(<<z, op, "">>, <<<<z, op, x>>>>))

Strengthen(z, op) == Derive(<<z, op, "full">>, <<NopFull, <<z, op, "acquire">>>>)

\* or and the small fetch_and_add: the definition is there, its macro is not
StrengthenUnflagged(z, op) ==
    DeriveUnflagged(<<z, op, "full">>, <<NopFull, <<z, op, "acquire">>>>)

Halves(z, op) ==
    Each(<<<<"release_write", "write">>, <<"release_write", "release">>,
           <<"acquire_read", "read">>, <<"acquire_read", "acquire">>>>,
         LAMBDA h : Derive(<<z, op, h[1]>>, <<<<z, op, h[2]>>>>))

DataDependency(p, z, op) ==
    LET from == <<z, op, IF "AO_NO_DD_ORDERING" \in p.options THEN "acquire_read" ELSE "">>
    IN If({from}, {}, Make(<<z, op, "dd_acquire_read">>, <<from>>))

\* what follows from the operations of a family that exist already
Rest(p, z, op) ==
    Weaken(z, op) \o Plain(z, op) \o Strengthen(z, op) \o Halves(z, op) \o DataDependency(p, z, op)

\* a loop around the compare_and_swap with the same suffix
Loops(z, op, suffixes) ==
    Each(suffixes, LAMBDA x : Derive(<<z, op, x>>, <<<<z, "compare_and_swap", x>>>>))

\* the eight variants of op made from those of another operation
From(z, op, base) ==
    Each(<<"full", "release", "acquire", "write", "read", "release_write", "acquire_read", "">>,
         LAMBDA x : Derive(<<z, op, x>>, <<<<z, base, x>>>>))

\* the operation with a full fence on the side its suffix names
Fenced(z, op) ==
    Derive(<<z, op, "acquire">>, <<<<z, op, "">>, NopFull>>)
        \o Derive(<<z, op, "release">>, <<NopFull, <<z, op, "">>>>)

LoadRest(p, z) ==
    Derive(<<z, "load", "acquire">>, <<<<z, "load", "">>, NopFull>>)
        \o Derive(<<z, "load", "read">>, <<<<z, "load", "">>, Word("nop", "read")>>)
        \o Derive(<<z, "load", "full">>, <<NopFull, <<z, "load", "acquire">>>>)
        \o Derive(<<z, "load", "acquire_read">>, <<<<z, "load", "read">>>>)
        \o Derive(<<z, "load", "">>, <<<<z, "load", "acquire_read">>>>)
        \o DataDependency(p, z, "load")

\* h[1] := h[2], both suffixes of op
Pairs(z, op, hs) == Each(hs, LAMBDA h : Derive(<<z, op, h[1]>>, <<<<z, op, h[2]>>>>))

--------------------------------------------------------------------------------
(* generalize.h                                                                *)

\* AO_TS_t is a char, or an AO_t on powerpc
TsCas(p, x) == <<IF p.arch = "powerpc" THEN "" ELSE "char", "compare_and_swap", x>>

TestAndSetFromCas(p) ==
    If({}, {Word("test_and_set", x) : x \in {"", "release", "acquire", "read", "full"}},
       Each(<<"full", "acquire", "release", "">>,
            LAMBDA x : If({TsCas(p, x)}, {}, Make(Word("test_and_set", x), <<TsCas(p, x)>>)))
       \o Derive(Word("test_and_set", "acquire"), <<Word("test_and_set", ""), NopFull>>))

Nops ==
    If({}, {Word("nop", "")}, Make(Word("nop", ""), <<>>))
        \o Derive(NopFull, <<Word("test_and_set", "full")>>)
        \o Derive(Word("nop", "read"), <<NopFull>>)
        \o Derive(Word("nop", "write"), <<NopFull>>)

Load(p) ==
    Pairs("", "load", <<<<"acquire", "full">>, <<"", "acquire">>, <<"read", "full">>,
                        <<"acquire_read", "acquire">>>>)
        \o LoadRest(p, "")

\* mutant: no fence between store_full and what follows it
StoreRestUnfenced(z) ==
    Derive(<<z, "store", "release">>, <<NopFull, <<z, "store", "">>>>)
        \o Derive(<<z, "store", "full">>, <<<<z, "store", "release">>>>)

StoreRest(z) ==
    Derive(<<z, "store", "release">>, <<NopFull, <<z, "store", "">>>>)
        \o Derive(<<z, "store", "write">>, <<Word("nop", "write"), <<z, "store", "">>>>)
        \o Derive(<<z, "store", "release_write">>, <<<<z, "store", "write">>>>)
        \o Derive(<<z, "store", "full">>, <<<<z, "store", "release">>, NopFull>>)

Store ==
    Pairs("", "store", <<<<"release", "full">>, <<"", "release">>, <<"write", "full">>,
                         <<"release_write", "release">>, <<"", "write">>>>)
        \o StoreRest("")

TestAndSetFenced ==
    Derive(Word("test_and_set", "release"), <<NopFull, Word("test_and_set", "")>>)
        \o Derive(Word("test_and_set", "acquire"), <<Word("test_and_set", ""), NopFull>>)

FetchAndAddLoops == Loops("", "fetch_and_add", <<"full", "acquire", "release", "">>)
FetchAndAddRest(p) == Rest(p, "", "fetch_and_add")

FetchAndAdd1(p) == From("", "fetch_and_add1", "fetch_and_add") \o Rest(p, "", "fetch_and_add1")
FetchAndSub1(p) == From("", "fetch_and_sub1", "fetch_and_add") \o Rest(p, "", "fetch_and_sub1")

AtomicOr ==
    Loops("", "or", <<"full">>) \o Weaken("", "or") \o Plain("", "or")
        \o StrengthenUnflagged("", "or") \o Halves("", "or")

TestAndSet(p) == Rest(p, "", "test_and_set")
CompareAndSwap(p) == Fenced("", "compare_and_swap") \o Rest(p, "", "compare_and_swap")

CompareDoubleAndSwapDouble(p) ==
    Fenced("", "compare_double_and_swap_double") \o Rest(p, "", "compare_double_and_swap_double")
CompareAndSwapDouble(p) ==
    Fenced("", "compare_and_swap_double") \o Rest(p, "", "compare_and_swap_double")
DoubleCompareAndSwap ==
    Each(<<"release", "acquire", "full">>,
         LAMBDA x : Derive(Word("double_compare_and_swap", x),
                           <<Word("compare_double_and_swap_double", x)>>))

--------------------------------------------------------------------------------
(* generalize-small.h: one copy of each part for char, for short and for int   *)

SmallLoad(p, z) ==
    Pairs(z, "load", <<<<"", "acquire">>, <<"acquire", "full">>, <<"read", "full">>,
                       <<"acquire_read", "acquire">>>>)
        \o LoadRest(p, z)

SmallStore(z) ==
    Pairs(z, "store", <<<<"", "release">>, <<"release", "full">>, <<"write", "full">>,
                        <<"release_write", "release">>, <<"", "write">>>>)
        \o StoreRest(z)

SmallFetchAndAdd(p, z) ==
    Loops(z, "fetch_and_add", <<"full", "acquire", "release">>)
        \o Weaken(z, "fetch_and_add") \o Plain(z, "fetch_and_add")
        \o StrengthenUnflagged(z, "fetch_and_add") \o Halves(z, "fetch_and_add")
        \o DataDependency(p, z, "fetch_and_add")

SmallFetchAndAdd1(p, z) == From(z, "fetch_and_add1", "fetch_and_add") \o Rest(p, z, "fetch_and_add1")
SmallFetchAndSub1(p, z) == From(z, "fetch_and_sub1", "fetch_and_add") \o Rest(p, z, "fetch_and_sub1")

CharLoad(p) == SmallLoad(p, "char")
CharStore == SmallStore("char")
CharFetchAndAdd(p) == SmallFetchAndAdd(p, "char")
CharFetchAndAdd1(p) == SmallFetchAndAdd1(p, "char")
CharFetchAndSub1(p) == SmallFetchAndSub1(p, "char")

ShortLoad(p) == SmallLoad(p, "short")
ShortStore == SmallStore("short")
ShortFetchAndAdd(p) == SmallFetchAndAdd(p, "short")
ShortFetchAndAdd1(p) == SmallFetchAndAdd1(p, "short")
ShortFetchAndSub1(p) == SmallFetchAndSub1(p, "short")

IntLoad(p) == SmallLoad(p, "int")
IntStore == SmallStore("int")
IntFetchAndAdd(p) == SmallFetchAndAdd(p, "int")
IntFetchAndAdd1(p) == SmallFetchAndAdd1(p, "int")
IntFetchAndSub1(p) == SmallFetchAndSub1(p, "int")

GeneralizeSmall(p) ==
    CharLoad(p) \o CharStore \o CharFetchAndAdd(p) \o CharFetchAndAdd1(p) \o CharFetchAndSub1(p)
        \o ShortLoad(p) \o ShortStore \o ShortFetchAndAdd(p) \o ShortFetchAndAdd1(p)
        \o ShortFetchAndSub1(p)
        \o IntLoad(p) \o IntStore \o IntFetchAndAdd(p) \o IntFetchAndAdd1(p) \o IntFetchAndSub1(p)

Generalize(p) ==
    TestAndSetFromCas(p) \o Nops \o Load(p) \o Store \o TestAndSetFenced
        \o FetchAndAddLoops \o FetchAndAddRest(p) \o FetchAndAdd1(p) \o FetchAndSub1(p)
        \o AtomicOr \o TestAndSet(p) \o CompareAndSwap(p) \o GeneralizeSmall(p)
        \o CompareDoubleAndSwapDouble(p) \o CompareAndSwapDouble(p) \o DoubleCompareAndSwap

--------------------------------------------------------------------------------
(* The headers of the platforms. An operation of theirs is not guarded.        *)

Sizes == <<"", "char", "short", "int">>
Primitives(kind, names) == Each(names, LAMBDA n : Make(n, <<Asm(kind)>>))

AlignedLoadStore == Primitives("plain", <<Word("load", ""), Word("store", "")>>)

\* the nop comes with AO_HAVE_NOP_READ, which nothing tests
ReadOrdered ==
    Let(Word("nop", "read"), <<Asm("compiler")>>, {})
        \o Each(Sizes,
                LAMBDA z : If({<<z, "load", "">>}, {},
                    Make(<<z, "load", "read">>, <<<<z, "load", "">>, Asm("compiler")>>)
                    \o Make(<<z, "load", "acquire">>, <<<<z, "load", "read">>>>)))

\* and this one with AO_HAVE_NOP_WRITE
OrderedExceptWr ==
    ReadOrdered
        \o Let(Word("nop", "write"), <<Asm("compiler")>>, {})
        \o Each(Sizes,
                LAMBDA z : If({<<z, "store", "">>}, {},
                    Make(<<z, "store", "write">>, <<Asm("compiler"), <<z, "store", "">>>>)
                    \o Make(<<z, "store", "release">>, <<<<z, "store", "write">>>>)))

\* a load is ld.acq, a store st.rel
AcquireReleaseVolatile ==
    Each(Sizes, LAMBDA z : Primitives("acquire", <<<<z, "load", "acquire">>>>)
                           \o Primitives("release", <<<<z, "store", "release">>>>))

\* AO_t is an int: the operations on it serve for int too
AoTIsInt ==
    Each(<<<<"compare_and_swap", "full">>, <<"compare_and_swap", "acquire">>,
           <<"compare_and_swap", "release">>, <<"compare_and_swap", "write">>,
           <<"compare_and_swap", "read">>, <<"compare_and_swap", "">>,
           <<"load", "acquire">>, <<"store", "release">>, <<"fetch_and_add", "full">>,
           <<"fetch_and_add1", "acquire">>, <<"fetch_and_add1", "release">>,
           <<"fetch_and_sub1", "acquire">>, <<"fetch_and_sub1", "release">>>>,
         LAMBDA o : Derive(<<"int", o[1], o[2]>>, <<<<"", o[1], o[2]>>>>))

X86_64(p) ==
    AlignedLoadStore \o OrderedExceptWr
        \o Primitives("full", <<NopFull>>)
        \o Primitives("locked", [i \in 1..4 |-> <<Sizes[i], "fetch_and_add", "full">>]
               \o <<Word("or", "full"), Word("test_and_set", "full"), Word("compare_and_swap", "full")>>)
        \o IF p.options \cap {"AO_CMPXCHG16B_AVAILABLE", "AO_WEAK_DOUBLE_CAS_EMULATION"} # {}
           THEN Primitives("locked", <<Word("compare_double_and_swap_double", "full")>>)
           ELSE <<>>

X86(p) ==
    AlignedLoadStore \o OrderedExceptWr
        \o (IF "AO_USE_PENTIUM4_INSTRS" \in p.options THEN Primitives("full", <<NopFull>>) ELSE <<>>)
        \o Primitives("locked", [i \in 1..3 |-> <<Sizes[i], "fetch_and_add", "full">>]
               \o <<Word("or", "full"), Word("test_and_set", "full"), Word("compare_and_swap", "full"),
                    Word("compare_double_and_swap_double", "full")>>)
        \o AoTIsInt

Sparc(p) ==
    AlignedLoadStore \o OrderedExceptWr
        \o Primitives("locked", <<Word("test_and_set", "full")>>)
        \o IF "AO_NO_SPARC_V9" \in p.options
           THEN <<>>
           ELSE Primitives("locked", <<Word("compare_and_swap", "full")>>)

\* the .acq and .rel forms of one instruction
AcqRel(z, op) ==
    Primitives("acquire", <<<<z, op, "acquire">>>>) \o Primitives("release", <<<<z, op, "release">>>>)

\* AO_t is 64 bits wide, or 32 with _ILP32
Ia64Word ==
    AlignedLoadStore \o AcquireReleaseVolatile
        \o Primitives("full", <<NopFull>>)
        \o AcqRel("", "fetch_and_add1") \o AcqRel("", "fetch_and_sub1")

Ia64Int == AcqRel("int", "fetch_and_add1") \o AcqRel("int", "fetch_and_sub1")

Ia64CompareAndSwap == Each(<<"", "char", "short">>, LAMBDA z : AcqRel(z, "compare_and_swap"))

Ia64(p) ==
    IF "_ILP32" \in p.options
    THEN Ia64Word \o Ia64CompareAndSwap \o AoTIsInt
    ELSE Ia64Word \o Ia64Int \o Ia64CompareAndSwap \o AcqRel("int", "compare_and_swap")

\* lwsync behind, before, and on both sides of the loop that reserves and stores
LwsyncAround(op) ==
    Primitives("plain", <<Word(op, "")>>)
        \o Make(Word(op, "acquire"), <<Word(op, ""), Asm("lwsync")>>)
        \o Make(Word(op, "release"), <<Asm("lwsync"), Word(op, "")>>)
        \o Make(Word(op, "full"), <<Asm("lwsync"), Word(op, ""), Asm("lwsync")>>)

\* store_release comes with the macro of load_acquire
PowerpcLoadStore ==
    AlignedLoadStore
        \o Primitives("full", <<NopFull>>)
        \o Primitives("lwsync", <<Word("nop", "write"), Word("nop", "read")>>)
        \o Primitives("acquire", <<Word("load", "acquire")>>)
        \o Let(Word("store", "release"), <<Asm("lwsync"), Asm("plain")>>, {Word("load", "acquire")})

PowerpcTestAndSet == LwsyncAround("test_and_set")
PowerpcCompareAndSwap == LwsyncAround("compare_and_swap")
PowerpcFetchAndAdd == LwsyncAround("fetch_and_add")

Powerpc(p) ==
    PowerpcLoadStore \o PowerpcTestAndSet \o PowerpcCompareAndSwap \o PowerpcFetchAndAdd
        \o IF "__powerpc64__" \in p.options THEN <<>> ELSE AoTIsInt

Header(p) ==
    CASE p.arch = "x86_64" -> X86_64(p)
      [] p.arch = "x86" -> X86(p)
      [] p.arch = "sparc" -> Sparc(p)
      [] p.arch = "ia64" -> Ia64(p)
      [] p.arch = "powerpc" -> Powerpc(p)

\* atomic_ops.h: the platform, then generalize.h, on ia64 twice
Lines ==
    [p \in Platforms |->
        Header(p) \o Generalize(p) \o (IF p.arch = "ia64" THEN Generalize(p) ELSE <<>>)]

--------------------------------------------------------------------------------
Init ==
    /\ platform \in Platforms
    /\ pos = 1
    /\ def = <<>>
    /\ have = {}

Line == Lines[platform][pos]
Running == pos <= Len(Lines[platform])
Holds(line) == line.need \subseteq have /\ line.lack \cap have = {}

\* a #if whose condition holds
Enter ==
    /\ Running
    /\ Line.skip > 0
    /\ Holds(Line)
    /\ pos' = pos + 1
    /\ UNCHANGED <<platform, def, have>>

\* a #if whose condition fails: on to its #endif
Skip ==
    /\ Running
    /\ Line.skip > 0
    /\ ~Holds(Line)
    /\ pos' = pos + 1 + Line.skip
    /\ UNCHANGED <<platform, def, have>>

\* a function or macro, and the #define of AO_HAVE_ that follows it
Define ==
    /\ Running
    /\ Line.skip = 0
    /\ LET body == [as |-> Line.as, orders |-> Orders(platform, def, Line.to[2], Line.as)]
       IN def' = [n \in DOMAIN def \cup {Line.to} |-> IF n = Line.to THEN body ELSE def[n]]
    /\ have' = have \cup Line.flags
    /\ pos' = pos + 1
    /\ UNCHANGED platform

Next == Enter \/ Skip \/ Define

Spec == Init /\ [][Next]_vars

--------------------------------------------------------------------------------
\* The orders are pairs of accesses, and a macro AO_HAVE_ is set only for an operation that is
\* defined: a later #if that tests it may use the operation.
TypeOK ==
    /\ platform \in Platforms
    /\ pos \in 1..(Len(Lines[platform]) + 1)
    /\ \A n \in DOMAIN def : def[n].orders \subseteq Everything
    /\ have \subseteq DOMAIN def

\* the access that makes an operation visible, and the one that reads
Visible(op) == IF Writes(op) THEN "OW" ELSE "OR"
Sampled(op) == IF Reads(op) THEN "OR" ELSE "OW"

Promised(op, suffix) ==
    LET own == OwnOf(op)
        before == IF op = "nop" THEN {} ELSE {Visible(op)}
        behind == IF op = "nop" THEN {} ELSE {Sampled(op)}
    IN CASE suffix = "release" -> Earlier \X before
         [] suffix = "acquire" -> behind \X Later
         [] suffix = "read" -> ({"ER"} \cup behind) \X {"LR"}
         [] suffix = "write" -> {"EW"} \X (before \cup {"LW"})
         [] suffix = "full" -> Barrier \cup (Earlier \X own) \cup (own \X Later)
         [] suffix = "release_write" -> {"EW"} \X before
         [] suffix = "acquire_read" -> behind \X {"LR"}
         [] OTHER -> {}

Keeps(n) == Promised(n[2], n[3]) \subseteq def[n].orders

\* Every operation a program can call orders what its suffix promises in atomic_ops.h
\* ("_release: Ordered with respect to earlier memops", "_full: ... both earlier and later"),
\* whatever chain of derivations made it on this platform. The powerpc operations ending in
\* _full are left out: lwsync on both sides lets an earlier write pass a later read.
OrderKept ==
    /\ TypeOK
    /\ \A n \in DOMAIN def : (platform.arch = "powerpc" /\ n[3] = "full") \/ Keeps(n)

\* A definition is never replaced by one that orders less: the explicit checks of generalize.h
\* ("that we are not replacing an earlier definition") keep the stronger one of the platform.
NeverWeakened == [][\A n \in DOMAIN def : def[n].orders \subseteq def'[n].orders]_vars

==============================================================================
