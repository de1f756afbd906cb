------------------------------ MODULE GcProof ------------------------------
(***************************************************************************)
(* Proofs about Gc for any finite set of threads and any blocks.           *)
(***************************************************************************)
EXTENDS Gc, TLAPS, FiniteSetTheorems, SequenceTheorems, WellFoundedInduction

-----------------------------------------------------------------------------
(* Types *)

Epoch == Time \cup {EPOCH_MAX}
Region == [ts : Nat, blocks : SUBSET Addr]
SlotRecord == [used : {NULL, "BUSY", "FREE_EMPTY", "FREE_FULL"}, ts : Epoch, regions : Seq(Region)]
Descriptor ==
    [idx : Slot, start : Time, w_set : SUBSET Addr, reallocate : BOOLEAN, holds : SUBSET Addr,
     allocated : SUBSET Addr, freed : SUBSET Addr, starts : Nat, lives : Nat]
Plain == {"out", "epoch", "enter", "idle", "begin", "active", "on_commit", "overflow", "wait",
          "woken", "start", "exit", "leave", "release"}
Steps == {"begin", "idle", "leave"}
Calls ==
    [pc : Plain]
    \cup [pc : {"slot"}, i : Slot]
    \cup [pc : {"cas"}, i : Slot, used : {NULL, "FREE_EMPTY", "FREE_FULL"}]
    \cup [pc : {"bound"}, epoch : Time]
    \cup [pc : {"free", "cleanup"}, todo : SUBSET Addr, epoch : Time, after : Steps]
    \cup [pc : {"used", "ts", "clean"}, todo : SUBSET Addr, epoch : Time, after : Steps,
          min : Nat, i : Nat]

\* t is in gc_free; it looks for the minimum
InCall(t) == at[t].pc \in {"free", "cleanup", "used", "ts", "clean"}
Scans(t) == at[t].pc \in {"used", "ts", "clean"}
\* t is where step is, or will be after its calls of gc_free
Before(t, step) == At(t, step) \/ (InCall(t) /\ at[t].after = step)

Inside == {t \in Thread : ~At(t, "out")}
\* the threads that tx_count counts
Counted == {t \in Thread : \/ at[t].pc \in {"active", "on_commit", "overflow", "start"}
                           \/ Before(t, "begin") \/ Before(t, "idle")}
\* the threads that may still draw a timestamp
Drawing == {t \in Thread : At(t, "active") \/ Before(t, "begin")}

Types ==
    /\ clock \in Time /\ tx_overflow \in BOOLEAN /\ exited \in BOOLEAN /\ raced \in BOOLEAN
    /\ threads \in [Slot -> SlotRecord]
    /\ heap \subseteq Addr /\ linked \subseteq Addr
    /\ tx \in [Thread -> Descriptor] /\ at \in [Thread -> Calls]

Counts ==
    /\ tx_count = Cardinality(Counted)
    /\ nb_threads = Cardinality(Inside)
    /\ clock < VERSION_MAX \/ clock + Cardinality(Drawing) <= VERSION_MAX + Cardinality(Thread)
    /\ exited => Inside = {} /\ \A s \in Slot : threads[s].regions = <<>>

-----------------------------------------------------------------------------
(* Slots *)

Owns(t) == at[t].pc \notin {"out", "slot", "cas"}

\* a thread has a slot of its own; the slots used up to now are the first ones
Slots ==
    /\ \A t \in Thread : Owns(t) => Mine(t).used = "BUSY"
    /\ \A t, u \in Thread : Owns(t) /\ Owns(u) /\ t # u => tx[t].idx # tx[u].idx
    /\ \A s \in Slot : threads[s].used = NULL =>
        /\ threads[s].regions = <<>>
        /\ \A r \in Slot : s < r => threads[r].used = NULL
        /\ \A t \in Thread : at[t].pc \in {"slot", "cas"} => at[t].i <= s
        /\ \A t \in Thread : At(t, "cas") /\ at[t].i = s => at[t].used = NULL

\* what a thread has between its calls
Locals(t) ==
    /\ tx[t].holds # {} \/ tx[t].allocated # {} => At(t, "active")
    /\ tx[t].freed # {} => At(t, "active") \/ At(t, "on_commit")
    /\ tx[t].w_set # {} => \/ t \in Counted \/ at[t].pc \in {"wait", "woken", "exit"}
    /\ InCall(t) /\ at[t].after = "begin" => tx[t].w_set = {}
    /\ t \in Drawing => tx[t].start <= clock
    /\ At(t, "ts") => at[t].i \in Slot
    /\ At(t, "active") =>
        /\ Mine(t).ts = tx[t].start
        /\ tx[t].freed \subseteq linked \cap tx[t].holds
        /\ \A u \in Thread \ {t} : tx[u].freed \cap tx[t].freed = {}

\* If u looks for the minimum, it has met the epoch of transaction t, which holds block a,
\* or will meet it.
Met(t, a, u) ==
    Scans(u) /\ a \in BlocksOf(Mine(u).regions) =>
        \/ at[u].min <= tx[t].start
        \/ ~At(u, "clean") /\ at[u].i <= tx[t].idx
\* As far as u knows, a was unlinked after t began, if at all;
Elsewhere(t, a, u) ==
    /\ a \notin tx[u].w_set /\ a \notin tx[u].allocated
    /\ At(u, "on_commit") /\ a \in tx[u].freed => tx[t].start < clock
    /\ InCall(u) /\ a \in at[u].todo => tx[t].start < at[u].epoch
    /\ Met(t, a, u)
\* as far as slot s knows, too
Later(t, a, s) ==
    \A k \in DOMAIN threads[s].regions :
        a \in threads[s].regions[k].blocks => tx[t].start < threads[s].regions[k].ts
Held(t, a) ==
    /\ a \notin heap
    /\ \A u \in Thread : Elsewhere(t, a, u)
    /\ \A s \in Slot : Later(t, a, s)

\* the blocks of different regions of a slot are different
Disjoint(regions) ==
    \A j, k \in DOMAIN regions : j # k => regions[j].blocks \cap regions[k].blocks = {}

-----------------------------------------------------------------------------
(* Where the blocks are *)

Kinds == {"heap", "linked", "w_set", "allocated", "freed", "todo", "region"}

\* Every block is in one place; w, al, f and td give the blocks of each thread, rg
\* those of each slot.
PlacedBy(kind, owner, h, l, w, al, f, td, rg) == \A a \in Addr :
    /\ a \in h <=> kind[a] = "heap"
    /\ a \in l <=> kind[a] = "linked"
    /\ \A t \in Thread : /\ a \in w[t] <=> kind[a] = "w_set" /\ owner[a] = t
                         /\ a \in al[t] <=> kind[a] = "allocated" /\ owner[a] = t
                         /\ a \in f[t] <=> kind[a] = "freed" /\ owner[a] = t
                         /\ a \in td[t] <=> kind[a] = "todo" /\ owner[a] = t
    /\ \A s \in Slot : a \in rg[s] <=> kind[a] = "region" /\ owner[a] = s
    /\ kind[a] \in {"w_set", "allocated", "freed", "todo"} => owner[a] \in Thread
    /\ kind[a] = "region" => owner[a] \in Slot
\* g is f but for its value v at t
Swap(f, g, S, t, v) == g[t] = v /\ \A u \in S \ {t} : g[u] = f[u]
Placed(h, l, w, al, f, td, rg) ==
    \E kind \in [Addr -> Kinds], owner \in [Addr -> Thread \cup Slot \cup {0}] :
        PlacedBy(kind, owner, h, l, w, al, f, td, rg)

WSets == [t \in Thread |-> tx[t].w_set]
Allocs == [t \in Thread |-> tx[t].allocated]
Frees == [t \in Thread |-> IF At(t, "on_commit") THEN tx[t].freed ELSE {}]
Todos == [t \in Thread |-> IF InCall(t) THEN at[t].todo ELSE {}]
Regs == [s \in Slot |-> BlocksOf(threads[s].regions)]

Here == Placed(heap, linked, WSets, Allocs, Frees, Todos, Regs)

Sound ==
    /\ Slots
    /\ \A t \in Thread : Locals(t)
    /\ \A t \in Thread : \A a \in tx[t].holds : Held(t, a)
    /\ \A s \in Slot : Disjoint(threads[s].regions)
    /\ Here

IInv == Types /\ Counts /\ Sound

-----------------------------------------------------------------------------
(* Constants, types *)

\* What the assumptions say of the bounds.
LEMMA Bounds ==
  /\ Cardinality(Thread) \in Nat /\ MAX_THREADS \in Nat /\ VERSION_MAX \in Nat \ {0}
  /\ EPOCH_MAX \in Nat /\ Epoch \subseteq Nat /\ Time \subseteq Nat /\ Time \subseteq Epoch
  /\ EPOCH_MAX \in Epoch /\ 0 \in Time
  /\ Thread # {} => 0 \in Slot /\ MAX_THREADS > 0
<1>1. Cardinality(Thread) \in Nat /\ Cardinality(Thread) <= MAX_THREADS
  BY GcAssumption, FS_CardinalityType
<1>2. MAX_THREADS \in Nat /\ VERSION_MAX \in Nat \ {0}
  BY GcAssumption
<1>3. EPOCH_MAX \in Nat /\ Epoch \subseteq Nat /\ Time \subseteq Nat /\ 0 \in Time
  BY <1>1, <1>2 DEF EPOCH_MAX, Epoch, Time
<1>4. Thread # {} => Cardinality(Thread) # 0
  BY GcAssumption, FS_EmptySet
<1>5. QED
  BY <1>1, <1>2, <1>3, <1>4 DEF Slot, Epoch

\* Where a thread is says which locals it has.
LEMMA CallIs ==
  ASSUME NEW c \in Calls
  PROVE  /\ c.pc \in Plain \cup {"slot", "cas", "bound", "free", "cleanup", "used", "ts", "clean"}
         /\ c.pc \in Plain => c = [pc |-> c.pc]
         /\ c.pc = "slot" => c \in [pc : {"slot"}, i : Slot]
         /\ c.pc = "cas" => c \in [pc : {"cas"}, i : Slot, used : {NULL, "FREE_EMPTY", "FREE_FULL"}]
         /\ c.pc = "bound" => c \in [pc : {"bound"}, epoch : Time]
         /\ c.pc \in {"free", "cleanup"} =>
              c \in [pc : {"free", "cleanup"}, todo : SUBSET Addr, epoch : Time, after : Steps]
         /\ c.pc \in {"used", "ts", "clean"} =>
              c \in [pc : {"used", "ts", "clean"}, todo : SUBSET Addr, epoch : Time,
                     after : Steps, min : Nat, i : Nat]
<1>1. CASE c \in [pc : Plain]
  BY <1>1 DEF Plain
<1>2. CASE c \in [pc : {"slot"}, i : Slot]
  BY <1>2 DEF Plain
<1>3. CASE c \in [pc : {"cas"}, i : Slot, used : {NULL, "FREE_EMPTY", "FREE_FULL"}]
  BY <1>3 DEF Plain
<1>4. CASE c \in [pc : {"bound"}, epoch : Time]
  BY <1>4 DEF Plain
<1>5. CASE c \in [pc : {"free", "cleanup"}, todo : SUBSET Addr, epoch : Time, after : Steps]
  BY <1>5 DEF Plain
<1>6. CASE c \in [pc : {"used", "ts", "clean"}, todo : SUBSET Addr, epoch : Time, after : Steps,
                  min : Nat, i : Nat]
  BY <1>6 DEF Plain
<1>7. QED
  BY <1>1, <1>2, <1>3, <1>4, <1>5, <1>6 DEF Calls

\* A call is one of these.
LEMMA CallsAre ==
  /\ \A pc \in Plain : [pc |-> pc] \in Calls
  /\ \A i \in Slot : [pc |-> "slot", i |-> i] \in Calls
  /\ \A i \in Slot : \A used \in {NULL, "FREE_EMPTY", "FREE_FULL"} :
       [pc |-> "cas", i |-> i, used |-> used] \in Calls
  /\ \A epoch \in Time : [pc |-> "bound", epoch |-> epoch] \in Calls
  /\ \A pc \in {"free", "cleanup"}, todo \in SUBSET Addr, epoch \in Time, after \in Steps :
       [pc |-> pc, todo |-> todo, epoch |-> epoch, after |-> after] \in Calls
  /\ \A pc \in {"used", "ts", "clean"}, todo \in SUBSET Addr, epoch \in Time, after \in Steps,
        min \in Nat, i \in Nat :
       [pc |-> pc, todo |-> todo, epoch |-> epoch, after |-> after, min |-> min, i |-> i] \in Calls
  BY DEF Calls

\* The steps of gc_free change their call like this.
LEMMA FreeStep ==
  ASSUME NEW c \in [pc : {"free", "cleanup"}, todo : SUBSET Addr, epoch : Time, after : Steps],
         NEW todo \in SUBSET Addr
  PROVE  [c EXCEPT !.pc = "cleanup", !.todo = todo]
           = [pc |-> "cleanup", todo |-> todo, epoch |-> c.epoch, after |-> c.after]
<1> DEFINE S == [pc : {"free", "cleanup"}, todo : SUBSET Addr, epoch : Time, after : Steps]
           d == [c EXCEPT !.pc = "cleanup", !.todo = todo]
<1>1. d \in S /\ d.pc = "cleanup" /\ d.todo = todo /\ d.epoch = c.epoch /\ d.after = c.after
  OBVIOUS
<1>2. \A e \in S : e = [pc |-> e.pc, todo |-> e.todo, epoch |-> e.epoch, after |-> e.after]
  OBVIOUS
<1>3. d = [pc |-> "cleanup", todo |-> todo, epoch |-> c.epoch, after |-> c.after]
  <2> HIDE DEF d, S
  <2>1. d = [pc |-> d.pc, todo |-> d.todo, epoch |-> d.epoch, after |-> d.after]
    BY <1>1, <1>2
  <2>2. QED
    BY <1>1, <2>1
<1>4. QED
  BY <1>3

\* So do those of gc_cleanup, with the minimum found so far.
LEMMA MinStep ==
  ASSUME NEW c \in [pc : {"used", "ts", "clean"}, todo : SUBSET Addr, epoch : Time,
                    after : Steps, min : Nat, i : Nat],
         NEW i \in Nat, NEW min \in Nat
  PROVE  /\ [c EXCEPT !.pc = "used", !.i = i, !.min = min]
              = [pc |-> "used", todo |-> c.todo, epoch |-> c.epoch, after |-> c.after,
                 min |-> min, i |-> i]
         /\ [c EXCEPT !.i = i]
              = [pc |-> c.pc, todo |-> c.todo, epoch |-> c.epoch, after |-> c.after,
                 min |-> c.min, i |-> i]
         /\ \A pc : [c EXCEPT !.pc = pc]
              = [pc |-> pc, todo |-> c.todo, epoch |-> c.epoch, after |-> c.after,
                 min |-> c.min, i |-> c.i]
<1> DEFINE S == [pc : {"used", "ts", "clean"}, todo : SUBSET Addr, epoch : Time,
                 after : Steps, min : Nat, i : Nat]
           d == [c EXCEPT !.pc = "used", !.i = i, !.min = min]
<1>1. /\ d \in S /\ d.pc = "used" /\ d.todo = c.todo /\ d.epoch = c.epoch
      /\ d.after = c.after /\ d.min = min /\ d.i = i
  OBVIOUS
<1>2. \A e \in S : e = [pc |-> e.pc, todo |-> e.todo, epoch |-> e.epoch, after |-> e.after,
                        min |-> e.min, i |-> e.i]
  OBVIOUS
<1>3. d = [pc |-> "used", todo |-> c.todo, epoch |-> c.epoch, after |-> c.after, min |-> min,
           i |-> i]
  <2> HIDE DEF d, S
  <2>1. d = [pc |-> d.pc, todo |-> d.todo, epoch |-> d.epoch, after |-> d.after, min |-> d.min,
             i |-> d.i]
    BY <1>1, <1>2
  <2>2. QED
    BY <1>1, <2>1
<1>4. /\ [c EXCEPT !.i = i]
           = [pc |-> c.pc, todo |-> c.todo, epoch |-> c.epoch, after |-> c.after,
              min |-> c.min, i |-> i]
      /\ \A pc : [c EXCEPT !.pc = pc]
           = [pc |-> pc, todo |-> c.todo, epoch |-> c.epoch, after |-> c.after,
              min |-> c.min, i |-> c.i]
  OBVIOUS
<1>5. QED
  BY <1>3, <1>4

\* What a thread, its descriptor and its slot are.
LEMMA ThreadIs ==
  ASSUME Types, NEW t \in Thread
  PROVE  /\ at[t] \in Calls /\ tx[t] \in Descriptor /\ tx[t].idx \in Slot
         /\ tx[t].start \in Time /\ tx[t].holds \subseteq Addr /\ tx[t].w_set \subseteq Addr
         /\ tx[t].allocated \subseteq Addr /\ tx[t].freed \subseteq Addr
         /\ threads[tx[t].idx] \in SlotRecord
  BY DEF Types, Descriptor

\* The regions of a slot.
LEMMA SlotIs ==
  ASSUME Types, NEW s \in Slot
  PROVE  /\ threads[s] \in SlotRecord /\ threads[s].regions \in Seq(Region)
         /\ threads[s].used \in {NULL, "BUSY", "FREE_EMPTY", "FREE_FULL"} /\ threads[s].ts \in Epoch
         /\ \A k \in DOMAIN threads[s].regions :
              /\ k \in Nat \ {0} /\ threads[s].regions[k] \in Region
              /\ threads[s].regions[k].ts \in Nat /\ threads[s].regions[k].blocks \subseteq Addr
         /\ BlocksOf(threads[s].regions) \subseteq Addr
<1>1. threads[s] \in SlotRecord /\ threads[s].regions \in Seq(Region)
  BY DEF Types, SlotRecord
<1>2. \A k \in DOMAIN threads[s].regions : k \in Nat \ {0} /\ threads[s].regions[k] \in Region
  BY <1>1
<1>3. \A r \in Region : r.ts \in Nat /\ r.blocks \subseteq Addr
  BY DEF Region
<1>4. BlocksOf(threads[s].regions) \subseteq Addr
  BY <1>2, <1>3 DEF BlocksOf
<1>5. QED
  BY <1>1, <1>2, <1>3, <1>4 DEF SlotRecord

-----------------------------------------------------------------------------
(* What the helpers on regions do *)

\* Of a set of numbers that is not empty, Min is the least.
LEMMA MinIs ==
  ASSUME NEW S \in SUBSET Nat, S # {}
  PROVE  Min(S) \in S /\ \A n \in S : Min(S) <= n
<1> DEFINE Less == OpToRel(<, Nat)
<1>1. IsWellFoundedOn(Less, Nat)
  BY NatLessThanWellFounded
<1>2. PICK m \in S : \A n \in S : ~(<<n, m>> \in Less)
  <2> HIDE DEF Less
  <2> QED
    BY <1>1, WFMin
<1>3. \A n \in S : m <= n
  <2>1. \A n \in S : n < m => <<n, m>> \in Less
    BY DEF OpToRel
  <2>2. \A n \in S : ~(n < m)
    <3> HIDE DEF Less
    <3> QED
      BY <1>2, <2>1
  <2>3. QED
    BY <2>2
<1>4. QED
  BY <1>2, <1>3 DEF Min

\* The regions that are left are the last ones, from some place on, and those before are
\* older than the minimum.
LEMMA LeftIs ==
  ASSUME NEW regions \in Seq(Region), NEW min \in Nat
  PROVE  \E d \in 0 .. Len(regions) :
           /\ Left(regions, min) \in Seq(Region)
           /\ Len(Left(regions, min)) = Len(regions) - d
           /\ \A k \in 1 .. Len(regions) - d : Left(regions, min)[k] = regions[k + d]
           /\ \A k \in 1 .. d : min > regions[k].ts
<1> DEFINE I == {i \in 1 .. Len(regions) : ~(min > regions[i].ts)}
<1>1. Left(regions, min) = IF (IF I # {} THEN Min(I) ELSE 0) = 0 THEN <<>>
                           ELSE SubSeq(regions, IF I # {} THEN Min(I) ELSE 0, Len(regions))
  BY DEF Left, SelectInSeq
<1>2. Len(regions) \in Nat
  OBVIOUS
<1>3. CASE I = {}
  <2>1. Left(regions, min) = <<>>
    BY <1>1, <1>3
  <2>2. \A k \in 1 .. Len(regions) : min > regions[k].ts
    BY <1>3
  <2>3. QED
    BY <2>1, <2>2, <1>2
<1>4. CASE I # {}
  <2>1. Min(I) \in I /\ \A n \in I : Min(I) <= n
    <3>1. I \in SUBSET Nat
      BY <1>2
    <3> HIDE DEF I
    <3>2. QED
      BY <3>1, <1>4, MinIs
  <2> DEFINE m == Min(I)
  <2>2. Left(regions, min) = SubSeq(regions, m, Len(regions))
    <3>1. m # 0
      BY <2>1, <1>2
    <3> HIDE DEF I
    <3>2. QED
      BY <3>1, <1>1, <1>4
  <2>3. m \in 1 .. Len(regions)
    BY <2>1
  <2> HIDE DEF m
  <2>4. /\ Left(regions, min) \in Seq(Region)
        /\ Len(Left(regions, min)) = Len(regions) - (m - 1)
        /\ \A k \in 1 .. Len(regions) - (m - 1) : Left(regions, min)[k] = regions[k + (m - 1)]
    BY <2>2, <2>3, <1>2
  <2>5. \A k \in 1 .. m - 1 : min > regions[k].ts
    BY <2>1, <2>3, <1>2 DEF m
  <2>6. m - 1 \in 0 .. Len(regions)
    BY <2>3, <1>2
  <2>7. QED
    BY <2>4, <2>5, <2>6
<1>5. QED
  BY <1>3, <1>4

\* A block that is handed over is in a region that is as late.
LEMMA WithBlockIs ==
  ASSUME NEW regions \in Seq(Region), NEW a \in Addr, NEW epoch \in Nat
  PROVE  LET new == WithBlock(regions, a, epoch) IN
         /\ new \in Seq(Region)
         /\ DOMAIN regions \subseteq DOMAIN new
         /\ \E k \in DOMAIN new :
              /\ \A j \in DOMAIN new : j # k => j \in DOMAIN regions /\ new[j] = regions[j]
              /\ new[k].ts >= epoch
              /\ \/ k \in DOMAIN regions /\ new[k].ts = regions[k].ts
                    /\ new[k].blocks = regions[k].blocks \cup {a}
                 \/ k \notin DOMAIN regions /\ new[k].blocks = {a}
<1> DEFINE new == WithBlock(regions, a, epoch)
<1>1. CASE regions = <<>> \/ regions[1].ts < epoch
  <2>1. new = Append(regions, [ts |-> epoch, blocks |-> {a}])
    BY <1>1 DEF WithBlock
  <2>2. [ts |-> epoch, blocks |-> {a}] \in Region
    BY DEF Region
  <2>3. /\ new \in Seq(Region) /\ Len(new) = Len(regions) + 1
        /\ \A j \in 1 .. Len(regions) : new[j] = regions[j]
        /\ new[Len(regions) + 1] = [ts |-> epoch, blocks |-> {a}]
    BY <2>1, <2>2
  <2>4. DOMAIN new = 1 .. Len(regions) + 1 /\ DOMAIN regions = 1 .. Len(regions)
    BY <2>3
  <2>5. Len(regions) \in Nat
    OBVIOUS
  <2> HIDE DEF new
  <2>6. Len(regions) + 1 \in DOMAIN new /\ Len(regions) + 1 \notin DOMAIN regions
    BY <2>4, <2>5
  <2>7. \A j \in DOMAIN new : j # Len(regions) + 1 => j \in DOMAIN regions /\ new[j] = regions[j]
    BY <2>3, <2>4, <2>5
  <2>8. DOMAIN regions \subseteq DOMAIN new
    BY <2>4, <2>5
  <2>9. new[Len(regions) + 1].ts >= epoch /\ new[Len(regions) + 1].blocks = {a}
    BY <2>3
  <2>10. QED
    BY <2>3, <2>6, <2>7, <2>8, <2>9 DEF new
<1>2. CASE ~(regions = <<>> \/ regions[1].ts < epoch)
  <2>1. 1 \in DOMAIN regions /\ regions[1] \in Region
    BY <1>2
  <2>2. new = [regions EXCEPT ![1].blocks = @ \cup {a}]
    BY <1>2 DEF WithBlock
  <2>3. [regions[1] EXCEPT !.blocks = @ \cup {a}] \in Region
    BY <2>1 DEF Region
  <2>4. /\ new \in Seq(Region) /\ DOMAIN new = DOMAIN regions
        /\ new[1] = [regions[1] EXCEPT !.blocks = @ \cup {a}]
        /\ \A j \in DOMAIN regions : j # 1 => new[j] = regions[j]
    BY <2>1, <2>2, <2>3
  <2>5. new[1].ts = regions[1].ts /\ new[1].blocks = regions[1].blocks \cup {a}
    BY <2>4, <2>1 DEF Region
  <2>6. regions[1].ts >= epoch
    BY <1>2, <2>1 DEF Region
  <2> HIDE DEF new
  <2>7. QED
    BY <2>1, <2>4, <2>5, <2>6 DEF new
<1>3. QED
  BY <1>1, <1>2

-----------------------------------------------------------------------------
(* How blocks go from place to place *)

\* A block is taken from the heap for the write set of t.
LEMMA HeapToThread ==
  ASSUME NEW h, NEW l, NEW w, NEW al, NEW f, NEW td, NEW rg, NEW t \in Thread, NEW w2, NEW b \in h,
         w[t] = {}, w2[t] = {b}, \A u \in Thread \ {t} : w2[u] = w[u],
         Placed(h, l, w, al, f, td, rg)
  PROVE  Placed(h \ {b}, l, w2, al, f, td, rg)
<1>1. PICK kind \in [Addr -> Kinds], owner \in [Addr -> Thread \cup Slot \cup {0}] :
        PlacedBy(kind, owner, h, l, w, al, f, td, rg)
  BY DEF Placed
<1> DEFINE kind2 == [a \in Addr |-> IF a = b THEN "w_set" ELSE kind[a]]
           owner2 == [a \in Addr |-> IF a = b THEN t ELSE owner[a]]
<1>2. kind2 \in [Addr -> Kinds] /\ owner2 \in [Addr -> Thread \cup Slot \cup {0}]
  BY DEF Kinds
<1>3. PlacedBy(kind2, owner2, h \ {b}, l, w2, al, f, td, rg)
  BY <1>1 DEF PlacedBy
<1>4. QED
  BY <1>2, <1>3 DEF Placed

\* A block is taken from the heap for a node that t allocates.
LEMMA HeapToAllocated ==
  ASSUME NEW h, NEW l, NEW w, NEW al, NEW f, NEW td, NEW rg, NEW t \in Thread, NEW al2, NEW b \in h,
         al2[t] = al[t] \cup {b}, \A u \in Thread \ {t} : al2[u] = al[u],
         Placed(h, l, w, al, f, td, rg)
  PROVE  Placed(h \ {b}, l, w, al2, f, td, rg)
<1>1. PICK kind \in [Addr -> Kinds], owner \in [Addr -> Thread \cup Slot \cup {0}] :
        PlacedBy(kind, owner, h, l, w, al, f, td, rg)
  BY DEF Placed
<1> DEFINE kind2 == [a \in Addr |-> IF a = b THEN "allocated" ELSE kind[a]]
           owner2 == [a \in Addr |-> IF a = b THEN t ELSE owner[a]]
<1>2. kind2 \in [Addr -> Kinds] /\ owner2 \in [Addr -> Thread \cup Slot \cup {0}]
  BY DEF Kinds
<1>3. PlacedBy(kind2, owner2, h \ {b}, l, w, al2, f, td, rg)
  BY <1>1 DEF PlacedBy
<1>4. QED
  BY <1>2, <1>3 DEF Placed

\* The nodes that t has allocated go back to the heap.
LEMMA AllocatedToHeap ==
  ASSUME NEW h, NEW l, NEW w, NEW al, NEW f, NEW td, NEW rg, NEW t \in Thread, NEW al2,
         al2[t] = {}, \A u \in Thread \ {t} : al2[u] = al[u],
         Placed(h, l, w, al, f, td, rg)
  PROVE  Placed(h \cup al[t], l, w, al2, f, td, rg)
<1>1. PICK kind \in [Addr -> Kinds], owner \in [Addr -> Thread \cup Slot \cup {0}] :
        PlacedBy(kind, owner, h, l, w, al, f, td, rg)
  BY DEF Placed
<1> DEFINE kind2 == [a \in Addr |-> IF a \in al[t] THEN "heap" ELSE kind[a]]
           owner2 == [a \in Addr |-> owner[a]]
<1>2. kind2 \in [Addr -> Kinds] /\ owner2 \in [Addr -> Thread \cup Slot \cup {0}]
  BY DEF Kinds
<1>3. PlacedBy(kind2, owner2, h \cup al[t], l, w, al2, f, td, rg)
  BY <1>1 DEF PlacedBy
<1>4. QED
  BY <1>2, <1>3 DEF Placed

\* t links the nodes that it has allocated and unlinks those of B.
LEMMA Committing ==
  ASSUME NEW h, NEW l, NEW w, NEW al, NEW f, NEW td, NEW rg, NEW t \in Thread,
         NEW al2, NEW f2, NEW B,
         B \subseteq l, Swap(al, al2, Thread, t, {}),
         f[t] = {}, Swap(f, f2, Thread, t, B),
         Placed(h, l, w, al, f, td, rg)
  PROVE  Placed(h, (l \cup al[t]) \ B, w, al2, f2, td, rg)
<1>1. PICK kind \in [Addr -> Kinds], owner \in [Addr -> Thread \cup Slot \cup {0}] :
        PlacedBy(kind, owner, h, l, w, al, f, td, rg)
  BY DEF Placed
<1> DEFINE kind2 == [a \in Addr |-> IF a \in al[t] THEN "linked"
                              ELSE IF a \in B THEN "freed" ELSE kind[a]]
           owner2 == [a \in Addr |-> IF a \in B THEN t ELSE owner[a]]
<1>2. kind2 \in [Addr -> Kinds] /\ owner2 \in [Addr -> Thread \cup Slot \cup {0}]
  BY DEF Kinds
<1>3. PlacedBy(kind2, owner2, h, (l \cup al[t]) \ B, w, al2, f2, td, rg)
  BY <1>1 DEF PlacedBy, Swap
<1>4. QED
  BY <1>2, <1>3 DEF Placed

\* t begins to hand over the nodes that it has unlinked.
LEMMA FreedToTodo ==
  ASSUME NEW h, NEW l, NEW w, NEW al, NEW f, NEW td, NEW rg, NEW t \in Thread, NEW f2, NEW td2,
         Swap(f, f2, Thread, t, {}),
         td[t] = {}, Swap(td, td2, Thread, t, f[t]),
         Placed(h, l, w, al, f, td, rg)
  PROVE  Placed(h, l, w, al, f2, td2, rg)
<1>1. PICK kind \in [Addr -> Kinds], owner \in [Addr -> Thread \cup Slot \cup {0}] :
        PlacedBy(kind, owner, h, l, w, al, f, td, rg)
  BY DEF Placed
<1> DEFINE kind2 == [a \in Addr |-> IF a \in f[t] THEN "todo" ELSE kind[a]]
           owner2 == [a \in Addr |-> owner[a]]
<1>2. kind2 \in [Addr -> Kinds] /\ owner2 \in [Addr -> Thread \cup Slot \cup {0}]
  BY DEF Kinds
<1>3. PlacedBy(kind2, owner2, h, l, w, al, f2, td2, rg)
  BY <1>1 DEF PlacedBy, Swap
<1>4. QED
  BY <1>2, <1>3 DEF Placed

\* t begins to hand over its write set.
LEMMA WSetToTodo ==
  ASSUME NEW h, NEW l, NEW w, NEW al, NEW f, NEW td, NEW rg, NEW t \in Thread, NEW w2, NEW td2,
         Swap(w, w2, Thread, t, {}),
         td[t] = {}, Swap(td, td2, Thread, t, w[t]),
         Placed(h, l, w, al, f, td, rg)
  PROVE  Placed(h, l, w2, al, f, td2, rg)
<1>1. PICK kind \in [Addr -> Kinds], owner \in [Addr -> Thread \cup Slot \cup {0}] :
        PlacedBy(kind, owner, h, l, w, al, f, td, rg)
  BY DEF Placed
<1> DEFINE kind2 == [a \in Addr |-> IF a \in w[t] THEN "todo" ELSE kind[a]]
           owner2 == [a \in Addr |-> owner[a]]
<1>2. kind2 \in [Addr -> Kinds] /\ owner2 \in [Addr -> Thread \cup Slot \cup {0}]
  BY DEF Kinds
<1>3. PlacedBy(kind2, owner2, h, l, w2, al, f, td2, rg)
  BY <1>1 DEF PlacedBy, Swap
<1>4. QED
  BY <1>2, <1>3 DEF Placed

\* A block that t hands over goes to a region of slot s.
LEMMA TodoToRegion ==
  ASSUME NEW h, NEW l, NEW w, NEW al, NEW f, NEW td, NEW rg, NEW t \in Thread,
         NEW s \in Slot, NEW td2, NEW rg2,
         NEW b \in td[t],
         Swap(td, td2, Thread, t, td[t] \ {b}),
         Swap(rg, rg2, Slot, s, rg[s] \cup {b}),
         Placed(h, l, w, al, f, td, rg)
  PROVE  Placed(h, l, w, al, f, td2, rg2)
<1>1. PICK kind \in [Addr -> Kinds], owner \in [Addr -> Thread \cup Slot \cup {0}] :
        PlacedBy(kind, owner, h, l, w, al, f, td, rg)
  BY DEF Placed
<1> DEFINE kind2 == [a \in Addr |-> IF a = b THEN "region" ELSE kind[a]]
           owner2 == [a \in Addr |-> IF a = b THEN s ELSE owner[a]]
<1>2. kind2 \in [Addr -> Kinds] /\ owner2 \in [Addr -> Thread \cup Slot \cup {0}]
  BY DEF Kinds
<1>3. PlacedBy(kind2, owner2, h, l, w, al, f, td2, rg2)
  BY <1>1 DEF PlacedBy, Swap
<1>4. QED
  BY <1>2, <1>3 DEF Placed

\* Blocks of slot s go back to the heap.
LEMMA RegionToHeap ==
  ASSUME NEW h, NEW l, NEW w, NEW al, NEW f, NEW td, NEW rg, NEW s \in Slot, NEW rg2,
         NEW rest, rest \subseteq rg[s], Swap(rg, rg2, Slot, s, rest),
         Placed(h, l, w, al, f, td, rg)
  PROVE  Placed(h \cup (rg[s] \ rest), l, w, al, f, td, rg2)
<1>1. PICK kind \in [Addr -> Kinds], owner \in [Addr -> Thread \cup Slot \cup {0}] :
        PlacedBy(kind, owner, h, l, w, al, f, td, rg)
  BY DEF Placed
<1> DEFINE kind2 == [a \in Addr |-> IF a \in rg[s] \ rest THEN "heap" ELSE kind[a]]
           owner2 == [a \in Addr |-> owner[a]]
<1>2. kind2 \in [Addr -> Kinds] /\ owner2 \in [Addr -> Thread \cup Slot \cup {0}]
  BY DEF Kinds
<1>3. PlacedBy(kind2, owner2, h \cup (rg[s] \ rest), l, w, al, f, td, rg2)
  BY <1>1 DEF PlacedBy, Swap
<1>4. QED
  BY <1>2, <1>3 DEF Placed

\* All the blocks of all the slots go back to the heap.
LEMMA RegionsToHeap ==
  ASSUME NEW h, NEW l, NEW w, NEW al, NEW f, NEW td, NEW rg, NEW rg2,
         \A s \in Slot : rg2[s] = {},
         Placed(h, l, w, al, f, td, rg)
  PROVE  Placed(h \cup UNION {rg[s] : s \in Slot}, l, w, al, f, td, rg2)
<1>1. PICK kind \in [Addr -> Kinds], owner \in [Addr -> Thread \cup Slot \cup {0}] :
        PlacedBy(kind, owner, h, l, w, al, f, td, rg)
  BY DEF Placed
<1> DEFINE kind2 == [a \in Addr |-> IF kind[a] = "region" THEN "heap" ELSE kind[a]]
           owner2 == [a \in Addr |-> owner[a]]
<1>2. kind2 \in [Addr -> Kinds] /\ owner2 \in [Addr -> Thread \cup Slot \cup {0}]
  BY DEF Kinds
<1>3. PlacedBy(kind2, owner2, h \cup UNION {rg[s] : s \in Slot}, l, w, al, f, td, rg2)
  BY <1>1 DEF PlacedBy
<1>4. QED
  BY <1>2, <1>3 DEF Placed

\* A block that is in one place is in one of those that Places names.
LEMMA OnePlaceIs ==
  ASSUME Types, Here, \A s \in Slot : Disjoint(threads[s].regions), NEW a \in Addr
  PROVE  Cardinality(Places(a)) = 1
<1>1. PICK kind \in [Addr -> Kinds], owner \in [Addr -> Thread \cup Slot \cup {0}] :
        PlacedBy(kind, owner, heap, linked, WSets, Allocs, Frees, Todos, Regs)
  BY DEF Here, Placed
<1> DEFINE Heap == {<<"heap">> : x \in {a} \cap heap}
           Linked == {<<"linked">> : x \in {a} \cap linked}
           WSet == {<<"w_set", t>> : t \in {u \in Thread : a \in tx[u].w_set}}
           Allocated == {<<"allocated", t>> : t \in {u \in Thread : a \in tx[u].allocated}}
           Unlinked == {<<"freed", t>> : t \in {u \in Thread : At(u, "on_commit") /\ a \in Freed(u)}}
           Todo == {<<"todo", t>> : t \in {u \in Thread : "todo" \in DOMAIN at[u] /\ a \in at[u].todo}}
           In(s) == {<<"region", s, k>> : k \in {j \in DOMAIN threads[s].regions :
                                                  a \in threads[s].regions[j].blocks}}
           Region1 == UNION {In(s) : s \in Slot}
<1>2. Places(a) = Heap \cup Linked \cup WSet \cup Allocated \cup Unlinked \cup Todo \cup Region1
  BY DEF Places
<1>3. \A u \in Thread : "todo" \in DOMAIN at[u] <=> InCall(u)
  <2> SUFFICES ASSUME NEW u \in Thread PROVE "todo" \in DOMAIN at[u] <=> InCall(u)
    OBVIOUS
  <2>1. at[u] \in Calls
    BY ThreadIs
  <2>2. QED
    BY <2>1, CallIs DEF InCall, Plain
<1>4. /\ Heap # {} => kind[a] = "heap"
      /\ kind[a] = "heap" => Heap = {<<"heap">>}
      /\ Linked # {} => kind[a] = "linked"
      /\ kind[a] = "linked" => Linked = {<<"linked">>}
  BY <1>1 DEF PlacedBy
<1>5. /\ WSet # {} => kind[a] = "w_set"
      /\ kind[a] = "w_set" => WSet = {<<"w_set", owner[a]>>}
  BY <1>1 DEF PlacedBy, WSets
<1>6. /\ Allocated # {} => kind[a] = "allocated"
      /\ kind[a] = "allocated" => Allocated = {<<"allocated", owner[a]>>}
  BY <1>1 DEF PlacedBy, Allocs
<1>7. /\ Unlinked # {} => kind[a] = "freed"
      /\ kind[a] = "freed" => Unlinked = {<<"freed", owner[a]>>}
  BY <1>1 DEF PlacedBy, Frees, Freed
<1>8. /\ Todo # {} => kind[a] = "todo"
      /\ kind[a] = "todo" => Todo = {<<"todo", owner[a]>>}
  BY <1>1, <1>3 DEF PlacedBy, Todos
<1>9. \A s \in Slot : \A j \in DOMAIN threads[s].regions :
        a \in threads[s].regions[j].blocks => kind[a] = "region" /\ owner[a] = s
  BY <1>1 DEF PlacedBy, Regs, BlocksOf
<1>10. Region1 # {} => kind[a] = "region"
  <2> SUFFICES ASSUME Region1 # {} PROVE kind[a] = "region"
    OBVIOUS
  <2>1. PICK s \in Slot : In(s) # {}
    OBVIOUS
  <2>2. QED
    BY <2>1, <1>9
<1>11. kind[a] = "region" => \E p : Region1 = {p}
  <2> SUFFICES ASSUME kind[a] = "region" PROVE \E p : Region1 = {p}
    OBVIOUS
  <2>1. owner[a] \in Slot /\ a \in BlocksOf(threads[owner[a]].regions)
    BY <1>1 DEF PlacedBy, Regs
  <2>2. PICK k \in DOMAIN threads[owner[a]].regions : a \in threads[owner[a]].regions[k].blocks
    BY <2>1 DEF BlocksOf
  <2>3. \A j \in DOMAIN threads[owner[a]].regions :
          a \in threads[owner[a]].regions[j].blocks => j = k
    BY <2>1, <2>2 DEF Disjoint
  <2>4. In(owner[a]) = {<<"region", owner[a], k>>}
    BY <2>2, <2>3
  <2>5. \A s \in Slot : s # owner[a] => In(s) = {}
    BY <1>9
  <2> HIDE DEF In
  <2>6. Region1 = In(owner[a])
    BY <2>1, <2>5
  <2>7. QED
    BY <2>4, <2>6
<1>12. kind[a] \in Kinds
  OBVIOUS
<1> HIDE DEF Heap, Linked, WSet, Allocated, Unlinked, Todo, In, Region1
<1>13. \E p : Places(a) = {p}
  BY <1>2, <1>4, <1>5, <1>6, <1>7, <1>8, <1>10, <1>11, <1>12 DEF Kinds
<1>14. QED
  BY <1>13, FS_Singleton

-----------------------------------------------------------------------------
(* Counting *)

\* The sets that are counted are finite.
LEMMA Finite ==
  ASSUME NEW S \in SUBSET Thread
  PROVE  IsFiniteSet(S) /\ Cardinality(S) \in Nat /\ Cardinality(S) <= Cardinality(Thread)
  BY GcAssumption, FS_Subset, FS_CardinalityType

\* One thread more or less.
LEMMA OneMore ==
  ASSUME NEW S \in SUBSET Thread, NEW t \in Thread
  PROVE  /\ t \notin S => Cardinality(S \cup {t}) = Cardinality(S) + 1
         /\ t \in S => Cardinality(S \ {t}) = Cardinality(S) - 1
  BY Finite, FS_AddElement, FS_RemoveElement

-----------------------------------------------------------------------------
(* Types *)

\* What a thread goes to is a call again.
LEMMA CallStays ==
  ASSUME Types, NEW t \in Thread, NEW c \in Calls, Goto(t, c)
  PROVE  at' \in [Thread -> Calls]
  BY DEF Types, Goto

\* So is the descriptor.
LEMMA TxStays ==
  ASSUME Types, NEW t \in Thread, NEW d \in Descriptor, tx' = [tx EXCEPT ![t] = d]
  PROVE  tx' \in [Thread -> Descriptor]
  BY DEF Types

\* A thread that may draw a timestamp can increment the clock.
LEMMA ClockStays ==
  ASSUME Types, Counts, NEW t \in Thread, t \in Drawing
  PROVE  clock + 1 \in Time
<1>1. Cardinality(Drawing) \in Nat /\ Cardinality(Drawing) # 0
  BY Finite, FS_EmptySet DEF Drawing
<1>2. QED
  BY <1>1, Bounds DEF Counts, Types, Time

\* A step of gc_init_thread or stm_init_thread keeps the types.
LEMMA TypesInit ==
  ASSUME Types, Sound, NEW t \in Thread,
         \/ InitThread(t) \/ LoadUsed(t) \/ TakeSlot(t) \/ CurrentEpoch(t) \/ LowerBound(t)
         \/ Enter(t)
  PROVE  Types'
<1>1. /\ at[t] \in Calls /\ tx[t] \in Descriptor /\ tx[t].idx \in Slot
      /\ threads[tx[t].idx] \in SlotRecord /\ 0 \in Slot /\ MAX_THREADS \in Nat \ {0}
  BY ThreadIs, Bounds
<1>2. NextSlot(t) /\ at[t].i \in Slot => at' \in [Thread -> Calls]
  BY <1>1, CallsAre, CallStays DEF NextSlot, Slot
<1>3. CASE InitThread(t)
  <2>1. [tx[t] EXCEPT !.lives = @ + 1] \in Descriptor
    BY <1>1 DEF Descriptor
  <2>2. tx' \in [Thread -> Descriptor]
    BY <1>3, <2>1, TxStays DEF InitThread, Types
  <2>3. at' \in [Thread -> Calls]
    BY <1>1, <1>3, CallsAre, CallStays DEF InitThread
  <2>4. QED
    BY <1>3, <2>2, <2>3 DEF InitThread, Types, memory, rollover
<1>4. CASE LoadUsed(t)
  <2>1. at[t].i \in Slot /\ threads[at[t].i] \in SlotRecord
    BY <1>1, <1>4, CallIs DEF LoadUsed, At, Types
  <2>2. at' \in [Thread -> Calls]
    <3>1. CASE threads[at[t].i].used = "BUSY"
      BY <1>2, <1>4, <2>1, <3>1 DEF LoadUsed
    <3>2. CASE threads[at[t].i].used # "BUSY"
      BY <1>4, <2>1, <3>2, CallsAre, CallStays DEF LoadUsed, SlotRecord
    <3>3. QED
      BY <3>1, <3>2
  <2>3. QED
    BY <1>4, <2>2 DEF LoadUsed, Types, memory, rollover
<1>5. CASE TakeSlot(t)
  <2>1. at[t].i \in Slot /\ threads[at[t].i] \in SlotRecord
    BY <1>1, <1>5, CallIs DEF TakeSlot, At, Types
  <2>2. CASE threads[at[t].i].used = at[t].used
    <3>1. [threads[at[t].i] EXCEPT !.used = "BUSY"] \in SlotRecord
      BY <2>1 DEF SlotRecord
    <3>2. [tx[t] EXCEPT !.idx = at[t].i] \in Descriptor
      BY <1>1, <2>1 DEF Descriptor
    <3>3. threads' \in [Slot -> SlotRecord]
      BY <1>5, <2>1, <2>2, <3>1 DEF TakeSlot, Types
    <3>4. tx' \in [Thread -> Descriptor]
      BY <1>5, <2>2, <3>2, TxStays DEF TakeSlot, Types
    <3>5. at' \in [Thread -> Calls]
      BY <1>5, <2>2, CallsAre, CallStays DEF TakeSlot, Go, Plain
    <3>6. QED
      BY <1>5, <3>3, <3>4, <3>5 DEF TakeSlot, Types, memory, rollover
  <2>3. CASE threads[at[t].i].used # at[t].used
    <3>1. at' \in [Thread -> Calls]
      BY <1>2, <1>5, <2>1, <2>3 DEF TakeSlot
    <3>2. QED
      BY <1>5, <2>3, <3>1 DEF TakeSlot, Types, memory, rollover
  <2>4. QED
    BY <2>2, <2>3
<1>6. CASE CurrentEpoch(t)
  <2>1. at' \in [Thread -> Calls]
    BY <1>6, CallsAre, CallStays DEF CurrentEpoch, Types
  <2>2. QED
    BY <1>6, <2>1 DEF CurrentEpoch, Types, memory, rollover
<1>7. CASE LowerBound(t)
  <2>1. at[t].epoch \in Epoch
    BY <1>1, <1>7, CallIs, Bounds DEF LowerBound, At
  <2>2. [threads[tx[t].idx] EXCEPT !.ts = at[t].epoch] \in SlotRecord
    BY <1>1, <2>1 DEF SlotRecord
  <2>3. threads' \in [Slot -> SlotRecord]
    BY <1>1, <1>7, <2>2 DEF LowerBound, Types
  <2>4. at' \in [Thread -> Calls]
    BY <1>7, CallsAre, CallStays DEF LowerBound, Go, Plain
  <2>5. QED
    BY <1>7, <2>3, <2>4 DEF LowerBound, Types, memory, rollover
<1>8. CASE Enter(t)
  <2>1. PICK b \in heap : heap' = heap \ {b} /\ tx' = [tx EXCEPT ![t].w_set = {b}]
    BY <1>8 DEF Enter
  <2>2. [tx[t] EXCEPT !.w_set = {b}] \in Descriptor
    BY <1>1 DEF Descriptor, Types
  <2>3. tx' \in [Thread -> Descriptor]
    BY <2>1, <2>2, TxStays DEF Types
  <2>4. at' \in [Thread -> Calls]
    BY <1>8, CallsAre, CallStays DEF Enter, Go, Plain
  <2>5. QED
    BY <1>8, <2>1, <2>3, <2>4 DEF Enter, Types
<1>9. QED
  BY <1>3, <1>4, <1>5, <1>6, <1>7, <1>8

\* A step of gc_free, with gc_cleanup, keeps the types.
LEMMA TypesFree ==
  ASSUME Types, Sound, NEW t \in Thread,
         GcFree(t) \/ Cleanup(t) \/ MinUsed(t) \/ MinTs(t) \/ Clean(t)
  PROVE  Types'
<1>1. /\ at[t] \in Calls /\ tx[t] \in Descriptor /\ tx[t].idx \in Slot
      /\ threads[tx[t].idx] \in SlotRecord /\ Mine(t).regions \in Seq(Region)
  BY ThreadIs, SlotIs DEF Mine
<1>2. CASE GcFree(t)
  <2>1. /\ at[t].todo \subseteq Addr /\ at[t].epoch \in Time /\ at[t].after \in Steps
        /\ at[t] \in [pc : {"free", "cleanup"}, todo : SUBSET Addr, epoch : Time, after : Steps]
    BY <1>1, <1>2, CallIs DEF GcFree, At
  <2>2. PICK a \in at[t].todo :
          /\ threads' = [threads EXCEPT ![tx[t].idx].regions = WithBlock(@, a, at[t].epoch)]
          /\ Goto(t, [at[t] EXCEPT !.pc = "cleanup", !.todo = @ \ {a}])
    BY <1>2 DEF GcFree
  <2>3. WithBlock(Mine(t).regions, a, at[t].epoch) \in Seq(Region)
    BY <1>1, <2>1, Bounds, WithBlockIs
  <2>4. [threads[tx[t].idx] EXCEPT !.regions = WithBlock(@, a, at[t].epoch)] \in SlotRecord
    BY <1>1, <2>3 DEF SlotRecord, Mine
  <2>5. threads' \in [Slot -> SlotRecord]
    BY <1>1, <2>2, <2>4 DEF Types
  <2>6. at' \in [Thread -> Calls]
    <3>1. PICK rest \in SUBSET Addr : rest = at[t].todo \ {a}
      BY <2>1
    <3>2. Goto(t, [at[t] EXCEPT !.pc = "cleanup", !.todo = rest])
      BY <2>2, <3>1
    <3>3. [at[t] EXCEPT !.pc = "cleanup", !.todo = rest]
            = [pc |-> "cleanup", todo |-> rest, epoch |-> at[t].epoch, after |-> at[t].after]
      BY <2>1, FreeStep
    <3>4. QED
      BY <2>1, <3>2, <3>3, CallsAre, CallStays
  <2>7. QED
    BY <1>2, <2>5, <2>6 DEF GcFree, Types, memory, rollover
<1>3. CASE Cleanup(t)
  <2>1. at[t].todo \subseteq Addr /\ at[t].epoch \in Time /\ at[t].after \in Steps /\ clock \in Nat
    BY <1>1, <1>3, CallIs, Bounds DEF Cleanup, At, Types
  <2>2. at' \in [Thread -> Calls]
    BY <1>3, <2>1, CallsAre, CallStays DEF Cleanup
  <2>3. QED
    BY <1>3, <2>2 DEF Cleanup, Types, memory, rollover
<1>4. CASE MinUsed(t)
  <2>1. /\ at[t].todo \subseteq Addr /\ at[t].epoch \in Time /\ at[t].after \in Steps
        /\ at[t].min \in Nat /\ at[t].i \in Nat
        /\ at[t] \in [pc : {"used", "ts", "clean"}, todo : SUBSET Addr, epoch : Time,
                     after : Steps, min : Nat, i : Nat]
        /\ at[t].pc = "used"
    BY <1>1, <1>4, CallIs DEF MinUsed, At
  <2>2. \E c \in Calls : Goto(t, c)
    <3>1. \A pc \in {"ts", "clean"} : [at[t] EXCEPT !.pc = pc]
            = [pc |-> pc, todo |-> at[t].todo, epoch |-> at[t].epoch,
               after |-> at[t].after, min |-> at[t].min, i |-> at[t].i]
      BY <2>1, MinStep
    <3>2. \A i \in Nat : [at[t] EXCEPT !.i = i]
            = [pc |-> "used", todo |-> at[t].todo, epoch |-> at[t].epoch,
               after |-> at[t].after, min |-> at[t].min, i |-> i]
      BY <2>1, MinStep
    <3>3. [at[t] EXCEPT !.pc = "ts"] \in Calls /\ [at[t] EXCEPT !.pc = "clean"] \in Calls
      BY <2>1, <3>1, CallsAre
    <3>4. PICK i \in Nat : i = at[t].i + 1
      BY <2>1
    <3>5. [at[t] EXCEPT !.i = i] \in Calls
      BY <2>1, <3>2, <3>4, CallsAre
    <3>6. QED
      BY <1>4, <3>3, <3>4, <3>5 DEF MinUsed
  <2>3. at' \in [Thread -> Calls]
    BY <2>2, CallStays
  <2>4. QED
    BY <1>4, <2>3 DEF MinUsed, Types, memory, rollover
<1>5. CASE MinTs(t)
  <2>1. /\ at[t].todo \subseteq Addr /\ at[t].epoch \in Time /\ at[t].after \in Steps
        /\ at[t].min \in Nat /\ at[t].i \in Nat
        /\ at[t] \in [pc : {"used", "ts", "clean"}, todo : SUBSET Addr, epoch : Time,
                     after : Steps, min : Nat, i : Nat]
    BY <1>1, <1>5, CallIs DEF MinTs, At
  <2>2. PICK min \in Nat, i \in Nat :
          i = at[t].i + 1 /\ Goto(t, [at[t] EXCEPT !.pc = "used", !.i = i, !.min = min])
    <3>1. at[t].i \in Slot => threads[at[t].i].ts \in Nat
      BY SlotIs, Bounds
    <3>2. at[t].i \in Slot
      BY <1>5 DEF Sound, Locals, MinTs, At
    <3>3. PICK ts \in Nat, min \in Nat :
            ts = threads[at[t].i].ts /\ min = IF ts < at[t].min THEN ts ELSE at[t].min
      BY <2>1, <3>1, <3>2
    <3>4. PICK i \in Nat : i = at[t].i + 1
      BY <2>1
    <3>5. Goto(t, [at[t] EXCEPT !.pc = "used", !.i = i, !.min = min])
      BY <1>5, <3>3, <3>4 DEF MinTs
    <3>6. QED
      BY <3>4, <3>5
  <2>3. [at[t] EXCEPT !.pc = "used", !.i = i, !.min = min]
          = [pc |-> "used", todo |-> at[t].todo, epoch |-> at[t].epoch,
             after |-> at[t].after, min |-> min, i |-> i]
    BY <2>1, MinStep
  <2>4. at' \in [Thread -> Calls]
    BY <2>1, <2>2, <2>3, CallsAre, CallStays
  <2>5. QED
    BY <1>5, <2>4 DEF MinTs, Types, memory, rollover
<1>6. CASE Clean(t)
  <2>1. /\ at[t].todo \subseteq Addr /\ at[t].epoch \in Time /\ at[t].after \in Steps
        /\ at[t].min \in Nat
    BY <1>1, <1>6, CallIs DEF Clean, At
  <2> DEFINE left == Left(Mine(t).regions, at[t].min)
  <2>2. left \in Seq(Region)
    BY <1>1, <2>1, LeftIs
  <2> HIDE DEF left
  <2>3. [threads[tx[t].idx] EXCEPT !.regions = left] \in SlotRecord
    BY <1>1, <2>2 DEF SlotRecord
  <2>4. threads' \in [Slot -> SlotRecord]
    BY <1>1, <1>6, <2>3 DEF Clean, Types, left
  <2>5. heap' \subseteq Addr
    BY <1>1, <1>6, SlotIs DEF Clean, Types, Mine
  <2>6. at' \in [Thread -> Calls]
    BY <1>6, <2>1, CallsAre, CallStays DEF Clean, Go, Hand, Steps, Plain
  <2>7. QED
    BY <1>6, <2>4, <2>5, <2>6 DEF Clean, Types, rollover
<1>7. QED
  BY <1>2, <1>3, <1>4, <1>5, <1>6

-----------------------------------------------------------------------------
(* What a step of thread m leaves alone *)

Only(m) == \A u \in Thread \ {m} : at'[u] = at[u] /\ tx'[u] = tx[u]
\* It changes regions and epochs in its own slot only.
Own(m) ==
    \A s \in Slot : threads'[s].regions # threads[s].regions \/ threads'[s].ts # threads[s].ts =>
        Owns(m) /\ s = tx[m].idx

\* Whoever is in a call or in a transaction has a slot.
LEMMA Owners ==
  ASSUME NEW u \in Thread, Scans(u) \/ InCall(u) \/ At(u, "active")
  PROVE  Owns(u)
  BY DEF Scans, InCall, At, Owns

\* The slots, when no slot is taken or released.
LEMMA SlotsOthers ==
  ASSUME Slots, \A s \in Slot : threads'[s].used = threads[s].used,
         \A s \in Slot : threads[s].used = NULL /\ threads[s].regions = <<>> =>
           threads'[s].regions = <<>>,
         \A u \in Thread : Owns(u)' => Owns(u) /\ tx'[u].idx = tx[u].idx /\ tx[u].idx \in Slot,
         \A u \in Thread : at'[u].pc \in {"slot", "cas"} =>
           \/ at'[u] = at[u]
           \/ \A s \in Slot : threads[s].used = NULL =>
                /\ at'[u].i <= s
                /\ at'[u].pc = "cas" /\ at'[u].i = s => at'[u].used = NULL
  PROVE  Slots'
<1>1. \A t \in Thread : Owns(t)' => Mine(t)'.used = "BUSY"
  BY DEF Slots, Mine
<1>2. \A t, u \in Thread : Owns(t)' /\ Owns(u)' /\ t # u => tx'[t].idx # tx'[u].idx
  BY DEF Slots
<1>3. ASSUME NEW s \in Slot, threads'[s].used = NULL
      PROVE  /\ threads'[s].regions = <<>>
             /\ \A r \in Slot : s < r => threads'[r].used = NULL
             /\ \A t \in Thread : at'[t].pc \in {"slot", "cas"} => at'[t].i <= s
             /\ \A t \in Thread : At(t, "cas")' /\ at'[t].i = s => at'[t].used = NULL
  <2>1. threads[s].used = NULL
    BY <1>3
  <2>2. threads'[s].regions = <<>> /\ \A r \in Slot : s < r => threads'[r].used = NULL
    BY <2>1 DEF Slots
  <2>3. ASSUME NEW t \in Thread, at'[t].pc \in {"slot", "cas"}
        PROVE  at'[t].i <= s /\ (at'[t].pc = "cas" /\ at'[t].i = s => at'[t].used = NULL)
    BY <2>1, <2>3 DEF Slots, At
  <2>4. QED
    BY <2>2, <2>3 DEF At
<1>4. QED
  BY <1>1, <1>2, <1>3 DEF Slots

\* What another thread has between its calls.
LEMMA LocalsOthers ==
  ASSUME Types, Slots, NEW m \in Thread, Only(m), Own(m), clock' \in Nat, clock <= clock',
         NEW u \in Thread \ {m}, Locals(u),
         At(u, "active") => tx[u].freed \subseteq linked' /\ tx'[m].freed \cap tx[u].freed = {}
  PROVE  Locals(u)'
<1>1. at'[u] = at[u] /\ tx'[u] = tx[u]
  BY DEF Only
<1>2. At(u, "active") => Mine(u)'.ts = Mine(u).ts
  <2> SUFFICES ASSUME At(u, "active") PROVE threads'[tx[u].idx].ts = threads[tx[u].idx].ts
    BY <1>1 DEF Mine
  <2>1. Owns(u) /\ tx[u].idx \in Slot
    BY Owners, ThreadIs
  <2>2. QED
    BY <2>1 DEF Own, Slots
<1>3. (u \in Counted)' <=> u \in Counted
  BY <1>1 DEF Counted, Before, At, InCall
<1>4. (u \in Drawing)' <=> u \in Drawing
  BY <1>1 DEF Drawing, Before, At, InCall
<1>5. u \in Drawing => tx[u].start <= clock'
  <2>1. tx[u].start \in Nat /\ clock \in Nat
    BY ThreadIs, Bounds DEF Types
  <2>2. QED
    BY <2>1 DEF Locals
<1>6. At(u, "active") => \A v \in Thread \ {u} : tx'[v].freed \cap tx[u].freed = {}
  BY DEF Only, Locals
<1>7. QED
  BY <1>1, <1>2, <1>3, <1>4, <1>5, <1>6 DEF Locals, At, InCall

\* What is held by a transaction.
LEMMA HeldOthers ==
  ASSUME Types, Slots, NEW m \in Thread, Only(m), Own(m), clock' \in Nat, clock <= clock',
         NEW t \in Thread, NEW a, Held(t, a), tx'[t].start = tx[t].start, tx'[t].idx = tx[t].idx,
         a \notin heap', Elsewhere(t, a, m)',
         \A s \in Slot : Owns(m) /\ s = tx[m].idx => Later(t, a, s)'
  PROVE  Held(t, a)'
<1>1. ASSUME NEW u \in Thread \ {m} PROVE Elsewhere(t, a, u)'
  <2>1. at'[u] = at[u] /\ tx'[u] = tx[u]
    BY DEF Only
  <2>2. Scans(u) => Mine(u)'.regions = Mine(u).regions
    <3> SUFFICES ASSUME Scans(u)
                 PROVE  threads'[tx[u].idx].regions = threads[tx[u].idx].regions
      BY <2>1 DEF Mine
    <3>1. Owns(u) /\ tx[u].idx \in Slot
      BY Owners, ThreadIs
    <3>2. QED
      BY <3>1 DEF Own, Slots
  <2>3. tx[t].start < clock => tx[t].start < clock'
    <3>1. tx[t].start \in Nat /\ clock \in Nat
      BY ThreadIs, Bounds DEF Types
    <3>2. QED
      BY <3>1
  <2>4. Elsewhere(t, a, u)
    BY DEF Held
  <2>5. Scans(u)' => Scans(u) /\ BlocksOf(Mine(u)'.regions) = BlocksOf(Mine(u).regions)
    BY <2>1, <2>2 DEF Scans
  <2>6. QED
    BY <2>1, <2>3, <2>4, <2>5 DEF Elsewhere, Met, At, InCall
<1>2. ASSUME NEW s \in Slot PROVE Later(t, a, s)'
  <2>1. CASE Owns(m) /\ s = tx[m].idx
    BY <2>1
  <2>2. CASE ~(Owns(m) /\ s = tx[m].idx)
    BY <2>2 DEF Own, Held, Later
  <2>3. QED
    BY <2>1, <2>2
<1>3. \A u \in Thread : Elsewhere(t, a, u)'
  BY <1>1
<1>4. QED
  BY <1>2, <1>3 DEF Held

\* The places of the blocks of the other threads.
LEMMA PlacesOthers ==
  ASSUME NEW m \in Thread, Only(m)
  PROVE  /\ \A u \in Thread \ {m} : /\ WSets'[u] = WSets[u] /\ Allocs'[u] = Allocs[u]
                                    /\ Frees'[u] = Frees[u] /\ Todos'[u] = Todos[u]
         /\ tx'[m].w_set = tx[m].w_set => WSets' = WSets
         /\ tx'[m].allocated = tx[m].allocated => Allocs' = Allocs
         /\ Frees'[m] = Frees[m] => Frees' = Frees
         /\ Todos'[m] = Todos[m] => Todos' = Todos
<1>1. \A u \in Thread \ {m} : /\ WSets'[u] = WSets[u] /\ Allocs'[u] = Allocs[u]
                              /\ Frees'[u] = Frees[u] /\ Todos'[u] = Todos[u]
  BY DEF Only, WSets, Allocs, Frees, Todos, At, InCall
<1>2. QED
  BY <1>1 DEF WSets, Allocs, Frees, Todos

\* The blocks of the slots, when the regions stay.
LEMMA RegionsStay ==
  ASSUME \A s \in Slot : threads'[s].regions = threads[s].regions
  PROVE  /\ Regs' = Regs
         /\ \A s \in Slot : Disjoint(threads[s].regions) => Disjoint(threads'[s].regions)
  BY DEF Regs

\* A block is in no two places.
LEMMA PlacesApart ==
  ASSUME Here, NEW a \in Addr
  PROVE  /\ a \in linked \cup heap =>
              \A u \in Thread : /\ a \notin tx[u].w_set /\ a \notin tx[u].allocated
                                /\ a \notin Frees[u] /\ a \notin Todos[u]
         /\ a \in linked \cup heap => \A s \in Slot : a \notin Regs[s]
         /\ a \in linked => a \notin heap
         /\ \A u \in Thread : a \in Todos[u] => \A s \in Slot : a \notin Regs[s]
         /\ \A u, v \in Thread : a \in tx[u].w_set /\ a \in tx[v].w_set => u = v
<1>1. PICK kind \in [Addr -> Kinds], owner \in [Addr -> Thread \cup Slot \cup {0}] :
        PlacedBy(kind, owner, heap, linked, WSets, Allocs, Frees, Todos, Regs)
  BY DEF Here, Placed
<1>2. \A u \in Thread : WSets[u] = tx[u].w_set /\ Allocs[u] = tx[u].allocated
  BY DEF WSets, Allocs
<1>3. QED
  BY <1>1, <1>2 DEF PlacedBy

\* A step that moves no block.
LEMMA StillPlaces ==
  ASSUME Sound, NEW m \in Thread, Only(m), heap' = heap, linked' = linked,
         \A s \in Slot : threads'[s].regions = threads[s].regions,
         tx'[m].w_set = tx[m].w_set, tx'[m].allocated = tx[m].allocated,
         Frees'[m] = Frees[m], Todos'[m] = Todos[m]
  PROVE  Here' /\ \A s \in Slot : Disjoint(threads'[s].regions)
<1>1. Regs' = Regs /\ \A s \in Slot : Disjoint(threads'[s].regions)
  BY RegionsStay DEF Sound
<1>2. WSets' = WSets /\ Allocs' = Allocs /\ Frees' = Frees /\ Todos' = Todos
  BY PlacesOthers
<1>3. QED
  BY <1>1, <1>2 DEF Sound, Here

\* In such a step it is enough to look at what m knows of the minimum.
LEMMA StillHeld ==
  ASSUME Types, Sound, NEW m \in Thread, Only(m), Own(m), clock' \in Nat, clock <= clock',
         heap' = heap, \A s \in Slot : threads'[s].regions = threads[s].regions,
         tx'[m].w_set = tx[m].w_set, tx'[m].allocated = tx[m].allocated,
         Frees'[m] = Frees[m], Todos'[m] = Todos[m],
         tx'[m].holds \subseteq tx[m].holds,
         tx'[m].holds # {} => tx'[m].start = tx[m].start /\ tx'[m].idx = tx[m].idx,
         InCall(m) /\ InCall(m)' => at'[m].epoch = at[m].epoch,
         \A t \in Thread : \A a \in tx[t].holds : Held(t, a) /\ tx'[t].holds # {} => Met(t, a, m)'
  PROVE  \A t \in Thread : \A a \in tx'[t].holds : Held(t, a)'
<1> SUFFICES ASSUME NEW t \in Thread, NEW a \in tx'[t].holds PROVE Held(t, a)'
  OBVIOUS
<1>1. a \in tx[t].holds /\ tx'[t].start = tx[t].start /\ tx'[t].idx = tx[t].idx
  BY DEF Only
<1>2. Held(t, a) /\ Slots
  BY <1>1 DEF Sound
<1>3. Elsewhere(t, a, m)'
  <2>1. Elsewhere(t, a, m)
    BY <1>2 DEF Held
  <2>2. At(m, "on_commit")' /\ a \in tx'[m].freed => At(m, "on_commit") /\ a \in tx[m].freed
    BY DEF Frees
  <2>3. InCall(m)' /\ a \in at'[m].todo => InCall(m) /\ a \in at[m].todo
    BY DEF Todos
  <2>4. tx[t].start \in Nat /\ clock \in Nat
    BY ThreadIs, Bounds DEF Types
  <2>5. At(m, "on_commit")' /\ a \in tx'[m].freed => tx'[t].start < clock'
    BY <1>1, <2>1, <2>2, <2>4 DEF Elsewhere
  <2>6. InCall(m)' /\ a \in at'[m].todo => tx'[t].start < at'[m].epoch
    BY <1>1, <2>1, <2>3 DEF Elsewhere
  <2>7. Met(t, a, m)'
    BY <1>1, <1>2
  <2>8. QED
    BY <2>1, <2>5, <2>6, <2>7 DEF Elsewhere
<1>4. \A s \in Slot : Owns(m) /\ s = tx[m].idx => Later(t, a, s)'
  BY <1>1, <1>2 DEF Held, Later
<1>5. a \notin heap'
  BY <1>2 DEF Held
<1>6. QED
  BY <1>1, <1>2, <1>3, <1>4, <1>5, HeldOthers

\* Where m goes, nobody follows.
LEMMA Goes ==
  ASSUME Types, NEW m \in Thread, NEW c, Goto(m, c)
  PROVE  at'[m] = c /\ \A u \in Thread \ {m} : at'[u] = at[u]
  BY DEF Types, Goto

\* Such a step is sound, if it is so for the slots and for m.
LEMMA StillSound ==
  ASSUME Types, Sound, NEW m \in Thread, Only(m), Own(m), clock' \in Nat, clock <= clock',
         heap' = heap, linked' = linked,
         \A s \in Slot : threads'[s].regions = threads[s].regions,
         tx'[m].w_set = tx[m].w_set, tx'[m].allocated = tx[m].allocated,
         Frees'[m] = Frees[m], Todos'[m] = Todos[m],
         tx'[m].freed \subseteq tx[m].freed, tx'[m].holds \subseteq tx[m].holds,
         tx'[m].holds # {} => tx'[m].start = tx[m].start /\ tx'[m].idx = tx[m].idx,
         InCall(m) /\ InCall(m)' => at'[m].epoch = at[m].epoch,
         \A t \in Thread : \A a \in tx[t].holds : Held(t, a) /\ tx'[t].holds # {} => Met(t, a, m)',
         Slots', Locals(m)'
  PROVE  Sound'
<1>1. Here' /\ \A s \in Slot : Disjoint(threads'[s].regions)
  BY StillPlaces
<1>2. \A t \in Thread : \A a \in tx'[t].holds : Held(t, a)'
  BY StillHeld
<1>3. ASSUME NEW u \in Thread \ {m} PROVE Locals(u)'
  <2>1. Locals(u) /\ Slots
    BY DEF Sound
  <2>2. At(u, "active") => tx[u].freed \subseteq linked' /\ tx'[m].freed \cap tx[u].freed = {}
    BY <2>1 DEF Locals
  <2>3. QED
    BY <2>1, <2>2, LocalsOthers
<1>4. \A u \in Thread : Locals(u)'
  BY <1>3
<1>5. QED
  BY <1>1, <1>2, <1>4 DEF Sound

-----------------------------------------------------------------------------
(* gc_init_thread *)

\* A thread looks for a slot.
LEMMA SoundLooking ==
  ASSUME Types, Types', Sound, NEW m \in Thread, at[m].pc \in {"out", "slot", "cas"},
         NEW d, at' = [at EXCEPT ![m] = d], d.pc \in {"slot", "cas"},
         tx'[m].idx = tx[m].idx, tx'[m].w_set = tx[m].w_set, tx'[m].holds = tx[m].holds,
         tx'[m].allocated = tx[m].allocated, tx'[m].freed = tx[m].freed,
         \A u \in Thread \ {m} : tx'[u] = tx[u],
         UNCHANGED <<clock, threads, heap, linked>>,
         \A s \in Slot : threads[s].used = NULL =>
           /\ d.i <= s
           /\ d.pc = "cas" /\ d.i = s => d.used = NULL
  PROVE  Sound'
<1>1. at'[m] = d /\ \A u \in Thread \ {m} : at'[u] = at[u]
  BY DEF Types
<1>2. Only(m) /\ Own(m) /\ clock' \in Nat /\ clock <= clock'
  BY <1>1, Bounds DEF Only, Own, Types
<1>3. Slots'
  <2>1. \A u \in Thread : Owns(u)' => Owns(u) /\ tx'[u].idx = tx[u].idx /\ tx[u].idx \in Slot
    BY <1>1, ThreadIs DEF Owns
  <2>2. \A u \in Thread : at'[u].pc \in {"slot", "cas"} =>
          \/ at'[u] = at[u]
          \/ \A s \in Slot : threads[s].used = NULL =>
               /\ at'[u].i <= s
               /\ at'[u].pc = "cas" /\ at'[u].i = s => at'[u].used = NULL
    BY <1>1
  <2>3. QED
    BY <2>1, <2>2, SlotsOthers DEF Sound
<1>4. Locals(m)
  BY DEF Sound
<1>5. tx[m].holds = {} /\ tx[m].allocated = {} /\ tx[m].freed = {} /\ tx[m].w_set = {}
  BY <1>4 DEF Locals, Counted, Before, At, InCall
<1>6. Locals(m)'
  BY <1>1, <1>5 DEF Locals, Counted, Drawing, Before, At, InCall
<1>7. Frees'[m] = Frees[m] /\ Todos'[m] = Todos[m] /\ ~InCall(m)' /\ ~Scans(m)'
  BY <1>1 DEF Frees, Todos, InCall, Scans, At
<1>8. QED
  BY <1>2, <1>3, <1>5, <1>6, <1>7, StillSound DEF Met

\* What NextSlot says.
LEMMA NextSlotIs ==
  ASSUME Types, NEW m \in Thread, at[m].i \in Slot, NextSlot(m)
  PROVE  \E i \in Slot : /\ at' = [at EXCEPT ![m] = [pc |-> "slot", i |-> i]]
                         /\ \A s \in Slot : at[m].i < s => i <= s
<1>1. MAX_THREADS \in Nat \ {0} /\ at[m].i \in 0 .. MAX_THREADS - 1
  BY Bounds DEF Slot
<1>2. (at[m].i + 1) % MAX_THREADS \in Slot
  BY <1>1 DEF Slot
<1>3. ASSUME NEW s \in Slot, at[m].i < s PROVE (at[m].i + 1) % MAX_THREADS <= s
  <2>1. at[m].i + 1 < MAX_THREADS
    BY <1>1, <1>3 DEF Slot
  <2>2. (at[m].i + 1) % MAX_THREADS = at[m].i + 1
    BY <1>1, <2>1
  <2>3. QED
    BY <1>1, <1>3, <2>2 DEF Slot
<1>4. QED
  BY <1>2, <1>3 DEF NextSlot, Goto

LEMMA SoundInitThread ==
  ASSUME Types, Types', Sound, NEW m \in Thread, InitThread(m)
  PROVE  Sound'
<1> DEFINE d == [pc |-> "slot", i |-> 0]
<1>1. at' = [at EXCEPT ![m] = d] /\ at[m].pc = "out"
  BY DEF InitThread, Goto, At
<1>2. tx' = [tx EXCEPT ![m].lives = @ + 1] /\ UNCHANGED <<clock, threads, heap, linked>>
  BY DEF InitThread, memory
<1>3. /\ tx'[m].idx = tx[m].idx /\ tx'[m].w_set = tx[m].w_set /\ tx'[m].holds = tx[m].holds
      /\ tx'[m].allocated = tx[m].allocated /\ tx'[m].freed = tx[m].freed
      /\ \A u \in Thread \ {m} : tx'[u] = tx[u]
  BY <1>2 DEF Types, Descriptor
<1>4. d.pc = "slot" /\ \A s \in Slot : d.i <= s
  BY Bounds DEF Slot
<1> HIDE DEF d
<1>5. QED
  BY <1>1, <1>2, <1>3, <1>4, SoundLooking

LEMMA SoundLoadUsed ==
  ASSUME Types, Types', Sound, NEW m \in Thread, LoadUsed(m)
  PROVE  Sound'
<1>1. at[m].pc = "slot" /\ UNCHANGED <<clock, threads, heap, linked, tx>>
  BY DEF LoadUsed, At, memory
<1>2. at[m].i \in Slot
  BY <1>1, ThreadIs, CallIs
<1>3. \A s \in Slot : threads[s].used = NULL => at[m].i <= s
  BY <1>1 DEF Sound, Slots
<1>4. CASE threads[at[m].i].used = "BUSY"
  <2>1. NextSlot(m)
    BY <1>4 DEF LoadUsed
  <2>2. PICK i \in Slot : /\ at' = [at EXCEPT ![m] = [pc |-> "slot", i |-> i]]
                          /\ \A s \in Slot : at[m].i < s => i <= s
    BY <1>2, <2>1, NextSlotIs
  <2>3. \A s \in Slot : threads[s].used = NULL => i <= s
    BY <1>2, <1>3, <1>4, <2>2 DEF NULL, Slot
  <2> DEFINE d == [pc |-> "slot", i |-> i]
  <2>4. d.pc = "slot" /\ d.i = i
    OBVIOUS
  <2>5. at' = [at EXCEPT ![m] = d]
    BY <2>2
  <2> HIDE DEF d
  <2>6. QED
    BY <1>1, <2>3, <2>4, <2>5, SoundLooking
<1>5. CASE threads[at[m].i].used # "BUSY"
  <2>1. PICK d : d = [pc |-> "cas", i |-> at[m].i, used |-> threads[at[m].i].used]
    OBVIOUS
  <2>2. at' = [at EXCEPT ![m] = d]
    BY <1>5, <2>1 DEF LoadUsed, Goto
  <2>3. d.pc = "cas" /\ d.i = at[m].i /\ d.used = threads[at[m].i].used
    BY <2>1
  <2>4. \A s \in Slot : threads[s].used = NULL =>
          d.i <= s /\ (d.pc = "cas" /\ d.i = s => d.used = NULL)
    BY <1>3, <2>3
  <2>5. d.pc \in {"slot", "cas"} /\ at[m].pc \in {"out", "slot", "cas"}
    BY <1>1, <2>3
  <2>6. QED
    BY <1>1, <2>2, <2>4, <2>5, SoundLooking
<1>6. QED
  BY <1>4, <1>5

LEMMA SoundTakeSlot ==
  ASSUME Types, Types', Sound, NEW m \in Thread, TakeSlot(m)
  PROVE  Sound'
<1>1. at[m].pc = "cas" /\ UNCHANGED <<clock, heap, linked>>
  BY DEF TakeSlot, At, memory
<1>2. at[m].i \in Slot /\ at[m].used \in {NULL, "FREE_EMPTY", "FREE_FULL"}
  BY <1>1, ThreadIs, CallIs
<1>3. \A s \in Slot : threads[s].used = NULL =>
        at[m].i <= s /\ (at[m].i = s => at[m].used = NULL)
  BY <1>1 DEF Sound, Slots, At
<1>4. CASE threads[at[m].i].used # at[m].used
  <2>1. NextSlot(m) /\ UNCHANGED <<threads, tx>>
    BY <1>4 DEF TakeSlot
  <2>2. PICK i \in Slot : /\ at' = [at EXCEPT ![m] = [pc |-> "slot", i |-> i]]
                          /\ \A s \in Slot : at[m].i < s => i <= s
    BY <1>2, <2>1, NextSlotIs
  <2>3. \A s \in Slot : threads[s].used = NULL => i <= s
    BY <1>2, <1>3, <1>4, <2>2 DEF Slot
  <2> DEFINE d == [pc |-> "slot", i |-> i]
  <2>4. d.pc = "slot" /\ d.i = i
    OBVIOUS
  <2>5. at' = [at EXCEPT ![m] = d]
    BY <2>2
  <2> HIDE DEF d
  <2>6. QED
    BY <1>1, <2>1, <2>3, <2>4, <2>5, SoundLooking
<1>5. CASE threads[at[m].i].used = at[m].used
  <2>1. PICK i \in Slot : i = at[m].i
    BY <1>2
  <2>2. /\ threads' = [threads EXCEPT ![i].used = "BUSY"] /\ tx' = [tx EXCEPT ![m].idx = i]
        /\ Goto(m, [pc |-> "epoch"])
    BY <1>5, <2>1 DEF TakeSlot, Go
  <2>3. at'[m] = [pc |-> "epoch"] /\ \A u \in Thread \ {m} : at'[u] = at[u]
    BY <2>2, Goes
  <2>4. /\ \A s \in Slot \ {i} : threads'[s] = threads[s]
        /\ threads'[i].used = "BUSY" /\ threads'[i].regions = threads[i].regions
        /\ threads'[i].ts = threads[i].ts
    BY <2>2 DEF Types, SlotRecord
  <2>5. /\ \A u \in Thread \ {m} : tx'[u] = tx[u]
        /\ tx'[m].idx = i /\ tx'[m].w_set = tx[m].w_set /\ tx'[m].holds = tx[m].holds
        /\ tx'[m].allocated = tx[m].allocated /\ tx'[m].freed = tx[m].freed
    BY <2>2 DEF Types, Descriptor
  <2>6. Only(m) /\ Own(m) /\ clock' \in Nat /\ clock <= clock'
    BY <1>1, <2>3, <2>4, <2>5, Bounds DEF Only, Own, Types
  <2>7. Slots'
    <3>1. Slots /\ threads[i].used # "BUSY"
      BY <1>2, <1>5, <2>1 DEF Sound, NULL
    <3>2. \A u \in Thread \ {m} : Owns(u)' => Owns(u) /\ tx'[u].idx = tx[u].idx /\ tx[u].idx # i
                                            /\ threads[tx[u].idx].used = "BUSY"
      BY <2>3, <2>5, <3>1 DEF Owns, Slots, Mine
    <3>3. \A u \in Thread : Owns(u)' => Mine(u)'.used = "BUSY"
      BY <2>4, <2>5, <3>2, ThreadIs DEF Mine
    <3>4. \A u, v \in Thread : Owns(u)' /\ Owns(v)' /\ u # v => tx'[u].idx # tx'[v].idx
      BY <2>5, <3>1, <3>2 DEF Slots
    <3>5. ASSUME NEW s \in Slot, threads'[s].used = NULL
          PROVE  /\ threads'[s].regions = <<>>
                 /\ \A r \in Slot : s < r => threads'[r].used = NULL
                 /\ \A u \in Thread : at'[u].pc \in {"slot", "cas"} => at'[u].i <= s
                 /\ \A u \in Thread : At(u, "cas")' /\ at'[u].i = s => at'[u].used = NULL
      <4>1. s # i /\ threads[s].used = NULL
        BY <2>4, <3>5 DEF NULL
      <4>2. i < s
        BY <1>3, <2>1, <4>1 DEF Slot
      <4>3. \A r \in Slot : s < r => r # i
        BY <4>2 DEF Slot
      <4>4. threads'[s].regions = <<>> /\ \A r \in Slot : s < r => threads'[r].used = NULL
        BY <2>4, <3>1, <4>1, <4>3 DEF Slots
      <4>5. QED
        BY <2>3, <3>1, <4>1, <4>4 DEF Slots, At
    <3>6. QED
      BY <3>3, <3>4, <3>5 DEF Slots
  <2>8. Locals(m)
    BY DEF Sound
  <2>9. tx[m].holds = {} /\ tx[m].allocated = {} /\ tx[m].freed = {} /\ tx[m].w_set = {}
    BY <1>1, <2>8 DEF Locals, Counted, Before, At, InCall
  <2>10. Locals(m)'
    BY <2>3, <2>5, <2>9 DEF Locals, Counted, Drawing, Before, At, InCall
  <2>11. Frees'[m] = Frees[m] /\ Todos'[m] = Todos[m] /\ ~InCall(m)' /\ ~Scans(m)'
    BY <1>1, <2>3 DEF Frees, Todos, InCall, Scans, At
  <2>12. \A s \in Slot : threads'[s].regions = threads[s].regions
    BY <2>4
  <2>13. QED
    BY <1>1, <2>5, <2>6, <2>7, <2>9, <2>10, <2>11, <2>12, StillSound DEF Met
<1>6. QED
  BY <1>4, <1>5

\* The slots, when m keeps its own.
LEMMA SlotsKept ==
  ASSUME Types, Slots, NEW m \in Thread, Only(m), Own(m), Owns(m), tx'[m].idx = tx[m].idx,
         \A s \in Slot : threads'[s].used = threads[s].used,
         at'[m].pc \notin {"slot", "cas"}
  PROVE  Slots'
<1>1. \A u \in Thread : Owns(u)' => Owns(u) /\ tx'[u].idx = tx[u].idx /\ tx[u].idx \in Slot
  BY ThreadIs DEF Only, Owns
<1>2. \A u \in Thread : at'[u].pc \in {"slot", "cas"} => at'[u] = at[u]
  BY DEF Only
<1>3. Mine(m).used = "BUSY"
  BY DEF Slots
<1>4. \A s \in Slot : threads[s].used = NULL /\ threads[s].regions = <<>> =>
        threads'[s].regions = <<>>
  BY <1>3 DEF Own, Mine, NULL
<1>5. QED
  BY <1>1, <1>2, <1>4, SlotsOthers

\* An epoch is set.
LEMMA SetTs ==
  ASSUME Types, NEW i, NEW epoch, threads' = [threads EXCEPT ![i].ts = epoch]
  PROVE  /\ \A s \in Slot : /\ threads'[s].used = threads[s].used
                            /\ threads'[s].regions = threads[s].regions
         /\ \A s \in Slot : s # i => threads'[s] = threads[s]
         /\ i \in Slot => threads'[i].ts = epoch
  BY DEF Types, SlotRecord

LEMMA SoundCurrentEpoch ==
  ASSUME Types, Types', Sound, NEW m \in Thread, CurrentEpoch(m) \/ LowerBound(m)
  PROVE  Sound'
<1>1. at[m].pc \in {"epoch", "bound"} /\ at'[m].pc \in {"bound", "enter"}
      /\ \A u \in Thread \ {m} : at'[u] = at[u]
  <2>1. CASE CurrentEpoch(m)
    BY <2>1, Goes DEF CurrentEpoch, At
  <2>2. CASE LowerBound(m)
    BY <2>2, Goes DEF LowerBound, At, Go
  <2>3. QED
    BY <2>1, <2>2
<1>2. UNCHANGED <<clock, heap, linked, tx>>
  BY DEF CurrentEpoch, LowerBound, memory
<1>3. /\ \A s \in Slot : /\ threads'[s].used = threads[s].used
                         /\ threads'[s].regions = threads[s].regions
      /\ \A s \in Slot : s # tx[m].idx => threads'[s] = threads[s]
  <2>1. CASE CurrentEpoch(m)
    BY <2>1 DEF CurrentEpoch
  <2>2. CASE LowerBound(m)
    BY <2>2, SetTs DEF LowerBound
  <2>3. QED
    BY <2>1, <2>2
<1>4. Owns(m)
  BY <1>1 DEF Owns
<1>5. Only(m) /\ Own(m) /\ clock' \in Nat /\ clock <= clock'
  BY <1>1, <1>2, <1>3, <1>4, Bounds DEF Only, Own, Types
<1>6. Slots'
  BY <1>1, <1>2, <1>3, <1>4, <1>5, SlotsKept DEF Sound
<1>7. Locals(m)
  BY DEF Sound
<1>8. tx[m].holds = {} /\ tx[m].allocated = {} /\ tx[m].freed = {} /\ tx[m].w_set = {}
  BY <1>1, <1>7 DEF Locals, Counted, Before, At, InCall
<1>9. Locals(m)'
  BY <1>1, <1>2, <1>8 DEF Locals, Counted, Drawing, Before, At, InCall
<1>10. Frees'[m] = Frees[m] /\ Todos'[m] = Todos[m] /\ ~InCall(m)' /\ ~Scans(m)'
  BY <1>1 DEF Frees, Todos, InCall, Scans, At
<1>11. QED
  BY <1>2, <1>3, <1>5, <1>6, <1>8, <1>9, <1>10, StillSound DEF Met

\* A thread enters and takes a block for its write set.
LEMMA TakesBlock ==
  ASSUME Types, Sound, NEW m \in Thread, Only(m), Own(m), clock' = clock, linked' = linked,
         \A s \in Slot : threads'[s].regions = threads[s].regions,
         NEW b \in heap, heap' = heap \ {b},
         tx[m].w_set = {}, tx'[m].w_set = {b}, tx'[m].allocated = tx[m].allocated,
         Frees'[m] = Frees[m], Todos'[m] = Todos[m], tx'[m].freed = {}, tx'[m].holds = {},
         ~InCall(m)', ~At(m, "on_commit")', Slots', Locals(m)'
  PROVE  Sound'
<1>1. WSets'[m] = {b} /\ WSets[m] = {} /\ \A u \in Thread \ {m} : WSets'[u] = WSets[u]
  BY PlacesOthers DEF WSets
<1>2. Allocs' = Allocs /\ Frees' = Frees /\ Todos' = Todos
  BY PlacesOthers
<1>3. Regs' = Regs /\ \A s \in Slot : Disjoint(threads'[s].regions)
  BY RegionsStay DEF Sound
<1>4. Placed(heap, linked, WSets, Allocs, Frees, Todos, Regs)
  BY DEF Sound, Here
<1>5. Placed(heap \ {b}, linked, WSets', Allocs, Frees, Todos, Regs)
  BY <1>1, <1>4, HeapToThread
<1>6. Here'
  BY <1>2, <1>3, <1>5 DEF Here
<1>7. clock' \in Nat /\ clock <= clock'
  BY Bounds DEF Types
<1>8. ASSUME NEW u \in Thread \ {m} PROVE Locals(u)'
  <2>1. Locals(u) /\ Slots
    BY DEF Sound
  <2>2. At(u, "active") => tx[u].freed \subseteq linked' /\ tx'[m].freed \cap tx[u].freed = {}
    BY <2>1 DEF Locals
  <2>3. QED
    BY <1>7, <2>1, <2>2, LocalsOthers
<1>9. \A u \in Thread : Locals(u)'
  BY <1>8
<1>10. ASSUME NEW t \in Thread, NEW a \in tx'[t].holds PROVE Held(t, a)'
  <2>1. t # m /\ tx'[t] = tx[t] /\ Held(t, a) /\ Slots
    BY DEF Only, Sound
  <2>2. a \notin heap /\ Elsewhere(t, a, m) /\ \A s \in Slot : Later(t, a, s)
    BY <2>1 DEF Held
  <2>3. Elsewhere(t, a, m)'
    BY <2>2 DEF Elsewhere, Met, Scans, InCall
  <2>4. \A s \in Slot : Owns(m) /\ s = tx[m].idx => Later(t, a, s)'
    BY <2>1, <2>2 DEF Later
  <2>5. QED
    BY <1>7, <2>1, <2>2, <2>3, <2>4, HeldOthers
<1>11. QED
  BY <1>3, <1>6, <1>9, <1>10 DEF Sound

LEMMA SoundEnter ==
  ASSUME Types, Types', Sound, NEW m \in Thread, Enter(m)
  PROVE  Sound'
<1>1. PICK b \in heap : heap' = heap \ {b} /\ tx' = [tx EXCEPT ![m].w_set = {b}]
  BY DEF Enter
<1>2. at[m].pc = "enter" /\ at'[m].pc = "idle" /\ \A u \in Thread \ {m} : at'[u] = at[u]
  BY Goes DEF Enter, At, Go
<1>3. UNCHANGED <<clock, threads, linked>>
  BY DEF Enter
<1>4. /\ \A u \in Thread \ {m} : tx'[u] = tx[u]
      /\ tx'[m].idx = tx[m].idx /\ tx'[m].w_set = {b} /\ tx'[m].holds = tx[m].holds
      /\ tx'[m].allocated = tx[m].allocated /\ tx'[m].freed = tx[m].freed
  BY <1>1 DEF Types, Descriptor
<1>5. Only(m) /\ Own(m) /\ Owns(m)
  BY <1>2, <1>3, <1>4 DEF Only, Own, Owns
<1>6. Slots'
  BY <1>2, <1>3, <1>4, <1>5, SlotsKept DEF Sound
<1>7. Locals(m)
  BY DEF Sound
<1>8. tx[m].holds = {} /\ tx[m].allocated = {} /\ tx[m].freed = {} /\ tx[m].w_set = {}
  BY <1>2, <1>7 DEF Locals, Counted, Before, At, InCall
<1>9. Locals(m)'
  BY <1>2, <1>4, <1>8 DEF Locals, Counted, Drawing, Before, At, InCall
<1>10. Frees'[m] = Frees[m] /\ Todos'[m] = Todos[m] /\ ~InCall(m)' /\ ~At(m, "on_commit")'
  BY <1>2 DEF Frees, Todos, InCall, At
<1>11. QED
  BY <1>1, <1>3, <1>4, <1>5, <1>6, <1>8, <1>9, <1>10, TakesBlock

-----------------------------------------------------------------------------
(* gc_free *)

\* The regions of m change.
LEMMA SetRegions ==
  ASSUME Types, NEW i \in Slot, NEW regions, threads' = [threads EXCEPT ![i].regions = regions]
  PROVE  /\ \A s \in Slot : threads'[s].used = threads[s].used /\ threads'[s].ts = threads[s].ts
         /\ \A s \in Slot : s # i => threads'[s] = threads[s]
         /\ threads'[i].regions = regions
  BY DEF Types, SlotRecord

\* All the blocks of the regions with one more.
LEMMA WithBlockHas ==
  ASSUME NEW regions \in Seq(Region), NEW a \in Addr, NEW epoch \in Nat
  PROVE  /\ BlocksOf(WithBlock(regions, a, epoch)) = BlocksOf(regions) \cup {a}
         /\ Disjoint(regions) /\ a \notin BlocksOf(regions) =>
              Disjoint(WithBlock(regions, a, epoch))
<1> DEFINE new == WithBlock(regions, a, epoch)
<1>0. /\ DOMAIN regions \subseteq DOMAIN new
      /\ \E k \in DOMAIN new :
           /\ \A j \in DOMAIN new : j # k => j \in DOMAIN regions /\ new[j] = regions[j]
           /\ new[k].ts >= epoch
           /\ \/ k \in DOMAIN regions /\ new[k].ts = regions[k].ts
                 /\ new[k].blocks = regions[k].blocks \cup {a}
              \/ k \notin DOMAIN regions /\ new[k].blocks = {a}
  BY WithBlockIs
<1> HIDE DEF new
<1>1. PICK k \in DOMAIN new :
        /\ DOMAIN regions \subseteq DOMAIN new
        /\ \A j \in DOMAIN new : j # k => j \in DOMAIN regions /\ new[j] = regions[j]
        /\ \/ k \in DOMAIN regions /\ new[k].blocks = regions[k].blocks \cup {a}
           \/ k \notin DOMAIN regions /\ new[k].blocks = {a}
  BY <1>0
<1>2. \A j \in DOMAIN regions : j # k => new[j].blocks = regions[j].blocks
  BY <1>1
<1>3. BlocksOf(new) \subseteq BlocksOf(regions) \cup {a}
  BY <1>1, <1>2 DEF BlocksOf
<1>4. BlocksOf(regions) \cup {a} \subseteq BlocksOf(new)
  BY <1>1, <1>2 DEF BlocksOf
<1>5. Disjoint(regions) /\ a \notin BlocksOf(regions) => Disjoint(new)
  BY <1>1, <1>2 DEF Disjoint, BlocksOf
<1>6. QED
  BY <1>3, <1>4, <1>5 DEF new

\* Each of them is in a region that is as late as before, the new one as late as epoch.
LEMMA WithBlockTs ==
  ASSUME NEW regions \in Seq(Region), NEW a \in Addr, NEW epoch \in Nat
  PROVE  \A k \in DOMAIN WithBlock(regions, a, epoch) :
           \A c \in WithBlock(regions, a, epoch)[k].blocks :
             \/ c = a /\ WithBlock(regions, a, epoch)[k].ts >= epoch
             \/ /\ k \in DOMAIN regions /\ c \in regions[k].blocks
                /\ WithBlock(regions, a, epoch)[k].ts = regions[k].ts
<1> DEFINE new == WithBlock(regions, a, epoch)
<1>1. \E k \in DOMAIN new :
        /\ \A j \in DOMAIN new : j # k => j \in DOMAIN regions /\ new[j] = regions[j]
        /\ new[k].ts >= epoch
        /\ \/ k \in DOMAIN regions /\ new[k].ts = regions[k].ts
              /\ new[k].blocks = regions[k].blocks \cup {a}
           \/ k \notin DOMAIN regions /\ new[k].blocks = {a}
  BY WithBlockIs
<1> HIDE DEF new
<1>2. \A k \in DOMAIN new : \A c \in new[k].blocks :
        \/ c = a /\ new[k].ts >= epoch
        \/ k \in DOMAIN regions /\ c \in regions[k].blocks /\ new[k].ts = regions[k].ts
  BY <1>1
<1>3. QED
  BY <1>2 DEF new

LEMMA SoundGcFree ==
  ASSUME Types, Types', Sound, NEW m \in Thread, GcFree(m)
  PROVE  Sound'
<1>1. /\ at[m].pc = "free" /\ at[m].todo \subseteq Addr /\ at[m].epoch \in Nat
      /\ at[m] \in [pc : {"free", "cleanup"}, todo : SUBSET Addr, epoch : Time, after : Steps]
  BY ThreadIs, CallIs, Bounds DEF GcFree, At
<1>2. PICK b \in at[m].todo :
        /\ threads' = [threads EXCEPT ![tx[m].idx].regions = WithBlock(@, b, at[m].epoch)]
        /\ Goto(m, [at[m] EXCEPT !.pc = "cleanup", !.todo = @ \ {b}])
  BY DEF GcFree
<1>3. PICK i \in Slot, epoch \in Nat, rest \in SUBSET Addr, new \in Seq(Region) :
        /\ i = tx[m].idx /\ epoch = at[m].epoch /\ rest = at[m].todo \ {b}
        /\ new = WithBlock(threads[i].regions, b, epoch)
  <2>1. tx[m].idx \in Slot /\ threads[tx[m].idx].regions \in Seq(Region)
    BY ThreadIs, SlotIs
  <2>2. WithBlock(threads[tx[m].idx].regions, b, at[m].epoch) \in Seq(Region)
    BY <1>1, <1>2, <2>1, WithBlockIs
  <2>3. at[m].todo \ {b} \in SUBSET Addr
    BY <1>1
  <2>4. QED
    BY <1>1, <2>1, <2>2, <2>3
<1>4. /\ at'[m] = [pc |-> "cleanup", todo |-> rest, epoch |-> epoch, after |-> at[m].after]
      /\ \A u \in Thread \ {m} : at'[u] = at[u]
  <2>1. Goto(m, [at[m] EXCEPT !.pc = "cleanup", !.todo = rest])
    BY <1>2, <1>3
  <2>2. [at[m] EXCEPT !.pc = "cleanup", !.todo = rest]
          = [pc |-> "cleanup", todo |-> rest, epoch |-> epoch, after |-> at[m].after]
    BY <1>1, <1>3, FreeStep
  <2>3. QED
    BY <2>1, <2>2, Goes
<1>5. UNCHANGED <<clock, heap, linked, tx>>
  BY DEF GcFree, memory
<1>6. threads' = [threads EXCEPT ![i].regions = new]
  BY <1>2, <1>3
<1>7. /\ \A s \in Slot : threads'[s].used = threads[s].used /\ threads'[s].ts = threads[s].ts
      /\ \A s \in Slot : s # i => threads'[s] = threads[s]
      /\ threads'[i].regions = new
  BY <1>6, SetRegions
<1>8. Owns(m)
  BY <1>1 DEF Owns
<1>9. Only(m) /\ Own(m) /\ clock' \in Nat /\ clock <= clock'
  BY <1>3, <1>4, <1>5, <1>7, <1>8, Bounds DEF Only, Own, Types
<1>10. Slots'
  BY <1>4, <1>5, <1>7, <1>8, <1>9, SlotsKept DEF Sound
<1>11. Locals(m) /\ Slots
  BY DEF Sound
<1>12. Locals(m)'
  BY <1>1, <1>4, <1>5, <1>11 DEF Locals, Counted, Drawing, Before, At, InCall
<1>13. ASSUME NEW u \in Thread \ {m} PROVE Locals(u)'
  <2>1. Locals(u)
    BY DEF Sound
  <2>2. At(u, "active") => tx[u].freed \subseteq linked' /\ tx'[m].freed \cap tx[u].freed = {}
    BY <1>5, <2>1 DEF Locals
  <2>3. QED
    BY <1>9, <1>11, <2>1, <2>2, LocalsOthers
<1>14. \A u \in Thread : Locals(u)'
  BY <1>12, <1>13
<1>15. tx[m].holds = {} /\ tx[m].freed = {} /\ b \in Addr
  BY <1>1, <1>2, <1>11 DEF Locals, At
<1>16. ASSUME NEW t \in Thread, NEW a \in tx'[t].holds PROVE Held(t, a)'
  <2>1. Held(t, a) /\ tx'[t] = tx[t]
    BY <1>5, <1>16 DEF Sound
  <2>2. Elsewhere(t, a, m) /\ Later(t, a, i) /\ a \notin heap
    BY <2>1 DEF Held
  <2>3. Elsewhere(t, a, m)'
    BY <1>1, <1>3, <1>4, <1>5, <2>2 DEF Elsewhere, Met, Scans, At, InCall
  <2>4. tx[t].start \in Nat
    BY ThreadIs, Bounds
  <2>5. Later(t, a, i)'
    <3>1. ASSUME NEW k \in DOMAIN new, a \in new[k].blocks PROVE tx[t].start < new[k].ts
      <4>1. \/ a = b /\ new[k].ts >= epoch
            \/ /\ k \in DOMAIN threads[i].regions /\ a \in threads[i].regions[k].blocks
               /\ new[k].ts = threads[i].regions[k].ts
        <5>1. PICK old \in Seq(Region) : old = threads[i].regions
          BY SlotIs
        <5>2. \A l \in DOMAIN WithBlock(old, b, epoch) :
              \A c \in WithBlock(old, b, epoch)[l].blocks :
                \/ c = b /\ WithBlock(old, b, epoch)[l].ts >= epoch
                \/ /\ l \in DOMAIN old /\ c \in old[l].blocks
                   /\ WithBlock(old, b, epoch)[l].ts = old[l].ts
          BY <1>15, WithBlockTs
        <5>3. new = WithBlock(old, b, epoch)
          BY <1>3, <5>1
        <5>4. QED
          BY <3>1, <5>1, <5>2, <5>3
      <4>2. CASE a = b /\ new[k].ts >= epoch
        <5>1. tx[t].start < epoch
          BY <1>1, <1>2, <1>3, <2>2, <4>2 DEF Elsewhere, InCall
        <5>2. new[k] \in Region
          BY <1>3
        <5>3. QED
          BY <2>4, <4>2, <5>1, <5>2 DEF Region
      <4>3. CASE /\ k \in DOMAIN threads[i].regions /\ a \in threads[i].regions[k].blocks
                 /\ new[k].ts = threads[i].regions[k].ts
        BY <2>2, <4>3 DEF Later
      <4>4. QED
        BY <4>1, <4>2, <4>3
    <3>2. QED
      BY <1>7, <2>1, <3>1 DEF Later
  <2>6. \A s \in Slot : Owns(m) /\ s = tx[m].idx => Later(t, a, s)'
    BY <1>3, <2>5
  <2>7. QED
    BY <1>5, <1>9, <1>11, <2>1, <2>2, <2>3, <2>6, HeldOthers
<1>17. Todos[m] = at[m].todo /\ Todos'[m] = rest /\ Frees'[m] = Frees[m]
  BY <1>1, <1>4, <1>5 DEF Todos, Frees, InCall, At
<1>18. b \notin BlocksOf(threads[i].regions) /\ Disjoint(threads[i].regions)
  <2>1. b \in Todos[m] /\ Here
    BY <1>17 DEF Sound
  <2>2. b \notin Regs[i]
    BY <1>15, <2>1, PlacesApart
  <2>3. QED
    BY <2>2 DEF Regs, Sound
<1>19. BlocksOf(new) = BlocksOf(threads[i].regions) \cup {b} /\ Disjoint(new)
  BY <1>3, <1>15, <1>18, SlotIs, WithBlockHas
<1>20. \A s \in Slot : Disjoint(threads'[s].regions)
  BY <1>7, <1>19 DEF Sound
<1>21. Here'
  <2>1. WSets' = WSets /\ Allocs' = Allocs /\ Frees' = Frees
    BY <1>5, <1>9, <1>17, PlacesOthers
  <2>2. Todos'[m] = Todos[m] \ {b} /\ \A u \in Thread \ {m} : Todos'[u] = Todos[u]
    BY <1>3, <1>9, <1>17, PlacesOthers
  <2>3. Regs'[i] = Regs[i] \cup {b} /\ \A s \in Slot \ {i} : Regs'[s] = Regs[s]
    BY <1>7, <1>19 DEF Regs
  <2>4. Placed(heap, linked, WSets, Allocs, Frees, Todos, Regs) /\ b \in Todos[m]
    BY <1>17 DEF Sound, Here
  <2>5. Placed(heap, linked, WSets, Allocs, Frees, Todos', Regs')
    <3>1. Swap(Todos, Todos', Thread, m, Todos[m] \ {b})
      BY <2>2 DEF Swap
    <3>2. Swap(Regs, Regs', Slot, i, Regs[i] \cup {b})
      BY <2>3 DEF Swap
    <3>3. QED
      BY <1>3, <2>4, <3>1, <3>2, TodoToRegion
  <2>6. QED
    BY <1>5, <2>1, <2>5 DEF Here
<1>22. QED
  BY <1>10, <1>14, <1>16, <1>20, <1>21 DEF Sound

\* A thread looks for the minimum, and misses no transaction.
LEMMA SoundScanning ==
  ASSUME Types, Types', Sound, NEW m \in Thread, InCall(m),
         UNCHANGED <<clock, threads, heap, linked, tx>>,
         NEW d, at' = [at EXCEPT ![m] = d], d.pc \in {"used", "ts", "clean"},
         d.todo = at[m].todo, d.epoch = at[m].epoch, d.after = at[m].after,
         d.pc = "ts" => d.i \in Slot,
         \A t \in Thread : \A a \in tx[t].holds : Held(t, a) /\ a \in BlocksOf(Mine(m).regions) =>
           d.min <= tx[t].start \/ (d.pc # "clean" /\ d.i <= tx[t].idx)
  PROVE  Sound'
<1>1. at'[m] = d /\ \A u \in Thread \ {m} : at'[u] = at[u]
  BY DEF Types
<1>2. Only(m) /\ Own(m) /\ clock' \in Nat /\ clock <= clock' /\ Owns(m) /\ InCall(m)'
  BY <1>1, Owners, Bounds DEF Only, Own, Types, InCall
<1>3. Slots'
  BY <1>1, <1>2, SlotsKept DEF Sound
<1>4. Locals(m)
  BY DEF Sound
<1>5. Locals(m)'
  BY <1>1, <1>2, <1>4 DEF Locals, Counted, Drawing, Before, At, InCall
<1>6. Frees'[m] = Frees[m] /\ Todos'[m] = Todos[m]
  BY <1>1, <1>2 DEF Frees, Todos, At, InCall
<1>7. \A t \in Thread : \A a \in tx[t].holds : Held(t, a) => Met(t, a, m)'
  BY <1>1 DEF Met, At, Mine
<1>8. InCall(m) /\ InCall(m)' => at'[m].epoch = at[m].epoch
  BY <1>1
<1>9. QED
  BY <1>2, <1>3, <1>5, <1>6, <1>7, <1>8, StillSound

\* What is known of a transaction that holds a block.
LEMMA HolderIs ==
  ASSUME Types, Sound, NEW t \in Thread, NEW a \in tx[t].holds
  PROVE  /\ At(t, "active") /\ Owns(t) /\ Held(t, a)
         /\ tx[t].idx \in Slot /\ threads[tx[t].idx].used = "BUSY"
         /\ threads[tx[t].idx].ts = tx[t].start /\ tx[t].start \in Nat
<1>1. Locals(t) /\ Held(t, a) /\ Slots
  BY DEF Sound
<1>2. At(t, "active")
  BY <1>1 DEF Locals
<1>3. Owns(t) /\ tx[t].idx \in Slot /\ tx[t].start \in Nat
  BY <1>2, Owners, ThreadIs, Bounds
<1>4. QED
  BY <1>1, <1>2, <1>3 DEF Slots, Locals, Mine

LEMMA SoundCleanup ==
  ASSUME Types, Types', Sound, NEW m \in Thread, Cleanup(m)
  PROVE  Sound'
<1>1. PICK d : d = [pc |-> "used", todo |-> at[m].todo, epoch |-> at[m].epoch,
                    after |-> at[m].after, min |-> clock, i |-> 0]
  OBVIOUS
<1>2. at' = [at EXCEPT ![m] = d] /\ at[m].pc = "cleanup"
  BY <1>1 DEF Cleanup, Goto, At
<1>3. UNCHANGED <<clock, threads, heap, linked, tx>> /\ InCall(m)
  BY <1>2 DEF Cleanup, memory, InCall
<1>4. /\ d.pc = "used" /\ d.todo = at[m].todo /\ d.epoch = at[m].epoch /\ d.after = at[m].after
      /\ d.i = 0
  BY <1>1
<1>5. \A t \in Thread : d.i <= tx[t].idx
  BY <1>4, ThreadIs DEF Slot
<1>6. QED
  BY <1>2, <1>3, <1>4, <1>5, SoundScanning

LEMMA SoundMinUsed ==
  ASSUME Types, Types', Sound, NEW m \in Thread, MinUsed(m)
  PROVE  Sound'
<1>1. /\ at[m].pc = "used" /\ at[m].i \in Nat /\ at[m].min \in Nat
      /\ at[m] \in [pc : {"used", "ts", "clean"}, todo : SUBSET Addr, epoch : Time,
                    after : Steps, min : Nat, i : Nat]
  BY ThreadIs, CallIs DEF MinUsed, At
<1>2. UNCHANGED <<clock, threads, heap, linked, tx>> /\ InCall(m)
  BY <1>1 DEF MinUsed, memory, InCall
<1>3. \A t \in Thread : \A a \in tx[t].holds : Held(t, a) /\ a \in BlocksOf(Mine(m).regions) =>
        at[m].min <= tx[t].start \/ at[m].i <= tx[t].idx
  BY <1>1 DEF Held, Elsewhere, Met, Scans, At
<1>4. CASE at[m].i \notin Slot \/ threads[at[m].i].used = NULL
  <2>1. PICK d : d = [at[m] EXCEPT !.pc = "clean"]
    OBVIOUS
  <2>2. at' = [at EXCEPT ![m] = d]
    BY <1>4, <2>1 DEF MinUsed, Goto
  <2>3. /\ d.pc = "clean" /\ d.todo = at[m].todo /\ d.epoch = at[m].epoch
        /\ d.after = at[m].after /\ d.min = at[m].min
    BY <1>1, <2>1
  <2>4. ASSUME NEW t \in Thread, NEW a \in tx[t].holds PROVE ~(at[m].i <= tx[t].idx)
    <3>1. tx[t].idx \in Slot /\ threads[tx[t].idx].used = "BUSY"
      BY HolderIs
    <3>2. at[m].i \notin Slot => ~(at[m].i <= tx[t].idx)
      BY <1>1, <3>1, Bounds DEF Slot
    <3>3. at[m].i \in Slot /\ threads[at[m].i].used = NULL =>
            ~(at[m].i < tx[t].idx) /\ at[m].i # tx[t].idx
      BY <3>1 DEF Sound, Slots, NULL
    <3>4. tx[t].idx \in Nat
      BY <3>1 DEF Slot
    <3>5. QED
      BY <1>1, <1>4, <3>2, <3>3, <3>4
  <2>5. QED
    BY <1>2, <1>3, <2>2, <2>3, <2>4, SoundScanning
<1>5. CASE ~(at[m].i \notin Slot \/ threads[at[m].i].used = NULL) /\ threads[at[m].i].used = "BUSY"
  <2>1. PICK d : d = [at[m] EXCEPT !.pc = "ts"]
    OBVIOUS
  <2>2. at' = [at EXCEPT ![m] = d]
    BY <1>5, <2>1 DEF MinUsed, Goto
  <2>3. /\ d.pc = "ts" /\ d.todo = at[m].todo /\ d.epoch = at[m].epoch
        /\ d.after = at[m].after /\ d.min = at[m].min /\ d.i = at[m].i /\ d.i \in Slot
    BY <1>1, <1>5, <2>1
  <2>4. QED
    BY <1>2, <1>3, <2>2, <2>3, SoundScanning
<1>6. CASE ~(at[m].i \notin Slot \/ threads[at[m].i].used = NULL) /\ threads[at[m].i].used # "BUSY"
  <2>1. PICK i \in Nat : i = at[m].i + 1
    BY <1>1
  <2>2. PICK d : d = [at[m] EXCEPT !.i = i]
    OBVIOUS
  <2>3. at' = [at EXCEPT ![m] = d]
    BY <1>6, <2>1, <2>2 DEF MinUsed, Goto
  <2>4. /\ d.pc = "used" /\ d.todo = at[m].todo /\ d.epoch = at[m].epoch
        /\ d.after = at[m].after /\ d.min = at[m].min /\ d.i = i
    BY <1>1, <2>2
  <2>5. ASSUME NEW t \in Thread, NEW a \in tx[t].holds, at[m].i <= tx[t].idx PROVE i <= tx[t].idx
    <3>1. tx[t].idx \in Slot /\ threads[tx[t].idx].used = "BUSY"
      BY HolderIs
    <3>2. tx[t].idx # at[m].i /\ tx[t].idx \in Nat
      BY <1>6, <3>1 DEF Slot
    <3>3. QED
      BY <1>1, <2>1, <2>5, <3>2
  <2>6. QED
    BY <1>2, <1>3, <2>3, <2>4, <2>5, SoundScanning
<1>7. QED
  BY <1>4, <1>5, <1>6

LEMMA SoundMinTs ==
  ASSUME Types, Types', Sound, NEW m \in Thread, MinTs(m)
  PROVE  Sound'
<1>1. /\ at[m].pc = "ts" /\ at[m].i \in Nat /\ at[m].min \in Nat
      /\ at[m] \in [pc : {"used", "ts", "clean"}, todo : SUBSET Addr, epoch : Time,
                    after : Steps, min : Nat, i : Nat]
  BY ThreadIs, CallIs DEF MinTs, At
<1>2. UNCHANGED <<clock, threads, heap, linked, tx>> /\ InCall(m)
  BY <1>1 DEF MinTs, memory, InCall
<1>3. \A t \in Thread : \A a \in tx[t].holds : Held(t, a) /\ a \in BlocksOf(Mine(m).regions) =>
        at[m].min <= tx[t].start \/ at[m].i <= tx[t].idx
  BY <1>1 DEF Held, Elsewhere, Met, Scans, At
<1>4. at[m].i \in Slot
  BY <1>1 DEF Sound, Locals, At
<1>5. threads[at[m].i].ts \in Nat
  BY <1>4, SlotIs, Bounds
<1>6. PICK ts \in Nat, min \in Nat :
        ts = threads[at[m].i].ts /\ min = IF ts < at[m].min THEN ts ELSE at[m].min
  BY <1>1, <1>5
<1>7. PICK i \in Nat : i = at[m].i + 1
  BY <1>1
<1>8. PICK d : d = [at[m] EXCEPT !.pc = "used", !.i = i, !.min = min]
  OBVIOUS
<1>9. at' = [at EXCEPT ![m] = d]
  BY <1>6, <1>7, <1>8 DEF MinTs, Goto
<1>10. /\ d.pc = "used" /\ d.todo = at[m].todo /\ d.epoch = at[m].epoch
       /\ d.after = at[m].after /\ d.min = min /\ d.i = i
  <2>1. d = [pc |-> "used", todo |-> at[m].todo, epoch |-> at[m].epoch, after |-> at[m].after,
             min |-> min, i |-> i]
    BY <1>1, <1>8, MinStep
  <2>2. QED
    BY <2>1
<1>11. ASSUME NEW t \in Thread, NEW a \in tx[t].holds,
              at[m].min <= tx[t].start \/ at[m].i <= tx[t].idx
       PROVE  min <= tx[t].start \/ i <= tx[t].idx
  <2>1. tx[t].idx \in Nat /\ threads[tx[t].idx].ts = tx[t].start /\ tx[t].start \in Nat
    BY HolderIs DEF Slot
  <2>2. min <= ts /\ min <= at[m].min
    BY <1>1, <1>6
  <2>3. CASE at[m].min <= tx[t].start
    BY <1>1, <2>1, <2>2, <2>3
  <2>4. CASE at[m].i = tx[t].idx
    BY <1>6, <2>1, <2>2, <2>4
  <2>5. CASE at[m].i < tx[t].idx
    BY <1>1, <1>7, <2>1, <2>5
  <2>6. QED
    BY <1>1, <1>11, <2>1, <2>3, <2>4, <2>5
<1>12. QED
  BY <1>2, <1>3, <1>9, <1>10, <1>11, SoundScanning

\* The regions that are left, with those before.
LEMMA LeftHas ==
  ASSUME NEW regions \in Seq(Region), NEW min \in Nat
  PROVE  /\ \A k \in DOMAIN Left(regions, min) : \E j \in DOMAIN regions :
              Left(regions, min)[k] = regions[j]
         /\ Disjoint(regions) => Disjoint(Left(regions, min))
         /\ BlocksOf(Left(regions, min)) \subseteq BlocksOf(regions)
         /\ \A a \in BlocksOf(regions) \ BlocksOf(Left(regions, min)) :
              \E j \in DOMAIN regions : a \in regions[j].blocks /\ min > regions[j].ts
<1> DEFINE left == Left(regions, min)
<1>1. PICK d \in 0 .. Len(regions) :
        /\ left \in Seq(Region) /\ Len(left) = Len(regions) - d
        /\ \A k \in 1 .. Len(regions) - d : left[k] = regions[k + d]
        /\ \A k \in 1 .. d : min > regions[k].ts
  BY LeftIs
<1> HIDE DEF left
<1>2. /\ DOMAIN left = 1 .. Len(regions) - d /\ DOMAIN regions = 1 .. Len(regions)
      /\ Len(regions) \in Nat
  BY <1>1
<1>3. \A k \in DOMAIN left : k + d \in DOMAIN regions /\ left[k] = regions[k + d]
  BY <1>1, <1>2
<1>4. \A k \in DOMAIN left : \E j \in DOMAIN regions : left[k] = regions[j]
  BY <1>3
<1>5. ASSUME Disjoint(regions) PROVE Disjoint(left)
  <2> SUFFICES ASSUME NEW j \in DOMAIN left, NEW k \in DOMAIN left, j # k
               PROVE  left[j].blocks \cap left[k].blocks = {}
    BY DEF Disjoint
  <2>1. j + d # k + d
    BY <1>1, <1>2
  <2>2. QED
    BY <1>3, <1>5, <2>1 DEF Disjoint
<1>6. BlocksOf(left) \subseteq BlocksOf(regions)
  BY <1>4 DEF BlocksOf
<1>7. ASSUME NEW a \in BlocksOf(regions) \ BlocksOf(left)
      PROVE  \E j \in DOMAIN regions : a \in regions[j].blocks /\ min > regions[j].ts
  <2>1. PICK j \in DOMAIN regions : a \in regions[j].blocks
    BY DEF BlocksOf
  <2>2. CASE j <= d
    BY <1>1, <1>2, <2>1, <2>2
  <2>3. CASE ~(j <= d)
    <3>1. j - d \in DOMAIN left /\ (j - d) + d = j
      BY <1>1, <1>2, <2>3
    <3>2. left[j - d] = regions[j]
      BY <1>3, <3>1
    <3>3. QED
      BY <2>1, <3>1, <3>2 DEF BlocksOf
  <2>4. QED
    BY <2>2, <2>3
<1>8. QED
  BY <1>4, <1>5, <1>6, <1>7 DEF left

LEMMA SoundClean ==
  ASSUME Types, Types', Sound, NEW m \in Thread, Clean(m)
  PROVE  Sound'
<1>1. /\ at[m].pc = "clean" /\ at[m].todo \subseteq Addr /\ at[m].epoch \in Nat
      /\ at[m].min \in Nat /\ at[m].after \in Steps
  BY ThreadIs, CallIs, Bounds DEF Clean, At
<1>2. PICK i \in Slot, old \in Seq(Region), min \in Nat :
        i = tx[m].idx /\ old = threads[i].regions /\ min = at[m].min
  BY <1>1, ThreadIs, SlotIs
<1>3. PICK left : left = Left(old, min)
  OBVIOUS
<1>4. /\ threads' = [threads EXCEPT ![i].regions = left]
      /\ heap' = heap \cup (BlocksOf(old) \ BlocksOf(left))
  BY <1>2, <1>3 DEF Clean, Mine
<1>5. UNCHANGED <<clock, linked, tx>>
  BY DEF Clean
<1>6. /\ \A k \in DOMAIN left : \E j \in DOMAIN old : left[k] = old[j]
      /\ Disjoint(old) => Disjoint(left)
      /\ BlocksOf(left) \subseteq BlocksOf(old)
      /\ \A a \in BlocksOf(old) \ BlocksOf(left) :
           \E j \in DOMAIN old : a \in old[j].blocks /\ min > old[j].ts
  BY <1>3, LeftHas
<1>7. /\ \A u \in Thread \ {m} : at'[u] = at[u]
      /\ \/ at[m].todo = {} /\ at'[m] = [pc |-> at[m].after]
         \/ at'[m] = [pc |-> "free", todo |-> at[m].todo, epoch |-> at[m].epoch,
                      after |-> at[m].after]
  BY Goes DEF Clean, Go, Hand
<1>8. /\ \A s \in Slot : threads'[s].used = threads[s].used /\ threads'[s].ts = threads[s].ts
      /\ \A s \in Slot : s # i => threads'[s] = threads[s]
      /\ threads'[i].regions = left
  BY <1>4, SetRegions
<1>9. Owns(m) /\ InCall(m)
  BY <1>1 DEF Owns, InCall
<1>10. Only(m) /\ Own(m) /\ clock' \in Nat /\ clock <= clock'
  BY <1>2, <1>5, <1>7, <1>8, <1>9, Bounds DEF Only, Own, Types
<1>11. at'[m].pc \in {"free", "idle", "begin", "leave"}
  BY <1>1, <1>7 DEF Steps
<1>12. Slots'
  BY <1>5, <1>8, <1>9, <1>10, <1>11, SlotsKept DEF Sound
<1>13. Locals(m) /\ Slots /\ Disjoint(old)
  BY <1>2 DEF Sound
<1>14. InCall(m)' => at'[m].pc = "free" /\ at'[m].after = at[m].after
                     /\ at'[m].todo = at[m].todo /\ at'[m].epoch = at[m].epoch
  BY <1>1, <1>7 DEF InCall, Steps
<1>15. /\ (m \in Counted)' <=> m \in Counted
       /\ (m \in Drawing)' <=> m \in Drawing
  BY <1>1, <1>7 DEF Counted, Drawing, Before, At, InCall, Steps
<1>16. Locals(m)'
  <2>1. at[m].after = "begin" \/ at[m].after = "idle" => m \in Counted
    BY <1>9 DEF Counted, Before
  <2>2. tx[m].w_set # {} => m \in Counted
    BY <1>1, <1>13 DEF Locals
  <2>3. tx[m].holds = {} /\ tx[m].allocated = {} /\ tx[m].freed = {}
    BY <1>1, <1>13 DEF Locals, At
  <2>4. ~At(m, "active")' /\ ~At(m, "ts")'
    BY <1>11 DEF At
  <2>5. m \in Drawing => tx[m].start <= clock
    BY <1>13 DEF Locals
  <2>6. InCall(m)' /\ at'[m].after = "begin" => tx[m].w_set = {}
    BY <1>9, <1>13, <1>14 DEF Locals
  <2>7. QED
    BY <1>5, <1>15, <2>2, <2>3, <2>4, <2>5, <2>6 DEF Locals
<1>17. ASSUME NEW u \in Thread \ {m} PROVE Locals(u)'
  <2>1. Locals(u)
    BY DEF Sound
  <2>2. At(u, "active") => tx[u].freed \subseteq linked' /\ tx'[m].freed \cap tx[u].freed = {}
    BY <1>5, <2>1 DEF Locals
  <2>3. QED
    BY <1>10, <1>13, <2>1, <2>2, LocalsOthers
<1>18. \A u \in Thread : Locals(u)'
  BY <1>16, <1>17
<1>19. ASSUME NEW t \in Thread, NEW a \in tx'[t].holds PROVE Held(t, a)'
  <2>1. Held(t, a) /\ tx'[t] = tx[t]
    BY <1>5, <1>19 DEF Sound
  <2>2. Elsewhere(t, a, m) /\ Later(t, a, i) /\ a \notin heap
    BY <2>1 DEF Held
  <2>3. Elsewhere(t, a, m)'
    <3>1. ~Scans(m)' /\ ~At(m, "on_commit")'
      BY <1>11 DEF Scans, At
    <3>2. QED
      BY <1>5, <1>9, <1>14, <2>2, <3>1 DEF Elsewhere, Met
  <2>4. \A s \in Slot : Owns(m) /\ s = tx[m].idx => Later(t, a, s)'
    BY <1>2, <1>6, <1>8, <2>1, <2>2 DEF Later
  <2>5. a \notin heap'
    <3> SUFFICES ASSUME a \in BlocksOf(old) \ BlocksOf(left) PROVE FALSE
      BY <1>4, <2>2
    <3>1. PICK j \in DOMAIN old : a \in old[j].blocks /\ min > old[j].ts
      BY <1>6
    <3>2. tx[t].start < old[j].ts
      BY <1>2, <2>2, <3>1 DEF Later
    <3>3. min <= tx[t].start
      BY <1>1, <1>2, <2>2 DEF Elsewhere, Met, Mine, Scans, At
    <3>4. tx[t].start \in Nat
      BY ThreadIs, Bounds
    <3>5. old[j].ts \in Nat
      BY <1>2, SlotIs
    <3>6. QED
      BY <3>1, <3>2, <3>3, <3>4, <3>5
  <2>6. QED
    BY <1>10, <1>13, <2>1, <2>3, <2>4, <2>5, HeldOthers
<1>20. Todos'[m] = Todos[m] /\ Frees'[m] = Frees[m]
  <2>1. ~At(m, "on_commit") /\ ~At(m, "on_commit")'
    BY <1>1, <1>11 DEF At
  <2>2. InCall(m)' \/ at[m].todo = {}
    BY <1>7 DEF InCall
  <2>3. QED
    BY <1>9, <1>14, <2>1, <2>2 DEF Todos, Frees
<1>21. Here'
  <2>1. WSets' = WSets /\ Allocs' = Allocs /\ Frees' = Frees /\ Todos' = Todos
    BY <1>5, <1>10, <1>20, PlacesOthers
  <2>2. Regs'[i] = BlocksOf(left) /\ \A s \in Slot \ {i} : Regs'[s] = Regs[s]
    BY <1>8 DEF Regs
  <2>3. Swap(Regs, Regs', Slot, i, BlocksOf(left)) /\ Regs[i] = BlocksOf(old)
    BY <1>2, <2>2 DEF Swap, Regs
  <2>4. Placed(heap, linked, WSets, Allocs, Frees, Todos, Regs) /\ BlocksOf(left) \subseteq Regs[i]
    BY <1>6, <2>3 DEF Sound, Here
  <2>5. Placed(heap \cup (Regs[i] \ BlocksOf(left)), linked, WSets, Allocs, Frees, Todos, Regs')
    BY <2>3, <2>4, RegionToHeap
  <2>6. QED
    BY <1>4, <1>5, <2>1, <2>3, <2>5 DEF Here
<1>22. \A s \in Slot : Disjoint(threads'[s].regions)
  BY <1>6, <1>8, <1>13 DEF Sound
<1>23. QED
  BY <1>12, <1>18, <1>19, <1>21, <1>22 DEF Sound

-----------------------------------------------------------------------------
(* A transaction *)

\* The write set of m is handed over.
LEMMA HandsOver ==
  ASSUME Types, Sound, NEW m \in Thread, Only(m), Owns(m),
         UNCHANGED <<clock, threads, heap, linked>>,
         tx[m].freed = {}, tx'[m].holds = {}, tx'[m].freed = {}, tx'[m].allocated = tx[m].allocated,
         tx'[m].w_set = {}, ~InCall(m), at'[m].pc = "free", at'[m].todo = tx[m].w_set,
         Slots', Locals(m)'
  PROVE  Sound'
<1>1. Own(m) /\ clock' \in Nat /\ clock <= clock'
  BY Bounds DEF Own, Types
<1>2. InCall(m)' /\ ~Scans(m)' /\ ~At(m, "on_commit")'
  BY DEF InCall, Scans, At
<1>3. ASSUME NEW u \in Thread \ {m} PROVE Locals(u)'
  <2>1. Locals(u) /\ Slots
    BY DEF Sound
  <2>2. At(u, "active") => tx[u].freed \subseteq linked' /\ tx'[m].freed \cap tx[u].freed = {}
    BY <2>1 DEF Locals
  <2>3. QED
    BY <1>1, <2>1, <2>2, LocalsOthers
<1>4. \A u \in Thread : Locals(u)'
  BY <1>3
<1>5. ASSUME NEW t \in Thread, NEW a \in tx'[t].holds PROVE Held(t, a)'
  <2>1. t # m /\ tx'[t] = tx[t] /\ Held(t, a) /\ Slots
    BY DEF Only, Sound
  <2>2. a \notin heap /\ Elsewhere(t, a, m) /\ \A s \in Slot : Later(t, a, s)
    BY <2>1 DEF Held
  <2>3. Elsewhere(t, a, m)'
    BY <1>2, <2>2 DEF Elsewhere, Met
  <2>4. \A s \in Slot : Owns(m) /\ s = tx[m].idx => Later(t, a, s)'
    BY <2>1, <2>2 DEF Later
  <2>5. QED
    BY <1>1, <2>1, <2>2, <2>3, <2>4, HeldOthers
<1>6. Here'
  <2>1. Regs' = Regs /\ Allocs' = Allocs
    BY PlacesOthers DEF Regs
  <2>2. Frees'[m] = Frees[m]
    BY <1>2 DEF Frees
  <2>3. Frees' = Frees
    BY <2>2, PlacesOthers
  <2>4. Swap(WSets, WSets', Thread, m, {})
    BY PlacesOthers DEF Swap, WSets
  <2>5. Todos[m] = {} /\ Todos'[m] = tx[m].w_set /\ WSets[m] = tx[m].w_set
    BY <1>2 DEF Todos, WSets
  <2>6. Swap(Todos, Todos', Thread, m, WSets[m])
    BY <2>5, PlacesOthers DEF Swap
  <2>7. Placed(heap, linked, WSets, Allocs, Frees, Todos, Regs)
    BY DEF Sound, Here
  <2>8. Placed(heap, linked, WSets', Allocs, Frees, Todos', Regs)
    BY <2>4, <2>5, <2>6, <2>7, WSetToTodo
  <2>9. QED
    BY <2>1, <2>3, <2>8 DEF Here
<1>7. \A s \in Slot : Disjoint(threads'[s].regions)
  BY DEF Sound
<1>8. QED
  BY <1>4, <1>5, <1>6, <1>7 DEF Sound

LEMMA SoundStartTx ==
  ASSUME Types, Types', Sound, NEW m \in Thread, StartTx(m)
  PROVE  Sound'
<1>1. at[m].pc \in {"idle", "start"} /\ UNCHANGED <<clock, threads, heap, linked>>
  BY DEF StartTx, At, memory
<1>2. PICK w, r, n :
        /\ tx' = [tx EXCEPT ![m].start = clock, ![m].starts = n, ![m].w_set = w,
                            ![m].reallocate = r]
        /\ IF tx[m].reallocate /\ ~(clock >= VERSION_MAX)
           THEN w = {} /\ Hand(m, tx[m].w_set, clock, "begin")
           ELSE w = tx[m].w_set /\ (Go(m, "overflow") \/ Go(m, "begin"))
  BY DEF StartTx, None
<1>3. /\ \A u \in Thread \ {m} : tx'[u] = tx[u]
      /\ tx'[m].idx = tx[m].idx /\ tx'[m].start = clock /\ tx'[m].w_set = w
      /\ tx'[m].holds = tx[m].holds /\ tx'[m].allocated = tx[m].allocated
      /\ tx'[m].freed = tx[m].freed
  BY <1>2 DEF Types, Descriptor
<1>4. Owns(m) /\ ~InCall(m) /\ ~At(m, "on_commit") /\ ~At(m, "active")
  BY <1>1 DEF Owns, InCall, At
<1>5. Locals(m)
  BY DEF Sound
<1>6. tx[m].holds = {} /\ tx[m].allocated = {} /\ tx[m].freed = {}
  BY <1>4, <1>5 DEF Locals
<1>7. CASE tx[m].reallocate /\ ~(clock >= VERSION_MAX)
  <2>1. w = {} /\ Goto(m, [pc |-> "free", todo |-> tx[m].w_set, epoch |-> clock, after |-> "begin"])
    BY <1>2, <1>7 DEF Hand
  <2>2. /\ \A u \in Thread \ {m} : at'[u] = at[u]
        /\ at'[m].pc = "free" /\ at'[m].todo = tx[m].w_set /\ at'[m].after = "begin"
    BY <2>1, Goes
  <2>3. Only(m) /\ Own(m)
    BY <1>1, <1>3, <2>2 DEF Only, Own
  <2>4. Slots'
    BY <1>1, <1>3, <1>4, <2>2, <2>3, SlotsKept DEF Sound
  <2>5. clock' <= clock'
    BY Bounds DEF Types
  <2>6. Locals(m)'
    BY <1>1, <1>3, <1>6, <2>1, <2>2, <2>5 DEF Locals, At
  <2>7. QED
    BY <1>1, <1>3, <1>4, <1>6, <2>1, <2>2, <2>3, <2>4, <2>6, HandsOver
<1>8. CASE ~(tx[m].reallocate /\ ~(clock >= VERSION_MAX))
  <2>1. w = tx[m].w_set /\ (Goto(m, [pc |-> "overflow"]) \/ Goto(m, [pc |-> "begin"]))
    BY <1>2, <1>8 DEF Go
  <2>2. (\A u \in Thread \ {m} : at'[u] = at[u]) /\ at'[m].pc \in {"overflow", "begin"}
    BY <2>1, Goes
  <2>3. Only(m) /\ Own(m)
    BY <1>1, <1>3, <2>2 DEF Only, Own
  <2>4. Slots'
    BY <1>1, <1>3, <1>4, <2>2, <2>3, SlotsKept DEF Sound
  <2>5. clock' \in Nat /\ clock <= clock' /\ clock' <= clock'
    BY <1>1, Bounds DEF Types
  <2>6. /\ (m \in Counted)' /\ ~InCall(m)' /\ ~Scans(m)' /\ ~At(m, "on_commit")'
        /\ ~At(m, "active")' /\ ~At(m, "ts")'
    BY <2>2 DEF Counted, Before, InCall, Scans, At
  <2>7. Locals(m)'
    BY <1>1, <1>3, <1>6, <2>5, <2>6 DEF Locals
  <2>8. Frees'[m] = Frees[m] /\ Todos'[m] = Todos[m]
    BY <1>4, <2>6 DEF Frees, Todos
  <2>9. QED
    BY <1>1, <1>3, <1>6, <2>1, <2>3, <2>4, <2>5, <2>6, <2>7, <2>8, StillSound DEF Met
<1>9. QED
  BY <1>7, <1>8

LEMMA SoundSetEpoch ==
  ASSUME Types, Types', Sound, NEW m \in Thread, SetEpoch(m)
  PROVE  Sound'
<1>1. at[m].pc = "begin" /\ UNCHANGED <<clock, linked>>
  BY DEF SetEpoch, At
<1>2. threads' = [threads EXCEPT ![tx[m].idx].ts = tx[m].start]
  BY DEF SetEpoch
<1>3. /\ \A s \in Slot : /\ threads'[s].used = threads[s].used
                         /\ threads'[s].regions = threads[s].regions
      /\ \A s \in Slot : s # tx[m].idx => threads'[s] = threads[s]
      /\ tx[m].idx \in Slot /\ threads'[tx[m].idx].ts = tx[m].start
  BY <1>2, SetTs, ThreadIs
<1>4. at'[m].pc = "active" /\ \A u \in Thread \ {m} : at'[u] = at[u]
  BY Goes DEF SetEpoch, Go
<1>5. Locals(m)
  BY DEF Sound
<1>6. /\ Owns(m) /\ ~InCall(m) /\ ~At(m, "on_commit") /\ m \in Drawing
      /\ ~InCall(m)' /\ ~Scans(m)' /\ ~At(m, "on_commit")' /\ ~At(m, "ts")' /\ (m \in Counted)'
  BY <1>1, <1>4 DEF Owns, InCall, Scans, At, Counted, Drawing, Before
<1>7. tx[m].holds = {} /\ tx[m].allocated = {} /\ tx[m].freed = {} /\ tx[m].start <= clock
  BY <1>1, <1>5, <1>6 DEF Locals, At
<1>8. clock' \in Nat /\ clock <= clock'
  BY <1>1, Bounds DEF Types
<1>9. ASSUME \A u \in Thread \ {m} : tx'[u] = tx[u],
             tx'[m].idx = tx[m].idx, tx'[m].start = tx[m].start, tx'[m].holds = {},
             tx'[m].allocated = {}, tx'[m].freed = {}
      PROVE  /\ Only(m) /\ Own(m) /\ Slots' /\ Locals(m)'
             /\ Frees'[m] = Frees[m] /\ Todos'[m] = Todos[m]
  <2>1. Only(m) /\ Own(m)
    BY <1>3, <1>4, <1>6, <1>9 DEF Only, Own
  <2>2. Slots'
    BY <1>3, <1>4, <1>6, <1>9, <2>1, SlotsKept DEF Sound
  <2>3. Mine(m)'.ts = tx'[m].start
    BY <1>3, <1>9 DEF Mine
  <2>4. Locals(m)'
    BY <1>1, <1>4, <1>6, <1>7, <1>9, <2>3 DEF Locals, At
  <2>5. Frees'[m] = Frees[m] /\ Todos'[m] = Todos[m]
    BY <1>6 DEF Frees, Todos
  <2>6. QED
    BY <2>1, <2>2, <2>4, <2>5
<1>10. CASE tx[m].w_set # None
  <2>1. heap' = heap /\ tx' = tx
    BY <1>10 DEF SetEpoch
  <2>2. QED
    BY <1>1, <1>3, <1>6, <1>7, <1>8, <1>9, <2>1, StillSound DEF Met
<1>11. CASE tx[m].w_set = None
  <2>1. PICK b \in heap : heap' = heap \ {b} /\ tx' = [tx EXCEPT ![m].w_set = {b}]
    BY <1>11 DEF SetEpoch
  <2>2. /\ \A u \in Thread \ {m} : tx'[u] = tx[u]
        /\ tx'[m].idx = tx[m].idx /\ tx'[m].start = tx[m].start /\ tx'[m].w_set = {b}
        /\ tx'[m].holds = tx[m].holds /\ tx'[m].allocated = tx[m].allocated
        /\ tx'[m].freed = tx[m].freed
    BY <2>1 DEF Types, Descriptor
  <2>3. /\ Only(m) /\ Own(m) /\ Slots' /\ Locals(m)'
        /\ Frees'[m] = Frees[m] /\ Todos'[m] = Todos[m]
    BY <1>7, <1>9, <2>2
  <2>4. tx[m].w_set = {} /\ tx'[m].freed = {} /\ tx'[m].holds = {}
    BY <1>7, <1>11, <2>2 DEF None
  <2>5. QED
    BY <1>1, <1>3, <1>6, <2>1, <2>2, <2>3, <2>4, TakesBlock
<1>12. QED
  BY <1>10, <1>11

\* What a thread has in a transaction.
LEMMA Active ==
  ASSUME Types, Sound, NEW m \in Thread, At(m, "active")
  PROVE  /\ Owns(m) /\ ~InCall(m) /\ ~Scans(m) /\ ~At(m, "on_commit") /\ ~At(m, "ts")
         /\ m \in Counted /\ m \in Drawing /\ at[m].pc = "active"
         /\ tx[m].start <= clock /\ tx[m].start \in Nat /\ clock \in Nat
         /\ tx[m].freed \subseteq linked \cap tx[m].holds
         /\ \A u \in Thread \ {m} : tx[u].freed \cap tx[m].freed = {}
         /\ Locals(m) /\ Slots
  BY ThreadIs, Bounds DEF Sound, Locals, Owns, InCall, Scans, At, Counted, Drawing, Types

LEMMA SoundLoad ==
  ASSUME Types, Types', Sound, NEW m \in Thread, Load(m)
  PROVE  Sound'
<1>1. At(m, "active") /\ UNCHANGED <<clock, threads, heap, linked, at>>
  BY DEF Load, memory
<1>2. PICK n \in linked \ (tx[m].holds \cup LockedByOthers(m)) :
        tx' = [tx EXCEPT ![m].holds = @ \cup {n}]
  BY DEF Load
<1>3. /\ \A u \in Thread \ {m} : tx'[u] = tx[u]
      /\ tx'[m].idx = tx[m].idx /\ tx'[m].start = tx[m].start /\ tx'[m].w_set = tx[m].w_set
      /\ tx'[m].holds = tx[m].holds \cup {n} /\ tx'[m].allocated = tx[m].allocated
      /\ tx'[m].freed = tx[m].freed
  BY <1>2 DEF Types, Descriptor
<1>4. Only(m) /\ Own(m) /\ clock' \in Nat /\ clock <= clock'
  BY <1>1, <1>3, Bounds DEF Only, Own, Types
<1>5. /\ Owns(m) /\ ~At(m, "on_commit") /\ at[m].pc = "active"
      /\ Locals(m) /\ Slots
  BY <1>1, Active
<1>6. Slots'
  BY <1>1, <1>3, <1>4, <1>5, SlotsKept
<1>7. Locals(m)'
  BY <1>1, <1>3, <1>5 DEF Locals, Mine, Counted, Drawing, Before, InCall, At
<1>8. ASSUME NEW u \in Thread \ {m} PROVE Locals(u)'
  <2>1. Locals(u)
    BY DEF Sound
  <2>2. At(u, "active") => tx[u].freed \subseteq linked' /\ tx'[m].freed \cap tx[u].freed = {}
    BY <1>1, <1>3, <2>1 DEF Locals
  <2>3. QED
    BY <1>4, <1>5, <2>1, <2>2, LocalsOthers
<1>9. \A u \in Thread : Locals(u)'
  BY <1>7, <1>8
<1>10. Frees'[m] = Frees[m] /\ Todos'[m] = Todos[m]
  BY <1>1, <1>5 DEF Frees, Todos, InCall, At
<1>11. Here' /\ \A s \in Slot : Disjoint(threads'[s].regions)
  BY <1>1, <1>3, <1>4, <1>10, StillPlaces
<1>12. ASSUME NEW t \in Thread, NEW a \in tx[t].holds PROVE Held(t, a)'
  <2>1. Held(t, a) /\ tx'[t].start = tx[t].start /\ tx'[t].idx = tx[t].idx
    BY <1>3 DEF Sound
  <2>2. a \notin heap /\ Elsewhere(t, a, m) /\ \A s \in Slot : Later(t, a, s)
    BY <2>1 DEF Held
  <2>3. Elsewhere(t, a, m)'
    BY <1>1, <1>3, <2>1, <2>2 DEF Elsewhere, Met, Scans, InCall, Mine, At
  <2>4. \A s \in Slot : Owns(m) /\ s = tx[m].idx => Later(t, a, s)'
    BY <1>1, <2>1, <2>2 DEF Later
  <2>5. QED
    BY <1>1, <1>4, <1>5, <2>1, <2>2, <2>3, <2>4, HeldOthers
<1>13. Held(m, n)'
  <2>1. n \in Addr /\ Here
    BY DEF Types, Sound
  <2>2. /\ n \notin heap
        /\ \A u \in Thread : /\ n \notin tx[u].w_set /\ n \notin tx[u].allocated
                             /\ n \notin Frees[u] /\ n \notin Todos[u]
        /\ \A s \in Slot : n \notin Regs[s]
    BY <2>1, PlacesApart
  <2>3. \A s \in Slot : n \notin BlocksOf(threads[s].regions)
    BY <2>2 DEF Regs
  <2>4. \A s \in Slot : Later(m, n, s)'
    BY <1>1, <2>3 DEF Later, BlocksOf
  <2>5. ASSUME NEW u \in Thread PROVE Elsewhere(m, n, u)'
    <3>1. tx'[u].w_set = tx[u].w_set /\ tx'[u].allocated = tx[u].allocated
          /\ tx'[u].freed = tx[u].freed /\ tx'[u].idx = tx[u].idx /\ tx[u].idx \in Slot
      BY <1>3, ThreadIs
    <3>2. Met(m, n, u)'
      BY <1>1, <2>3, <3>1 DEF Met, Mine
    <3>3. ~(At(u, "on_commit")' /\ n \in tx'[u].freed)
      BY <1>1, <2>2, <3>1 DEF Frees, At
    <3>4. ~(InCall(u)' /\ n \in at'[u].todo)
      BY <1>1, <2>2 DEF Todos, InCall
    <3>5. QED
      BY <2>2, <3>1, <3>2, <3>3, <3>4 DEF Elsewhere
  <2>6. QED
    BY <1>1, <2>2, <2>4, <2>5 DEF Held
<1>14. ASSUME NEW t \in Thread, NEW a \in tx'[t].holds PROVE Held(t, a)'
  <2>1. a \in tx[t].holds \/ (t = m /\ a = n)
    BY <1>3
  <2>2. QED
    BY <1>12, <1>13, <2>1
<1>15. QED
  BY <1>6, <1>9, <1>11, <1>14 DEF Sound

LEMMA SoundStmMalloc ==
  ASSUME Types, Types', Sound, NEW m \in Thread, StmMalloc(m)
  PROVE  Sound'
<1>1. At(m, "active") /\ UNCHANGED <<clock, threads, linked, at>>
  BY DEF StmMalloc
<1>2. PICK n \in heap : heap' = heap \ {n} /\ tx' = [tx EXCEPT ![m].allocated = @ \cup {n}]
  BY DEF StmMalloc
<1>3. /\ \A u \in Thread \ {m} : tx'[u] = tx[u]
      /\ tx'[m].idx = tx[m].idx /\ tx'[m].start = tx[m].start /\ tx'[m].w_set = tx[m].w_set
      /\ tx'[m].holds = tx[m].holds /\ tx'[m].allocated = tx[m].allocated \cup {n}
      /\ tx'[m].freed = tx[m].freed
  BY <1>2 DEF Types, Descriptor
<1>4. Only(m) /\ Own(m) /\ clock' \in Nat /\ clock <= clock'
  BY <1>1, <1>3, Bounds DEF Only, Own, Types
<1>5. /\ Owns(m) /\ ~At(m, "on_commit") /\ at[m].pc = "active"
      /\ Locals(m) /\ Slots
  BY <1>1, Active
<1>6. Slots'
  BY <1>1, <1>3, <1>4, <1>5, SlotsKept
<1>7. Locals(m)'
  BY <1>1, <1>3, <1>5 DEF Locals, Mine, Counted, Drawing, Before, InCall, At
<1>8. ASSUME NEW u \in Thread \ {m} PROVE Locals(u)'
  <2>1. Locals(u)
    BY DEF Sound
  <2>2. At(u, "active") => tx[u].freed \subseteq linked' /\ tx'[m].freed \cap tx[u].freed = {}
    BY <1>1, <1>3, <2>1 DEF Locals
  <2>3. QED
    BY <1>4, <1>5, <2>1, <2>2, LocalsOthers
<1>9. \A u \in Thread : Locals(u)'
  BY <1>7, <1>8
<1>10. Here'
  <2>1. Frees'[m] = Frees[m] /\ Todos'[m] = Todos[m]
    BY <1>1, <1>5 DEF Frees, Todos, InCall, At
  <2>2. WSets' = WSets /\ Frees' = Frees /\ Todos' = Todos /\ Regs' = Regs
    BY <1>1, <1>3, <1>4, <2>1, PlacesOthers DEF Regs
  <2>3. Allocs'[m] = Allocs[m] \cup {n} /\ \A u \in Thread \ {m} : Allocs'[u] = Allocs[u]
    BY <1>3 DEF Allocs
  <2>4. Placed(heap, linked, WSets, Allocs, Frees, Todos, Regs)
    BY DEF Sound, Here
  <2>5. Placed(heap \ {n}, linked, WSets, Allocs', Frees, Todos, Regs)
    BY <2>3, <2>4, HeapToAllocated
  <2>6. QED
    BY <1>1, <1>2, <2>2, <2>5 DEF Here
<1>11. ASSUME NEW t \in Thread, NEW a \in tx'[t].holds PROVE Held(t, a)'
  <2>1. Held(t, a) /\ tx'[t].start = tx[t].start /\ tx'[t].idx = tx[t].idx
    BY <1>3 DEF Sound
  <2>2. a \notin heap /\ Elsewhere(t, a, m) /\ \A s \in Slot : Later(t, a, s)
    BY <2>1 DEF Held
  <2>3. a # n
    BY <2>2
  <2>4. Elsewhere(t, a, m)'
    BY <1>1, <1>3, <2>1, <2>2, <2>3 DEF Elsewhere, Met, Scans, InCall, Mine, At
  <2>5. \A s \in Slot : Owns(m) /\ s = tx[m].idx => Later(t, a, s)'
    BY <1>1, <2>1, <2>2 DEF Later
  <2>6. a \notin heap'
    BY <1>2, <2>2
  <2>7. QED
    BY <1>1, <1>4, <1>5, <2>1, <2>4, <2>5, <2>6, HeldOthers
<1>12. \A s \in Slot : Disjoint(threads'[s].regions)
  BY <1>1 DEF Sound
<1>13. QED
  BY <1>6, <1>9, <1>10, <1>11, <1>12 DEF Sound

LEMMA SoundStmFree ==
  ASSUME Types, Types', Sound, NEW m \in Thread, StmFree(m)
  PROVE  Sound'
<1>1. At(m, "active") /\ UNCHANGED <<clock, threads, heap, linked, at>>
  BY DEF StmFree, memory
<1>2. PICK n \in (tx[m].holds \cap linked) \ (Freed(m) \cup LockedByOthers(m)) :
        tx' = [tx EXCEPT ![m].freed = @ \cup {n}]
  BY DEF StmFree
<1>3. /\ \A u \in Thread \ {m} : tx'[u] = tx[u]
      /\ tx'[m].idx = tx[m].idx /\ tx'[m].start = tx[m].start /\ tx'[m].w_set = tx[m].w_set
      /\ tx'[m].holds = tx[m].holds /\ tx'[m].allocated = tx[m].allocated
      /\ tx'[m].freed = tx[m].freed \cup {n}
  BY <1>2 DEF Types, Descriptor
<1>4. Only(m) /\ Own(m) /\ clock' \in Nat /\ clock <= clock'
  BY <1>1, <1>3, Bounds DEF Only, Own, Types
<1>5. /\ Owns(m) /\ ~At(m, "on_commit") /\ at[m].pc = "active"
      /\ Locals(m) /\ Slots
  BY <1>1, Active
<1>6. Slots'
  BY <1>1, <1>3, <1>4, <1>5, SlotsKept
<1>7. \A u \in Thread \ {m} : n \notin tx[u].freed
  BY <1>2 DEF LockedByOthers, Freed
<1>8. Locals(m)'
  <2>1. /\ tx[m].freed \subseteq linked \cap tx[m].holds
        /\ \A u \in Thread \ {m} : tx[u].freed \cap tx[m].freed = {}
    BY <1>1, Active
  <2>2. /\ tx'[m].freed \subseteq linked' \cap tx'[m].holds
        /\ \A u \in Thread \ {m} : tx'[u].freed \cap tx'[m].freed = {}
    BY <1>1, <1>2, <1>3, <1>7, <2>1
  <2>3. QED
    BY <1>1, <1>3, <1>5, <2>2 DEF Locals, Mine, Counted, Drawing, Before, InCall, At
<1>9. ASSUME NEW u \in Thread \ {m} PROVE Locals(u)'
  <2>1. Locals(u)
    BY DEF Sound
  <2>2. At(u, "active") => tx[u].freed \subseteq linked' /\ tx'[m].freed \cap tx[u].freed = {}
    BY <1>1, <1>3, <1>7, <2>1 DEF Locals
  <2>3. QED
    BY <1>4, <1>5, <2>1, <2>2, LocalsOthers
<1>10. \A u \in Thread : Locals(u)'
  BY <1>8, <1>9
<1>11. Frees'[m] = Frees[m] /\ Todos'[m] = Todos[m] /\ ~InCall(m) /\ ~Scans(m)'
  BY <1>1, <1>5 DEF Frees, Todos, InCall, Scans, At
<1>12. Here' /\ \A s \in Slot : Disjoint(threads'[s].regions)
  BY <1>1, <1>3, <1>4, <1>11, StillPlaces
<1>13. \A t \in Thread : \A a \in tx'[t].holds : Held(t, a)'
  BY <1>1, <1>3, <1>4, <1>11, StillHeld DEF Met
<1>14. QED
  BY <1>6, <1>10, <1>12, <1>13 DEF Sound

\* A transaction is rolled back; its nodes were seen by nobody.
LEMMA SoundRollback ==
  ASSUME Types, Types', Sound, NEW m \in Thread, At(m, "active"), NEW full, Rollback(m, full),
         clock' \in Nat, clock <= clock', UNCHANGED <<threads, linked>>
  PROVE  Sound'
<1>1. /\ \A u \in Thread \ {m} : tx'[u] = tx[u]
      /\ tx'[m].idx = tx[m].idx /\ tx'[m].start = tx[m].start /\ tx'[m].w_set = tx[m].w_set
      /\ tx'[m].holds = {} /\ tx'[m].allocated = {} /\ tx'[m].freed = {}
  BY DEF Rollback, Types, Descriptor
<1>2. heap' = heap \cup tx[m].allocated
  BY DEF Rollback
<1>3. at'[m].pc = "idle" /\ \A u \in Thread \ {m} : at'[u] = at[u]
  BY Goes DEF Rollback, Go
<1>4. Only(m) /\ Own(m)
  BY <1>1, <1>3 DEF Only, Own
<1>5. Owns(m) /\ ~InCall(m) /\ ~At(m, "on_commit") /\ Slots
  BY Active
<1>6. Slots'
  BY <1>1, <1>3, <1>4, <1>5, SlotsKept
<1>7. Locals(m)'
  BY <1>1, <1>3 DEF Locals, Counted, Drawing, Before, InCall, At
<1>8. ASSUME NEW u \in Thread \ {m} PROVE Locals(u)'
  <2>1. Locals(u)
    BY DEF Sound
  <2>2. At(u, "active") => tx[u].freed \subseteq linked' /\ tx'[m].freed \cap tx[u].freed = {}
    BY <1>1, <2>1 DEF Locals
  <2>3. QED
    BY <1>4, <1>5, <2>1, <2>2, LocalsOthers
<1>9. \A u \in Thread : Locals(u)'
  BY <1>7, <1>8
<1>10. Here'
  <2>1. Frees'[m] = Frees[m] /\ Todos'[m] = Todos[m]
    BY <1>3, <1>5 DEF Frees, Todos, InCall, At
  <2>2. WSets' = WSets /\ Frees' = Frees /\ Todos' = Todos /\ Regs' = Regs
    BY <1>1, <1>4, <2>1, PlacesOthers DEF Regs
  <2>3. /\ Allocs'[m] = {} /\ (\A u \in Thread \ {m} : Allocs'[u] = Allocs[u])
        /\ Allocs[m] = tx[m].allocated
    BY <1>1 DEF Allocs
  <2>4. Placed(heap, linked, WSets, Allocs, Frees, Todos, Regs)
    BY DEF Sound, Here
  <2>5. Placed(heap \cup Allocs[m], linked, WSets, Allocs', Frees, Todos, Regs)
    BY <2>3, <2>4, AllocatedToHeap
  <2>6. QED
    BY <1>2, <2>2, <2>3, <2>5 DEF Here
<1>11. ASSUME NEW t \in Thread, NEW a \in tx'[t].holds PROVE Held(t, a)'
  <2>1. Held(t, a) /\ tx'[t].start = tx[t].start /\ tx'[t].idx = tx[t].idx
    BY <1>1 DEF Sound
  <2>2. a \notin heap /\ Elsewhere(t, a, m) /\ \A s \in Slot : Later(t, a, s)
    BY <2>1 DEF Held
  <2>3. a \notin heap'
    BY <1>2, <2>2 DEF Elsewhere
  <2>4. Elsewhere(t, a, m)'
    BY <1>1, <1>3, <2>2 DEF Elsewhere, Met, Scans, InCall, At
  <2>5. \A s \in Slot : Owns(m) /\ s = tx[m].idx => Later(t, a, s)'
    BY <2>1, <2>2 DEF Later
  <2>6. QED
    BY <1>4, <1>5, <2>1, <2>3, <2>4, <2>5, HeldOthers
<1>12. \A s \in Slot : Disjoint(threads'[s].regions)
  BY DEF Sound
<1>13. QED
  BY <1>6, <1>9, <1>10, <1>11, <1>12 DEF Sound

LEMMA SoundAbort ==
  ASSUME Types, Types', Sound, NEW m \in Thread, Abort(m)
  PROVE  Sound'
<1>1. PICK full \in BOOLEAN : Rollback(m, full)
  BY DEF Abort
<1>2. At(m, "active") /\ clock' \in Nat /\ clock <= clock' /\ UNCHANGED <<threads, linked>>
  BY Bounds DEF Abort, Types
<1>3. QED
  BY <1>1, <1>2, SoundRollback

LEMMA SoundCommit ==
  ASSUME Types, Types', Sound, NEW m \in Thread, Commit(m)
  PROVE  Sound'
<1>1. At(m, "active") /\ threads' = threads
  BY DEF Commit
<1>2. PICK writes \in BOOLEAN :
        /\ ~writes => tx[m].allocated \cup Freed(m) = {}
        /\ clock' = IF writes THEN clock + 1 ELSE clock
        /\ \/ Rollback(m, FALSE) /\ UNCHANGED linked
           \/ /\ linked' = (linked \cup tx[m].allocated) \ Freed(m)
              /\ tx' = [tx EXCEPT ![m].holds = {}, ![m].allocated = {}]
              /\ Go(m, "on_commit")
              /\ UNCHANGED heap
  BY DEF Commit
<1>3. /\ Owns(m) /\ ~InCall(m) /\ ~At(m, "on_commit") /\ m \in Counted
      /\ clock \in Nat /\ Locals(m) /\ Slots
      /\ tx[m].freed \subseteq linked \cap tx[m].holds
      /\ \A u \in Thread \ {m} : tx[u].freed \cap tx[m].freed = {}
  BY <1>1, Active
<1>4. clock' \in Nat /\ clock <= clock' /\ (writes => clock' = clock + 1)
  BY <1>2, <1>3
<1>5. CASE Rollback(m, FALSE) /\ UNCHANGED linked
  BY <1>1, <1>4, <1>5, SoundRollback
<1>6. CASE /\ linked' = (linked \cup tx[m].allocated) \ Freed(m)
           /\ tx' = [tx EXCEPT ![m].holds = {}, ![m].allocated = {}]
           /\ Go(m, "on_commit")
           /\ UNCHANGED heap
  <2>1. /\ \A u \in Thread \ {m} : tx'[u] = tx[u]
        /\ tx'[m].idx = tx[m].idx /\ tx'[m].start = tx[m].start /\ tx'[m].w_set = tx[m].w_set
        /\ tx'[m].holds = {} /\ tx'[m].allocated = {} /\ tx'[m].freed = tx[m].freed
    BY <1>6 DEF Types, Descriptor
  <2>2. at'[m].pc = "on_commit" /\ \A u \in Thread \ {m} : at'[u] = at[u]
    BY <1>6, Goes DEF Go
  <2>3. Only(m) /\ Own(m)
    BY <1>1, <2>1, <2>2 DEF Only, Own
  <2>4. Slots'
    BY <1>1, <1>3, <2>1, <2>2, <2>3, SlotsKept
  <2>5. Locals(m)'
    BY <2>1, <2>2 DEF Locals, Counted, Drawing, Before, InCall, At
  <2>6. ASSUME NEW u \in Thread \ {m} PROVE Locals(u)'
    <3>1. Locals(u)
      BY DEF Sound
    <3>2. At(u, "active") => tx[u].freed \subseteq linked' /\ tx'[m].freed \cap tx[u].freed = {}
      BY <1>3, <1>6, <2>1, <3>1 DEF Locals, Freed
    <3>3. QED
      BY <1>3, <1>4, <2>3, <3>1, <3>2, LocalsOthers
  <2>7. \A u \in Thread : Locals(u)'
    BY <2>5, <2>6
  <2>8. Here'
    <3>1. Frees[m] = {} /\ Frees'[m] = tx[m].freed /\ Todos'[m] = Todos[m]
      BY <1>3, <2>1, <2>2 DEF Frees, Todos, InCall, At
    <3>2. WSets' = WSets /\ Todos' = Todos /\ Regs' = Regs
      BY <1>1, <2>1, <2>3, <3>1, PlacesOthers DEF Regs
    <3>3. Swap(Allocs, Allocs', Thread, m, {}) /\ Allocs[m] = tx[m].allocated
      BY <2>1 DEF Allocs, Swap
    <3>4. Swap(Frees, Frees', Thread, m, tx[m].freed)
      BY <2>3, <3>1, PlacesOthers DEF Swap
    <3>5. Placed(heap, linked, WSets, Allocs, Frees, Todos, Regs) /\ tx[m].freed \subseteq linked
      BY <1>3 DEF Sound, Here
    <3>6. Placed(heap, (linked \cup Allocs[m]) \ tx[m].freed, WSets, Allocs', Frees', Todos, Regs)
      BY <3>1, <3>3, <3>4, <3>5, Committing
    <3>7. QED
      BY <1>6, <3>2, <3>3, <3>6 DEF Here, Freed
  <2>9. ASSUME NEW t \in Thread, NEW a \in tx'[t].holds PROVE Held(t, a)'
    <3>1. t # m /\ a \in tx[t].holds
      BY <2>1
    <3>2. Held(t, a) /\ tx'[t].start = tx[t].start /\ tx'[t].idx = tx[t].idx
      BY <2>1, <3>1 DEF Sound
    <3>3. a \notin heap /\ Elsewhere(t, a, m) /\ \A s \in Slot : Later(t, a, s)
      BY <3>2 DEF Held
    <3>4. At(t, "active")
      BY <3>1, HolderIs
    <3>5. tx[t].start <= clock /\ tx[t].start \in Nat
      BY <3>4, Active
    <3>6. a \in tx[m].freed => tx[t].start < clock'
      BY <1>2, <1>3, <1>4, <3>5 DEF Freed
    <3>7. Elsewhere(t, a, m)'
      BY <2>1, <2>2, <3>2, <3>3, <3>6 DEF Elsewhere, Met, Scans, InCall, At
    <3>8. \A s \in Slot : Owns(m) /\ s = tx[m].idx => Later(t, a, s)'
      BY <1>1, <3>2, <3>3 DEF Later
    <3>9. QED
      BY <1>3, <1>4, <1>6, <2>3, <3>2, <3>3, <3>7, <3>8, HeldOthers
  <2>10. \A s \in Slot : Disjoint(threads'[s].regions)
    BY <1>1 DEF Sound
  <2>11. QED
    BY <2>4, <2>7, <2>8, <2>9, <2>10 DEF Sound
<1>7. QED
  BY <1>2, <1>5, <1>6

LEMMA SoundOnCommit ==
  ASSUME Types, Types', Sound, NEW m \in Thread, OnCommit(m)
  PROVE  Sound'
<1>1. at[m].pc = "on_commit" /\ UNCHANGED <<clock, threads, heap, linked>>
  BY DEF OnCommit, memory, At
<1>2. tx' = [tx EXCEPT ![m].freed = {}]
  BY DEF OnCommit
<1>3. /\ \A u \in Thread \ {m} : tx'[u] = tx[u]
      /\ tx'[m].idx = tx[m].idx /\ tx'[m].start = tx[m].start /\ tx'[m].w_set = tx[m].w_set
      /\ tx'[m].holds = tx[m].holds /\ tx'[m].allocated = tx[m].allocated /\ tx'[m].freed = {}
  BY <1>2 DEF Types, Descriptor
<1>4. PICK f \in SUBSET Addr, now \in Nat : f = tx[m].freed /\ now = clock
  BY ThreadIs, Bounds DEF Types
<1>5. \/ f = {} /\ Goto(m, [pc |-> "idle"])
      \/ Goto(m, [pc |-> "free", todo |-> f, epoch |-> now, after |-> "idle"])
  BY <1>4 DEF OnCommit, Freed, Go, Hand
<1>6. /\ \A u \in Thread \ {m} : at'[u] = at[u]
      /\ \/ f = {} /\ at'[m].pc = "idle"
         \/ /\ at'[m].pc = "free" /\ at'[m].todo = f /\ at'[m].epoch = now
            /\ at'[m].after = "idle"
  BY <1>5, Goes
<1>7. /\ Owns(m) /\ ~InCall(m) /\ At(m, "on_commit")
      /\ ~Scans(m)' /\ ~At(m, "on_commit")' /\ (m \in Counted)'
  BY <1>1, <1>6 DEF Owns, InCall, Scans, At, Counted, Before
<1>8. Only(m) /\ Own(m) /\ clock' \in Nat /\ clock <= clock'
  BY <1>1, <1>3, <1>6, Bounds DEF Only, Own, Types
<1>9. Locals(m) /\ Slots
  BY DEF Sound
<1>10. Slots'
  BY <1>1, <1>3, <1>6, <1>7, <1>8, <1>9, SlotsKept
<1>11. tx[m].holds = {} /\ tx[m].allocated = {}
  BY <1>1, <1>9 DEF Locals, At
<1>12. Locals(m)'
  BY <1>3, <1>6, <1>7, <1>11 DEF Locals, Drawing, Before, InCall, At
<1>13. ASSUME NEW u \in Thread \ {m} PROVE Locals(u)'
  <2>1. Locals(u)
    BY DEF Sound
  <2>2. At(u, "active") => tx[u].freed \subseteq linked' /\ tx'[m].freed \cap tx[u].freed = {}
    BY <1>1, <1>3, <2>1 DEF Locals
  <2>3. QED
    BY <1>8, <1>9, <2>1, <2>2, LocalsOthers
<1>14. \A u \in Thread : Locals(u)'
  BY <1>12, <1>13
<1>15. Here'
  <2>1. WSets' = WSets /\ Allocs' = Allocs /\ Regs' = Regs
    BY <1>1, <1>3, <1>8, PlacesOthers DEF Regs
  <2>2. Frees[m] = f /\ Frees'[m] = {} /\ Todos[m] = {} /\ Todos'[m] = f
    BY <1>4, <1>6, <1>7 DEF Frees, Todos, InCall, At
  <2>3. Swap(Frees, Frees', Thread, m, {})
    BY <1>8, <2>2, PlacesOthers DEF Swap
  <2>4. Swap(Todos, Todos', Thread, m, Frees[m])
    BY <1>8, <2>2, PlacesOthers DEF Swap
  <2>5. Placed(heap, linked, WSets, Allocs, Frees, Todos, Regs)
    BY DEF Sound, Here
  <2>6. Placed(heap, linked, WSets, Allocs, Frees', Todos', Regs)
    BY <2>2, <2>3, <2>4, <2>5, FreedToTodo
  <2>7. QED
    BY <1>1, <2>1, <2>6 DEF Here
<1>16. ASSUME NEW t \in Thread, NEW a \in tx'[t].holds PROVE Held(t, a)'
  <2>1. Held(t, a) /\ tx'[t].start = tx[t].start /\ tx'[t].idx = tx[t].idx
    BY <1>3, <1>16 DEF Sound
  <2>2. a \notin heap /\ Elsewhere(t, a, m) /\ \A s \in Slot : Later(t, a, s)
    BY <2>1 DEF Held
  <2>3. a \in f => tx[t].start < now
    BY <1>4, <1>7, <2>2 DEF Elsewhere
  <2>4. Elsewhere(t, a, m)'
    BY <1>3, <1>6, <1>7, <2>1, <2>2, <2>3 DEF Elsewhere, Met, InCall
  <2>5. \A s \in Slot : Owns(m) /\ s = tx[m].idx => Later(t, a, s)'
    BY <1>1, <2>1, <2>2 DEF Later
  <2>6. QED
    BY <1>1, <1>8, <1>9, <2>1, <2>2, <2>4, <2>5, HeldOthers
<1>17. \A s \in Slot : Disjoint(threads'[s].regions)
  BY <1>1 DEF Sound
<1>18. QED
  BY <1>10, <1>14, <1>15, <1>16, <1>17 DEF Sound

-----------------------------------------------------------------------------
(* The rollover of the clock, the end *)

\* A thread waits, wakes up or begins to exit.
LEMMA SoundMoves ==
  ASSUME Types, Types', Sound, NEW m \in Thread, at[m].pc \in {"overflow", "woken", "idle"},
         NEW pc \in {"wait", "start", "exit"}, Go(m, pc),
         UNCHANGED <<clock, threads, heap, linked, tx>>
  PROVE  Sound'
<1>1. at'[m].pc = pc /\ \A u \in Thread \ {m} : at'[u] = at[u]
  BY Goes DEF Go
<1>2. Only(m) /\ Own(m) /\ clock' \in Nat /\ clock <= clock'
  BY <1>1, Bounds DEF Only, Own, Types
<1>3. /\ Owns(m) /\ ~InCall(m) /\ ~At(m, "on_commit") /\ ~At(m, "active")
      /\ ~InCall(m)' /\ ~Scans(m)' /\ ~At(m, "on_commit")' /\ ~At(m, "active")' /\ ~At(m, "ts")'
      /\ ~(m \in Drawing)'
  BY <1>1 DEF Owns, InCall, Scans, At, Drawing, Before
<1>4. (m \in Counted)' \/ at'[m].pc \in {"wait", "exit"}
  BY <1>1 DEF Counted
<1>5. Locals(m) /\ Slots
  BY DEF Sound
<1>6. Slots'
  BY <1>1, <1>2, <1>3, <1>5, SlotsKept
<1>7. tx[m].holds = {} /\ tx[m].allocated = {} /\ tx[m].freed = {}
  BY <1>3, <1>5 DEF Locals
<1>8. Locals(m)'
  BY <1>3, <1>4, <1>7 DEF Locals
<1>9. Frees'[m] = Frees[m] /\ Todos'[m] = Todos[m]
  BY <1>3 DEF Frees, Todos
<1>10. QED
  BY <1>2, <1>3, <1>6, <1>7, <1>8, <1>9, StillSound DEF Met

LEMMA SoundFreeTx ==
  ASSUME Types, Types', Sound, NEW m \in Thread, FreeTx(m)
  PROVE  Sound'
<1>1. at[m].pc = "exit" /\ UNCHANGED <<clock, threads, heap, linked>>
  BY DEF FreeTx, memory, At
<1>2. /\ \A u \in Thread \ {m} : tx'[u] = tx[u]
      /\ tx'[m].idx = tx[m].idx /\ tx'[m].w_set = {}
      /\ tx'[m].holds = tx[m].holds /\ tx'[m].allocated = tx[m].allocated
      /\ tx'[m].freed = tx[m].freed
  BY DEF FreeTx, Types, Descriptor, None
<1>3. Goto(m, [pc |-> "free", todo |-> tx[m].w_set, epoch |-> clock, after |-> "leave"])
  BY DEF FreeTx, Hand
<1>4. /\ \A u \in Thread \ {m} : at'[u] = at[u]
      /\ at'[m].pc = "free" /\ at'[m].todo = tx[m].w_set /\ at'[m].after = "leave"
  BY <1>3, Goes
<1>5. Only(m) /\ Own(m) /\ Owns(m) /\ ~InCall(m)
  BY <1>1, <1>2, <1>4 DEF Only, Own, Owns, InCall
<1>6. Locals(m) /\ Slots
  BY DEF Sound
<1>7. tx[m].holds = {} /\ tx[m].allocated = {} /\ tx[m].freed = {}
  BY <1>1, <1>6 DEF Locals, At
<1>8. Slots'
  BY <1>1, <1>2, <1>4, <1>5, <1>6, SlotsKept
<1>9. Locals(m)'
  BY <1>2, <1>4, <1>7 DEF Locals, Drawing, Before, InCall, At
<1>10. QED
  BY <1>1, <1>2, <1>4, <1>5, <1>7, <1>8, <1>9, HandsOver

LEMMA SoundLeave ==
  ASSUME Types, Types', Sound, NEW m \in Thread, Leave(m)
  PROVE  Sound'
<1>1. at[m].pc = "leave" /\ UNCHANGED <<clock, heap, linked, tx>>
  BY DEF Leave, memory, At
<1>2. threads' = [threads EXCEPT ![tx[m].idx].ts = EPOCH_MAX]
  BY DEF Leave
<1>3. /\ \A s \in Slot : /\ threads'[s].used = threads[s].used
                         /\ threads'[s].regions = threads[s].regions
      /\ \A s \in Slot : s # tx[m].idx => threads'[s] = threads[s]
  BY <1>2, SetTs
<1>4. at'[m].pc = "release" /\ \A u \in Thread \ {m} : at'[u] = at[u]
  BY Goes DEF Leave, Go
<1>5. Owns(m)
  BY <1>1 DEF Owns
<1>6. Only(m) /\ Own(m) /\ clock' \in Nat /\ clock <= clock'
  BY <1>1, <1>3, <1>4, <1>5, Bounds DEF Only, Own, Types
<1>7. Locals(m) /\ Slots
  BY DEF Sound
<1>8. Slots'
  BY <1>1, <1>3, <1>4, <1>5, <1>6, <1>7, SlotsKept
<1>9. tx[m].holds = {} /\ tx[m].allocated = {} /\ tx[m].freed = {} /\ tx[m].w_set = {}
  BY <1>1, <1>7 DEF Locals, Counted, Before, At, InCall
<1>10. Locals(m)'
  BY <1>1, <1>4, <1>9 DEF Locals, Counted, Drawing, Before, At, InCall
<1>11. Frees'[m] = Frees[m] /\ Todos'[m] = Todos[m] /\ ~InCall(m)' /\ ~Scans(m)'
  BY <1>1, <1>4 DEF Frees, Todos, InCall, Scans, At
<1>12. QED
  BY <1>1, <1>3, <1>6, <1>8, <1>9, <1>10, <1>11, StillSound DEF Met

LEMMA SoundRelease ==
  ASSUME Types, Types', Sound, NEW m \in Thread, Release(m)
  PROVE  Sound'
<1>1. at[m].pc = "release" /\ UNCHANGED <<clock, heap, linked>>
  BY DEF Release, memory, At
<1>2. PICK i \in Slot : i = tx[m].idx
  BY ThreadIs
<1>3. PICK used \in {"FREE_EMPTY", "FREE_FULL"} : threads' = [threads EXCEPT ![i].used = used]
  BY <1>2 DEF Release
<1>4. /\ \A s \in Slot \ {i} : threads'[s] = threads[s]
      /\ threads'[i].used = used /\ threads'[i].regions = threads[i].regions
      /\ threads'[i].ts = threads[i].ts
  BY <1>3 DEF Types, SlotRecord
<1>5. /\ \A u \in Thread \ {m} : tx'[u] = tx[u]
      /\ tx'[m].w_set = tx[m].w_set /\ tx'[m].holds = tx[m].holds
      /\ tx'[m].allocated = tx[m].allocated /\ tx'[m].freed = tx[m].freed
  BY DEF Release, Types, Descriptor
<1>6. at'[m].pc = "out" /\ \A u \in Thread \ {m} : at'[u] = at[u]
  BY Goes DEF Release, Go
<1>7. Owns(m) /\ ~Owns(m)' /\ used # NULL
  BY <1>1, <1>6 DEF Owns, NULL
<1>8. Only(m) /\ Own(m) /\ clock' \in Nat /\ clock <= clock'
  BY <1>1, <1>4, <1>5, <1>6, Bounds DEF Only, Own, Types
<1>9. Locals(m) /\ Slots
  BY DEF Sound
<1>10. Slots'
  <2>1. \A u \in Thread : Owns(u)' => u # m /\ Owns(u) /\ tx'[u].idx = tx[u].idx
                                     /\ tx[u].idx \in Slot /\ tx[u].idx # i
    BY <1>2, <1>5, <1>6, <1>7, <1>9, ThreadIs DEF Owns, Slots
  <2>2. \A u \in Thread : Owns(u)' => Mine(u)'.used = "BUSY"
    BY <1>4, <1>9, <2>1 DEF Mine, Slots
  <2>3. \A u, v \in Thread : Owns(u)' /\ Owns(v)' /\ u # v => tx'[u].idx # tx'[v].idx
    BY <1>9, <2>1 DEF Slots
  <2>4. ASSUME NEW s \in Slot, threads'[s].used = NULL
        PROVE  /\ threads'[s].regions = <<>>
               /\ \A r \in Slot : s < r => threads'[r].used = NULL
               /\ \A u \in Thread : at'[u].pc \in {"slot", "cas"} => at'[u].i <= s
               /\ \A u \in Thread : At(u, "cas")' /\ at'[u].i = s => at'[u].used = NULL
    <3>1. s # i /\ threads[s].used = NULL
      BY <1>4, <1>7, <2>4
    <3>2. threads[i].used = "BUSY"
      BY <1>2, <1>7, <1>9 DEF Slots, Mine
    <3>3. ~(s < i)
      BY <1>9, <3>1, <3>2 DEF Slots, NULL
    <3>4. threads'[s].regions = <<>> /\ \A r \in Slot : s < r => threads'[r].used = NULL
      BY <1>4, <1>9, <3>1, <3>3 DEF Slots
    <3>5. \A u \in Thread : at'[u].pc \in {"slot", "cas"} => at'[u] = at[u]
      BY <1>6
    <3>6. QED
      BY <1>9, <3>1, <3>4, <3>5 DEF Slots, At
  <2>5. QED
    BY <2>2, <2>3, <2>4 DEF Slots
<1>11. tx[m].holds = {} /\ tx[m].allocated = {} /\ tx[m].freed = {} /\ tx[m].w_set = {}
  BY <1>1, <1>9 DEF Locals, Counted, Before, At, InCall
<1>12. Locals(m)'
  BY <1>5, <1>6, <1>11 DEF Locals, Counted, Drawing, Before, At, InCall
<1>13. Frees'[m] = Frees[m] /\ Todos'[m] = Todos[m] /\ ~InCall(m)' /\ ~Scans(m)'
  BY <1>1, <1>6 DEF Frees, Todos, InCall, Scans, At
<1>14. \A s \in Slot : threads'[s].regions = threads[s].regions
  BY <1>4
<1>15. QED
  BY <1>1, <1>5, <1>8, <1>10, <1>11, <1>12, <1>13, <1>14, StillSound DEF Met

\* All the blocks of all the slots are returned while no transaction runs.
LEMMA SoundReturn ==
  ASSUME Types, Types', Sound, UNCHANGED <<linked, tx>>,
         heap' = heap \cup AllBlocks,
         \A s \in Slot : threads'[s].used = threads[s].used,
         \A s \in Slot : threads'[s].regions = <<>>,
         \A u \in Thread : tx[u].holds = {} /\ tx[u].allocated = {} /\ tx[u].freed = {},
         \A u \in Thread : Owns(u)' => Owns(u),
         \A u \in Thread : InCall(u) \/ InCall(u)' \/ at'[u].pc \in {"slot", "cas"} =>
           at'[u] = at[u],
         \A u \in Thread : /\ ~At(u, "active")'
                           /\ (u \in Drawing)' => u \in Drawing /\ clock' = clock,
         \A u \in Thread : tx[u].w_set # {} =>
           (u \in Counted)' \/ at'[u].pc \in {"wait", "woken", "exit"}
  PROVE  Sound'
<1>1. Slots'
  <2>1. \A u \in Thread : Owns(u)' => Owns(u) /\ tx'[u].idx = tx[u].idx /\ tx[u].idx \in Slot
    BY ThreadIs
  <2>2. QED
    BY <2>1, SlotsOthers DEF Sound
<1>2. ASSUME NEW u \in Thread PROVE Locals(u)'
  <2>1. Locals(u)
    BY DEF Sound
  <2>2. (u \in Drawing)' => tx'[u].start <= clock'
    BY <2>1 DEF Locals
  <2>3. At(u, "ts")' => at'[u].i \in Slot
    BY <2>1 DEF Locals, At, InCall
  <2>4. InCall(u)' /\ at'[u].after = "begin" => tx'[u].w_set = {}
    BY <2>1 DEF Locals, InCall
  <2>5. QED
    BY <2>2, <2>3, <2>4 DEF Locals
<1>3. \A t \in Thread : \A a \in tx'[t].holds : Held(t, a)'
  OBVIOUS
<1>4. \A s \in Slot : Disjoint(threads'[s].regions) /\ BlocksOf(threads'[s].regions) = {}
  BY DEF Disjoint, BlocksOf
<1>5. Here'
  <2>1. WSets' = WSets /\ Allocs' = Allocs
    BY DEF WSets, Allocs
  <2>2. Frees' = [u \in Thread |-> {}] /\ Frees = [u \in Thread |-> {}]
    BY DEF Frees
  <2>3. \A u \in Thread : Todos'[u] = Todos[u]
    BY DEF Todos, InCall
  <2>4. Todos' = Todos
    BY <2>3 DEF Todos
  <2>5. \A s \in Slot : Regs'[s] = {}
    BY <1>4 DEF Regs
  <2>6. UNION {Regs[s] : s \in Slot} = AllBlocks
    BY DEF Regs, AllBlocks
  <2>7. Placed(heap, linked, WSets, Allocs, Frees, Todos, Regs)
    BY DEF Sound, Here
  <2>8. Placed(heap \cup UNION {Regs[s] : s \in Slot}, linked, WSets, Allocs, Frees, Todos, Regs')
    BY <2>5, <2>7, RegionsToHeap
  <2>9. QED
    BY <2>1, <2>2, <2>4, <2>6, <2>8 DEF Here
<1>6. QED
  BY <1>1, <1>2, <1>3, <1>4, <1>5 DEF Sound

\* The only thread that tx_count counts.
LEMMA Alone ==
  ASSUME Counts, NEW m \in Counted, tx_count = 1
  PROVE  Counted = {m}
<1>1. Counted \in SUBSET Thread /\ Counted \ {m} \in SUBSET Thread
  BY DEF Counted
<1>2. Cardinality(Counted \ {m}) = 0
  <2>1. Cardinality(Counted) = 1
    BY DEF Counts
  <2>2. Cardinality(Counted \ {m}) = Cardinality(Counted) - 1
    BY <1>1, OneMore
  <2>3. QED
    BY <2>1, <2>2
<1>3. Counted \ {m} = {}
  BY <1>1, <1>2, Finite, FS_EmptySet
<1>4. QED
  BY <1>3

\* What gc_reset does, called by m, and the waiting threads woken.
LEMMA ResetIs ==
  ASSUME Types, Slots, NEW m \in Thread, NEW pc \in {"start", "exit"},
         GcReset([at EXCEPT ![m] = [pc |-> pc]])
  PROVE  /\ at'[m] = [pc |-> pc]
         /\ \A u \in Thread \ {m} :
              at'[u] = IF at[u].pc = "wait" THEN [pc |-> "woken"] ELSE at[u]
         /\ heap' = heap \cup AllBlocks /\ clock' = 0 /\ tx_overflow' = FALSE
         /\ \A s \in Slot : threads'[s].used = threads[s].used
         /\ \A s \in Slot : threads'[s].regions = <<>>
         /\ threads' \in [Slot -> SlotRecord]
<1>1. PICK calls : calls = [at EXCEPT ![m] = [pc |-> pc]]
  OBVIOUS
<1>2. calls[m] = [pc |-> pc] /\ \A u \in Thread \ {m} : calls[u] = at[u]
  BY <1>1 DEF Types
<1>3. GcReset(calls)
  BY <1>1
<1>4. at' = [u \in Thread |-> IF calls[u].pc = "wait" THEN [pc |-> "woken"] ELSE calls[u]]
  BY <1>3 DEF GcReset, Woken
<1>5. /\ at'[m] = [pc |-> pc]
      /\ \A u \in Thread \ {m} : at'[u] = IF at[u].pc = "wait" THEN [pc |-> "woken"] ELSE at[u]
  BY <1>2, <1>4
<1>6. heap' = heap \cup AllBlocks /\ clock' = 0 /\ tx_overflow' = FALSE
  BY <1>3 DEF GcReset
<1>7. threads' = [s \in Slot |->
         IF threads[s].used = NULL THEN threads[s]
         ELSE [threads[s] EXCEPT !.ts = EPOCH_MAX, !.regions = <<>>]]
  BY <1>3 DEF GcReset
<1>8. ASSUME NEW s \in Slot
      PROVE  /\ threads'[s].used = threads[s].used /\ threads'[s].regions = <<>>
             /\ threads'[s] \in SlotRecord
  <2>1. threads[s] \in SlotRecord
    BY SlotIs
  <2>2. CASE threads[s].used = NULL
    BY <1>7, <2>1, <2>2 DEF Slots
  <2>3. CASE threads[s].used # NULL
    <3>1. threads'[s] = [threads[s] EXCEPT !.ts = EPOCH_MAX, !.regions = <<>>]
      BY <1>7, <2>3
    <3>2. EPOCH_MAX \in Epoch /\ <<>> \in Seq(Region)
      BY Bounds
    <3>3. QED
      BY <2>1, <3>1, <3>2 DEF SlotRecord
  <2>4. QED
    BY <2>2, <2>3
<1>9. threads' \in [Slot -> SlotRecord]
  BY <1>7, <1>8
<1>10. QED
  BY <1>5, <1>6, <1>8, <1>9

LEMMA SoundReset ==
  ASSUME Types, Types', Sound, Counts, NEW m \in Thread, at[m].pc \in {"overflow", "idle"},
         tx_count = 1, NEW pc \in {"start", "exit"},
         GcReset([at EXCEPT ![m] = [pc |-> pc]]), UNCHANGED <<linked, tx>>
  PROVE  Sound'
<1>1. /\ at'[m] = [pc |-> pc]
      /\ \A u \in Thread \ {m} : at'[u] = IF at[u].pc = "wait" THEN [pc |-> "woken"] ELSE at[u]
      /\ heap' = heap \cup AllBlocks
      /\ \A s \in Slot : threads'[s].used = threads[s].used
      /\ \A s \in Slot : threads'[s].regions = <<>>
  BY ResetIs DEF Sound
<1>2. m \in Counted /\ ~InCall(m) /\ ~At(m, "active") /\ ~At(m, "on_commit") /\ Owns(m)
  BY DEF Counted, Before, InCall, At, Owns
<1>3. Counted = {m}
  BY <1>2, Alone
<1>4. ASSUME NEW u \in Thread \ {m}
      PROVE  ~At(u, "active") /\ ~At(u, "on_commit") /\ ~(u \in Drawing)
  <2>1. u \notin Counted
    BY <1>3
  <2>2. QED
    BY <2>1 DEF Counted, Drawing, At
<1>5. ASSUME NEW u \in Thread PROVE tx[u].holds = {} /\ tx[u].allocated = {} /\ tx[u].freed = {}
  <2>1. Locals(u) /\ ~At(u, "active") /\ ~At(u, "on_commit")
    BY <1>2, <1>4 DEF Sound
  <2>2. QED
    BY <2>1 DEF Locals
<1>6. ASSUME NEW u \in Thread \ {m}
      PROVE  /\ Owns(u)' => Owns(u)
             /\ InCall(u) \/ InCall(u)' \/ at'[u].pc \in {"slot", "cas"} => at'[u] = at[u]
             /\ ~At(u, "active")' /\ ~(u \in Drawing)'
             /\ tx[u].w_set # {} => at'[u].pc \in {"wait", "woken", "exit"}
  <2>1. u \notin Counted /\ Locals(u)
    BY <1>3 DEF Sound
  <2>2. tx[u].w_set # {} => at[u].pc \in {"wait", "woken", "exit"}
    BY <2>1 DEF Locals
  <2>3. CASE at[u].pc = "wait"
    BY <1>1, <2>3 DEF Owns, InCall, At, Drawing, Before
  <2>4. CASE at[u].pc # "wait"
    BY <1>1, <1>4, <2>2, <2>4 DEF Owns, InCall, At, Drawing, Before
  <2>5. QED
    BY <2>3, <2>4
<1>7. /\ ~InCall(m)' /\ at'[m].pc \notin {"slot", "cas"} /\ ~At(m, "active")' /\ ~(m \in Drawing)'
      /\ (m \in Counted)' \/ at'[m].pc \in {"wait", "woken", "exit"}
  BY <1>1 DEF InCall, At, Drawing, Counted, Before
<1>8. \A u \in Thread : Owns(u)' => Owns(u)
  BY <1>2, <1>6
<1>9. \A u \in Thread : InCall(u) \/ InCall(u)' \/ at'[u].pc \in {"slot", "cas"} => at'[u] = at[u]
  BY <1>2, <1>6, <1>7
<1>10. \A u \in Thread : ~At(u, "active")' /\ ((u \in Drawing)' => u \in Drawing /\ clock' = clock)
  BY <1>6, <1>7
<1>11. \A u \in Thread : tx[u].w_set # {} =>
         (u \in Counted)' \/ at'[u].pc \in {"wait", "woken", "exit"}
  BY <1>6, <1>7
<1>12. QED
  BY <1>1, <1>5, <1>8, <1>9, <1>10, <1>11, SoundReturn

LEMMA SoundOverflow ==
  ASSUME Types, Types', Sound, Counts, NEW m \in Thread, Overflow(m) \/ Exit(m) \/ WakeUp(m)
  PROVE  Sound'
<1>1. CASE Overflow(m)
  <2>1. at[m].pc = "overflow" /\ UNCHANGED <<linked, tx>>
    BY <1>1 DEF Overflow, At
  <2>2. CASE tx_count = 1
    BY <1>1, <2>1, <2>2, SoundReset DEF Overflow
  <2>3. CASE tx_count # 1
    <3>1. Go(m, "wait") /\ UNCHANGED <<clock, threads, heap>>
      BY <1>1, <2>3 DEF Overflow
    <3>2. QED
      BY <2>1, <3>1, SoundMoves
  <2>4. QED
    BY <2>2, <2>3
<1>2. CASE Exit(m)
  <2>1. at[m].pc = "idle" /\ UNCHANGED <<linked, tx>>
    BY <1>2 DEF Exit, At
  <2>2. CASE tx_overflow /\ tx_count = 1
    BY <1>2, <2>1, <2>2, SoundReset DEF Exit
  <2>3. CASE ~(tx_overflow /\ tx_count = 1)
    <3>1. Go(m, "exit") /\ UNCHANGED <<clock, threads, heap>>
      BY <1>2, <2>3 DEF Exit
    <3>2. QED
      BY <2>1, <3>1, SoundMoves
  <2>4. QED
    BY <2>2, <2>3
<1>3. CASE WakeUp(m)
  <2>1. at[m].pc = "woken" /\ Go(m, "start") /\ UNCHANGED <<clock, threads, heap, linked, tx>>
    BY <1>3 DEF WakeUp, At, memory
  <2>2. QED
    BY <2>1, SoundMoves
<1>4. QED
  BY <1>1, <1>2, <1>3

LEMMA SoundGcExit ==
  ASSUME Types, Types', Sound, GcExit
  PROVE  Sound'
<1>1. \A u \in Thread : at[u].pc = "out"
  BY DEF GcExit, At
<1>2. UNCHANGED <<clock, linked, tx, at>> /\ heap' = heap \cup AllBlocks
  BY DEF GcExit
<1>3. \A s \in Slot : threads'[s] = [threads[s] EXCEPT !.regions = <<>>]
  BY DEF GcExit
<1>4. \A s \in Slot : threads'[s].used = threads[s].used /\ threads'[s].regions = <<>>
  <2> SUFFICES ASSUME NEW s \in Slot
               PROVE  threads'[s].used = threads[s].used /\ threads'[s].regions = <<>>
    OBVIOUS
  <2>1. threads[s] \in SlotRecord
    BY SlotIs
  <2>2. QED
    BY <1>3, <2>1 DEF SlotRecord
<1>5. ASSUME NEW u \in Thread
      PROVE  /\ tx[u].holds = {} /\ tx[u].allocated = {} /\ tx[u].freed = {} /\ tx[u].w_set = {}
             /\ Owns(u)' => Owns(u)
             /\ ~At(u, "active")' /\ ~(u \in Drawing)'
  <2>1. Locals(u) /\ u \notin Counted /\ at'[u].pc = "out" /\ at[u].pc = "out"
    BY <1>1, <1>2 DEF Sound, Counted, Before, InCall, At
  <2>2. QED
    BY <2>1 DEF Locals, Owns, At, Drawing, Before, InCall
<1>6. QED
  BY <1>2, <1>4, <1>5, SoundReturn

-----------------------------------------------------------------------------
(* Types, in a transaction and afterwards *)

\* A step of a transaction keeps the types.
LEMMA TypesTx ==
  ASSUME Types, Sound, NEW t \in Thread,
         StartTx(t) \/ SetEpoch(t) \/ Load(t) \/ StmMalloc(t) \/ StmFree(t) \/ OnCommit(t)
  PROVE  Types'
<1>1. /\ at[t] \in Calls /\ tx[t] \in Descriptor /\ tx[t].idx \in Slot
      /\ threads[tx[t].idx] \in SlotRecord /\ clock \in Time
  BY ThreadIs DEF Types
<1>2. CASE StartTx(t)
  <2>1. PICK w \in SUBSET Addr, r \in BOOLEAN, n \in Nat :
          /\ tx' = [tx EXCEPT ![t].start = clock, ![t].starts = n, ![t].w_set = w,
                              ![t].reallocate = r]
          /\ \/ Goto(t, [pc |-> "free", todo |-> tx[t].w_set, epoch |-> clock, after |-> "begin"])
             \/ Goto(t, [pc |-> "overflow"]) \/ Goto(t, [pc |-> "begin"])
    <3>1. PICK w, r, n :
            /\ w = IF tx[t].reallocate /\ ~(clock >= VERSION_MAX) THEN None ELSE tx[t].w_set
            /\ r = (tx[t].reallocate /\ clock >= VERSION_MAX)
            /\ n = IF At(t, "idle") THEN tx[t].starts + 1 ELSE tx[t].starts
      OBVIOUS
    <3>2. n \in Nat
      BY <1>1, <3>1 DEF Descriptor
    <3>3. w \in SUBSET Addr /\ r \in BOOLEAN
      BY <1>1, <3>1 DEF Descriptor, None
    <3>4. tx' = [tx EXCEPT ![t].start = clock, ![t].starts = n, ![t].w_set = w,
                           ![t].reallocate = r]
      BY <1>2, <3>1 DEF StartTx
    <3>5. \/ Goto(t, [pc |-> "free", todo |-> tx[t].w_set, epoch |-> clock, after |-> "begin"])
          \/ Goto(t, [pc |-> "overflow"]) \/ Goto(t, [pc |-> "begin"])
      BY <1>2 DEF StartTx, Go, Hand
    <3>6. QED
      BY <3>2, <3>3, <3>4, <3>5
  <2>2. [tx[t] EXCEPT !.start = clock, !.starts = n, !.w_set = w, !.reallocate = r] \in Descriptor
    BY <1>1 DEF Descriptor
  <2>3. tx' \in [Thread -> Descriptor]
    BY <2>1, <2>2, TxStays DEF Types
  <2>4. tx[t].w_set \in SUBSET Addr
    BY <1>1 DEF Descriptor
  <2>5. at' \in [Thread -> Calls]
    BY <1>1, <2>1, <2>4, CallsAre, CallStays DEF Steps, Plain
  <2>6. QED
    BY <1>2, <2>3, <2>5 DEF StartTx, Types, memory, rollover
<1>3. CASE SetEpoch(t)
  <2>1. tx[t].start \in Epoch
    BY <1>1, Bounds DEF Descriptor
  <2>2. [threads[tx[t].idx] EXCEPT !.ts = tx[t].start] \in SlotRecord
    BY <1>1, <2>1 DEF SlotRecord
  <2>3. threads' \in [Slot -> SlotRecord]
    BY <1>1, <1>3, <2>2 DEF SetEpoch, Types
  <2>4. at' \in [Thread -> Calls]
    BY <1>3, CallsAre, CallStays DEF SetEpoch, Go, Plain
  <2>5. heap' \subseteq Addr /\ tx' \in [Thread -> Descriptor]
    <3>1. CASE tx[t].w_set # None
      BY <1>3, <3>1 DEF SetEpoch, Types
    <3>2. CASE tx[t].w_set = None
      <4>1. PICK b \in heap : heap' = heap \ {b} /\ tx' = [tx EXCEPT ![t].w_set = {b}]
        BY <1>3, <3>2 DEF SetEpoch
      <4>2. [tx[t] EXCEPT !.w_set = {b}] \in Descriptor
        BY <1>1 DEF Descriptor, Types
      <4>3. QED
        BY <4>1, <4>2, TxStays DEF Types
    <3>3. QED
      BY <3>1, <3>2
  <2>6. QED
    BY <1>3, <2>3, <2>4, <2>5 DEF SetEpoch, Types, rollover
<1>4. CASE Load(t)
  <2>1. PICK n \in linked : tx' = [tx EXCEPT ![t].holds = @ \cup {n}]
    BY <1>4 DEF Load
  <2>2. [tx[t] EXCEPT !.holds = @ \cup {n}] \in Descriptor
    BY <1>1 DEF Descriptor, Types
  <2>3. tx' \in [Thread -> Descriptor]
    BY <2>1, <2>2, TxStays DEF Types
  <2>4. QED
    BY <1>4, <2>3 DEF Load, Types, memory, rollover
<1>5. CASE StmMalloc(t)
  <2>1. PICK n \in heap : heap' = heap \ {n} /\ tx' = [tx EXCEPT ![t].allocated = @ \cup {n}]
    BY <1>5 DEF StmMalloc
  <2>2. [tx[t] EXCEPT !.allocated = @ \cup {n}] \in Descriptor
    BY <1>1 DEF Descriptor, Types
  <2>3. tx' \in [Thread -> Descriptor]
    BY <2>1, <2>2, TxStays DEF Types
  <2>4. QED
    BY <1>5, <2>1, <2>3 DEF StmMalloc, Types, rollover
<1>6. CASE StmFree(t)
  <2>1. PICK n \in linked : tx' = [tx EXCEPT ![t].freed = @ \cup {n}]
    BY <1>6 DEF StmFree
  <2>2. [tx[t] EXCEPT !.freed = @ \cup {n}] \in Descriptor
    BY <1>1 DEF Descriptor, Types
  <2>3. tx' \in [Thread -> Descriptor]
    BY <2>1, <2>2, TxStays DEF Types
  <2>4. QED
    BY <1>6, <2>3 DEF StmFree, Types, memory, rollover
<1>7. CASE OnCommit(t)
  <2>1. [tx[t] EXCEPT !.freed = {}] \in Descriptor
    BY <1>1 DEF Descriptor
  <2>2. tx' \in [Thread -> Descriptor]
    BY <1>7, <2>1, TxStays DEF OnCommit, Types
  <2>3. tx[t].freed \in SUBSET Addr
    BY <1>1 DEF Descriptor
  <2>4. \/ Goto(t, [pc |-> "idle"])
        \/ Goto(t, [pc |-> "free", todo |-> tx[t].freed, epoch |-> clock, after |-> "idle"])
    BY <1>7 DEF OnCommit, Freed, Go, Hand
  <2>5. at' \in [Thread -> Calls]
    BY <1>1, <2>3, <2>4, CallsAre, CallStays DEF Steps, Plain
  <2>6. QED
    BY <1>7, <2>2, <2>5 DEF OnCommit, Types, memory, rollover
<1>8. QED
  BY <1>2, <1>3, <1>4, <1>5, <1>6, <1>7

\* So does its end.
LEMMA TypesCommit ==
  ASSUME Types, Counts, Sound, NEW t \in Thread, Abort(t) \/ Commit(t)
  PROVE  Types'
<1>1. tx[t] \in Descriptor /\ clock \in Time
  BY ThreadIs DEF Types
<1>2. ASSUME NEW full \in BOOLEAN, Rollback(t, full)
      PROVE  heap' \subseteq Addr /\ tx' \in [Thread -> Descriptor] /\ at' \in [Thread -> Calls]
  <2>1. heap' \subseteq Addr
    BY <1>1, <1>2 DEF Rollback, Types, Descriptor
  <2>2. [tx[t] EXCEPT !.holds = {}, !.allocated = {}, !.freed = {}, !.reallocate = full]
          \in Descriptor
    BY <1>1 DEF Descriptor
  <2>3. tx' \in [Thread -> Descriptor]
    BY <1>2, <2>2, TxStays DEF Rollback, Types
  <2>4. at' \in [Thread -> Calls]
    BY <1>2, CallsAre, CallStays DEF Rollback, Go, Plain
  <2>5. QED
    BY <2>1, <2>3, <2>4
<1>3. CASE Abort(t)
  <2>1. PICK full \in BOOLEAN : Rollback(t, full)
    BY <1>3 DEF Abort
  <2>2. QED
    BY <1>2, <1>3, <2>1 DEF Abort, Types, rollover
<1>4. CASE Commit(t)
  <2>1. t \in Drawing
    BY <1>4 DEF Commit, Drawing
  <2>2. clock + 1 \in Time
    BY <2>1, ClockStays
  <2>3. clock' \in Time
    BY <1>1, <1>4, <2>2 DEF Commit
  <2>4. CASE Rollback(t, FALSE) /\ UNCHANGED linked
    <3>1. heap' \subseteq Addr /\ tx' \in [Thread -> Descriptor] /\ at' \in [Thread -> Calls]
      BY <1>2, <2>4
    <3>2. QED
      BY <1>4, <2>3, <2>4, <3>1 DEF Commit, Types, rollover
  <2>5. CASE /\ linked' = (linked \cup tx[t].allocated) \ Freed(t)
             /\ tx' = [tx EXCEPT ![t].holds = {}, ![t].allocated = {}]
             /\ Go(t, "on_commit")
             /\ UNCHANGED heap
    <3>1. linked' \subseteq Addr
      BY <1>1, <2>5 DEF Types, Descriptor
    <3>2. [tx[t] EXCEPT !.holds = {}, !.allocated = {}] \in Descriptor
      BY <1>1 DEF Descriptor
    <3>3. tx' \in [Thread -> Descriptor]
      BY <2>5, <3>2, TxStays DEF Types
    <3>4. at' \in [Thread -> Calls]
      BY <2>5, CallsAre, CallStays DEF Go, Plain
    <3>5. QED
      BY <1>4, <2>3, <2>5, <3>1, <3>3, <3>4 DEF Commit, Types, rollover
  <2>6. QED
    BY <1>4, <2>4, <2>5 DEF Commit
<1>5. QED
  BY <1>3, <1>4

\* So does a rollover of the clock.
LEMMA TypesReset ==
  ASSUME Types, Sound, NEW m \in Thread, NEW pc \in {"start", "exit"},
         GcReset([at EXCEPT ![m] = [pc |-> pc]]), UNCHANGED <<linked, tx, exited>>
  PROVE  Types'
<1>1. /\ at'[m] = [pc |-> pc]
      /\ \A u \in Thread \ {m} : at'[u] = IF at[u].pc = "wait" THEN [pc |-> "woken"] ELSE at[u]
      /\ heap' = heap \cup AllBlocks /\ clock' = 0 /\ tx_overflow' = FALSE
      /\ threads' \in [Slot -> SlotRecord]
  BY ResetIs DEF Sound
<1>2. AllBlocks \subseteq Addr
  BY SlotIs DEF AllBlocks
<1>3. \A u \in Thread : at'[u] \in Calls
  <2>1. [pc |-> pc] \in Calls /\ [pc |-> "woken"] \in Calls
    BY CallsAre DEF Plain
  <2>2. QED
    BY <1>1, <2>1 DEF Types
<1>4. \E calls :
        at' = [u \in Thread |-> IF calls[u].pc = "wait" THEN [pc |-> "woken"] ELSE calls[u]]
  <2>1. PICK calls : calls = [at EXCEPT ![m] = [pc |-> pc]]
    OBVIOUS
  <2>2. GcReset(calls)
    BY <2>1
  <2>3. QED
    BY <2>2 DEF GcReset, Woken
<1>5. at' \in [Thread -> Calls]
  BY <1>3, <1>4
<1>6. raced' \in BOOLEAN
  BY DEF GcReset
<1>7. QED
  BY <1>1, <1>2, <1>5, <1>6, Bounds DEF Types

\* So does the end of a thread or of the process.
LEMMA TypesExit ==
  ASSUME Types, Sound, NEW t \in Thread,
         \/ Overflow(t) \/ WakeUp(t) \/ Exit(t) \/ FreeTx(t) \/ Leave(t) \/ Release(t)
  PROVE  Types'
<1>1. /\ tx[t] \in Descriptor /\ clock \in Time /\ tx[t].idx \in Slot
      /\ threads[tx[t].idx] \in SlotRecord
  BY ThreadIs DEF Types
<1>2. \A pc \in Plain : Go(t, pc) => at' \in [Thread -> Calls]
  BY CallsAre, CallStays DEF Go
<1>3. CASE Overflow(t)
  <2>1. CASE tx_count = 1
    BY <1>3, <2>1, TypesReset DEF Overflow
  <2>2. CASE tx_count # 1
    <3>1. at' \in [Thread -> Calls]
      BY <1>2, <1>3, <2>2 DEF Overflow, Plain
    <3>2. QED
      BY <1>3, <2>2, <3>1 DEF Overflow, Types
  <2>3. QED
    BY <2>1, <2>2
<1>4. CASE WakeUp(t)
  <2>1. at' \in [Thread -> Calls]
    BY <1>2, <1>4 DEF WakeUp, Plain
  <2>2. QED
    BY <1>4, <2>1 DEF WakeUp, Types, memory
<1>5. CASE Exit(t)
  <2>1. CASE tx_overflow /\ tx_count = 1
    BY <1>5, <2>1, TypesReset DEF Exit
  <2>2. CASE ~(tx_overflow /\ tx_count = 1)
    <3>1. at' \in [Thread -> Calls]
      BY <1>2, <1>5, <2>2 DEF Exit, Plain
    <3>2. QED
      BY <1>5, <2>2, <3>1 DEF Exit, Types
  <2>3. QED
    BY <2>1, <2>2
<1>6. CASE FreeTx(t)
  <2>1. [tx[t] EXCEPT !.w_set = {}, !.reallocate = FALSE, !.start = 0] \in Descriptor
    BY <1>1, Bounds DEF Descriptor
  <2>2. tx' \in [Thread -> Descriptor]
    BY <1>6, <2>1, TxStays DEF FreeTx, Types, None
  <2>3. tx[t].w_set \in SUBSET Addr
    BY <1>1 DEF Descriptor
  <2>4. Goto(t, [pc |-> "free", todo |-> tx[t].w_set, epoch |-> clock, after |-> "leave"])
    BY <1>6 DEF FreeTx, Hand
  <2>5. at' \in [Thread -> Calls]
    BY <1>1, <2>3, <2>4, CallsAre, CallStays DEF Steps
  <2>6. QED
    BY <1>6, <2>2, <2>5 DEF FreeTx, Types, memory, rollover
<1>7. CASE Leave(t)
  <2>1. [threads[tx[t].idx] EXCEPT !.ts = EPOCH_MAX] \in SlotRecord
    BY <1>1, Bounds DEF SlotRecord
  <2>2. threads' \in [Slot -> SlotRecord]
    BY <1>1, <1>7, <2>1 DEF Leave, Types
  <2>3. at' \in [Thread -> Calls]
    BY <1>2, <1>7 DEF Leave, Plain
  <2>4. QED
    BY <1>7, <2>2, <2>3 DEF Leave, Types, memory, rollover
<1>8. CASE Release(t)
  <2>1. PICK used \in {"FREE_EMPTY", "FREE_FULL"} :
          threads' = [threads EXCEPT ![tx[t].idx].used = used]
    BY <1>8 DEF Release
  <2>2. [threads[tx[t].idx] EXCEPT !.used = used] \in SlotRecord
    BY <1>1 DEF SlotRecord
  <2>3. threads' \in [Slot -> SlotRecord]
    BY <1>1, <2>1, <2>2 DEF Types
  <2>4. [tx[t] EXCEPT !.idx = 0] \in Descriptor
    BY <1>1, Bounds DEF Descriptor
  <2>5. tx' \in [Thread -> Descriptor]
    BY <1>8, <2>4, TxStays DEF Release, Types
  <2>6. at' \in [Thread -> Calls]
    BY <1>2, <1>8 DEF Release, Plain
  <2>7. QED
    BY <1>8, <2>3, <2>5, <2>6 DEF Release, Types, memory, rollover
<1>9. QED
  BY <1>3, <1>4, <1>5, <1>6, <1>7, <1>8

LEMMA TypesGcExit ==
  ASSUME Types, GcExit
  PROVE  Types'
<1>1. AllBlocks \subseteq Addr
  BY SlotIs DEF AllBlocks
<1>2. \A s \in Slot : [threads[s] EXCEPT !.regions = <<>>] \in SlotRecord
  <2> SUFFICES ASSUME NEW s \in Slot PROVE [threads[s] EXCEPT !.regions = <<>>] \in SlotRecord
    OBVIOUS
  <2>1. threads[s] \in SlotRecord /\ <<>> \in Seq(Region)
    BY SlotIs
  <2>2. QED
    BY <2>1 DEF SlotRecord
<1>3. QED
  BY <1>1, <1>2 DEF GcExit, Types

-----------------------------------------------------------------------------
(* What is counted *)

\* A step of m counts, if it does so for m.
LEMMA CountsStep ==
  ASSUME Types, Types', Counts, NEW m \in Thread, \A u \in Thread \ {m} : at'[u] = at[u], ~exited',
         \/ tx_count' = tx_count /\ ((m \in Counted)' <=> m \in Counted)
         \/ tx_count' = tx_count + 1 /\ m \notin Counted /\ (m \in Counted)'
         \/ tx_count' = tx_count - 1 /\ m \in Counted /\ ~(m \in Counted)',
         \/ nb_threads' = nb_threads /\ ((m \in Inside)' <=> m \in Inside)
         \/ nb_threads' = nb_threads + 1 /\ m \notin Inside /\ (m \in Inside)'
         \/ nb_threads' = nb_threads - 1 /\ m \in Inside /\ ~(m \in Inside)',
         \/ clock' < VERSION_MAX
         \/ clock' = clock /\ ((m \in Drawing)' => m \in Drawing)
         \/ clock' = clock + 1 /\ m \in Drawing /\ ~(m \in Drawing)'
  PROVE  Counts'
<1>1. \A u \in Thread \ {m} : /\ (u \in Counted)' <=> u \in Counted
                              /\ (u \in Inside)' <=> u \in Inside
                              /\ (u \in Drawing)' <=> u \in Drawing
  BY DEF Counted, Inside, Drawing, Before, InCall, At
<1>2. /\ Counted \in SUBSET Thread /\ Counted' \in SUBSET Thread
      /\ Inside \in SUBSET Thread /\ Inside' \in SUBSET Thread
      /\ Drawing \in SUBSET Thread /\ Drawing' \in SUBSET Thread
  BY DEF Counted, Inside, Drawing
<1>3. tx_count' = Cardinality(Counted')
  <2>1. CASE tx_count' = tx_count /\ ((m \in Counted)' <=> m \in Counted)
    <3>1. Counted' = Counted
      BY <1>1, <1>2, <2>1
    <3>2. QED
      BY <2>1, <3>1 DEF Counts
  <2>2. CASE tx_count' = tx_count + 1 /\ m \notin Counted /\ (m \in Counted)'
    <3>1. Counted' = Counted \cup {m}
      BY <1>1, <1>2, <2>2
    <3>2. QED
      BY <1>2, <2>2, <3>1, OneMore DEF Counts
  <2>3. CASE tx_count' = tx_count - 1 /\ m \in Counted /\ ~(m \in Counted)'
    <3>1. Counted' = Counted \ {m}
      BY <1>1, <1>2, <2>3
    <3>2. QED
      BY <1>2, <2>3, <3>1, OneMore DEF Counts
  <2>4. QED
    BY <2>1, <2>2, <2>3
<1>4. nb_threads' = Cardinality(Inside')
  <2>1. CASE nb_threads' = nb_threads /\ ((m \in Inside)' <=> m \in Inside)
    <3>1. Inside' = Inside
      BY <1>1, <1>2, <2>1
    <3>2. QED
      BY <2>1, <3>1 DEF Counts
  <2>2. CASE nb_threads' = nb_threads + 1 /\ m \notin Inside /\ (m \in Inside)'
    <3>1. Inside' = Inside \cup {m}
      BY <1>1, <1>2, <2>2
    <3>2. QED
      BY <1>2, <2>2, <3>1, OneMore DEF Counts
  <2>3. CASE nb_threads' = nb_threads - 1 /\ m \in Inside /\ ~(m \in Inside)'
    <3>1. Inside' = Inside \ {m}
      BY <1>1, <1>2, <2>3
    <3>2. QED
      BY <1>2, <2>3, <3>1, OneMore DEF Counts
  <2>4. QED
    BY <2>1, <2>2, <2>3
<1>5. clock' < VERSION_MAX \/ clock' + Cardinality(Drawing') <= VERSION_MAX + Cardinality(Thread)
  <2>1. /\ Cardinality(Drawing) \in Nat /\ Cardinality(Drawing') \in Nat
        /\ Cardinality(Drawing') <= Cardinality(Thread)
        /\ clock \in Nat /\ Cardinality(Thread) \in Nat /\ VERSION_MAX \in Nat
    BY <1>2, Finite, Bounds DEF Types
  <2>2. CASE clock' < VERSION_MAX
    BY <2>2
  <2>3. CASE clock' = clock /\ ((m \in Drawing)' => m \in Drawing)
    <3>1. Drawing' \subseteq Drawing
      BY <1>1, <1>2, <2>3
    <3>2. Cardinality(Drawing') <= Cardinality(Drawing)
      BY <1>2, <3>1, Finite, FS_Subset
    <3>3. QED
      BY <2>1, <2>3, <3>2 DEF Counts
  <2>4. CASE clock' = clock + 1 /\ m \in Drawing /\ ~(m \in Drawing)'
    <3>1. Drawing' = Drawing \ {m}
      BY <1>1, <1>2, <2>4
    <3>2. Cardinality(Drawing') = Cardinality(Drawing) - 1
      BY <1>2, <2>4, <3>1, OneMore
    <3>3. QED
      BY <2>1, <2>4, <3>2 DEF Counts
  <2>5. QED
    BY <2>2, <2>3, <2>4
<1>6. QED
  BY <1>3, <1>4, <1>5 DEF Counts

\* Whoever is inside keeps the process from exiting.
LEMMA NotExited ==
  ASSUME Counts, NEW m \in Thread, at[m].pc # "out"
  PROVE  ~exited /\ m \in Inside
  BY DEF Counts, Inside, At

\* gc_init_thread and stm_init_thread
LEMMA CountsInit ==
  ASSUME Types, Types', Counts, NEW m \in Thread,
         \/ InitThread(m) \/ LoadUsed(m) \/ TakeSlot(m) \/ CurrentEpoch(m) \/ LowerBound(m)
         \/ Enter(m)
  PROVE  Counts'
<1>1. CASE InitThread(m)
  <2>1. at[m].pc = "out" /\ at'[m].pc = "slot" /\ \A u \in Thread \ {m} : at'[u] = at[u]
    BY <1>1, Goes DEF InitThread, At
  <2>2. /\ m \notin Inside /\ (m \in Inside)' /\ m \notin Counted /\ ~(m \in Counted)'
        /\ ~(m \in Drawing)'
    BY <2>1 DEF Inside, Counted, Drawing, Before, InCall, At
  <2>3. ~exited' /\ nb_threads' = nb_threads + 1 /\ tx_count' = tx_count /\ clock' = clock
    BY <1>1 DEF InitThread, rollover
  <2>4. QED
    BY <2>1, <2>2, <2>3, CountsStep
<1>2. CASE LoadUsed(m) \/ TakeSlot(m) \/ CurrentEpoch(m) \/ LowerBound(m)
  <2>1. at[m].pc \in {"slot", "cas", "epoch", "bound"}
    BY <1>2 DEF LoadUsed, TakeSlot, CurrentEpoch, LowerBound, At
  <2>2. /\ at'[m].pc \in {"slot", "cas", "epoch", "bound", "enter"}
        /\ \A u \in Thread \ {m} : at'[u] = at[u]
    BY <1>2, Goes DEF LoadUsed, TakeSlot, CurrentEpoch, LowerBound, NextSlot, Go
  <2>3. /\ m \in Inside /\ (m \in Inside)' /\ m \notin Counted /\ ~(m \in Counted)'
        /\ ~(m \in Drawing)' /\ ~exited
    BY <2>1, <2>2, NotExited DEF Inside, Counted, Drawing, Before, InCall, At
  <2>4. exited' = exited /\ nb_threads' = nb_threads /\ tx_count' = tx_count /\ clock' = clock
    BY <1>2 DEF LoadUsed, TakeSlot, CurrentEpoch, LowerBound, rollover
  <2>5. QED
    BY <2>2, <2>3, <2>4, CountsStep
<1>3. CASE Enter(m)
  <2>1. at[m].pc = "enter" /\ at'[m].pc = "idle" /\ \A u \in Thread \ {m} : at'[u] = at[u]
    BY <1>3, Goes DEF Enter, At, Go
  <2>2. /\ m \in Inside /\ (m \in Inside)' /\ m \notin Counted /\ (m \in Counted)'
        /\ ~(m \in Drawing)' /\ ~exited
    BY <2>1, NotExited DEF Inside, Counted, Drawing, Before, InCall, At
  <2>3. exited' = exited /\ nb_threads' = nb_threads /\ tx_count' = tx_count + 1 /\ clock' = clock
    BY <1>3 DEF Enter
  <2>4. QED
    BY <2>1, <2>2, <2>3, CountsStep
<1>4. QED
  BY <1>1, <1>2, <1>3

\* gc_free
LEMMA CountsFree ==
  ASSUME Types, Types', Counts, NEW m \in Thread,
         GcFree(m) \/ Cleanup(m) \/ MinUsed(m) \/ MinTs(m) \/ Clean(m)
  PROVE  Counts'
<1>1. InCall(m) /\ at[m].after \in Steps
  BY ThreadIs, CallIs DEF GcFree, Cleanup, MinUsed, MinTs, Clean, At, InCall
<1>2. exited' = exited /\ nb_threads' = nb_threads /\ tx_count' = tx_count /\ clock' = clock
  BY DEF GcFree, Cleanup, MinUsed, MinTs, Clean, rollover
<1>3. /\ \A u \in Thread \ {m} : at'[u] = at[u]
      /\ \/ InCall(m)' /\ at'[m].after = at[m].after
         \/ at'[m].pc = at[m].after
  <2>1. CASE GcFree(m)
    <3>1. at[m] \in [pc : {"free", "cleanup"}, todo : SUBSET Addr, epoch : Time, after : Steps]
      BY <2>1, ThreadIs, CallIs DEF GcFree, At
    <3>2. PICK rest : Goto(m, [at[m] EXCEPT !.pc = "cleanup", !.todo = rest])
      BY <2>1 DEF GcFree
    <3>3. PICK d : d = [at[m] EXCEPT !.pc = "cleanup", !.todo = rest]
      OBVIOUS
    <3>4. d.pc = "cleanup" /\ d.after = at[m].after
      BY <3>1, <3>3
    <3>5. QED
      BY <3>2, <3>3, <3>4, Goes DEF InCall
  <2>2. CASE Cleanup(m)
    BY <2>2, Goes DEF Cleanup, InCall
  <2>3. CASE MinUsed(m)
    <3>1. at[m] \in [pc : {"used", "ts", "clean"}, todo : SUBSET Addr, epoch : Time,
                     after : Steps, min : Nat, i : Nat] /\ at[m].pc = "used"
      BY <2>3, ThreadIs, CallIs DEF MinUsed, At
    <3>2. PICK i : \/ Goto(m, [at[m] EXCEPT !.pc = "clean"]) \/ Goto(m, [at[m] EXCEPT !.pc = "ts"])
                   \/ Goto(m, [at[m] EXCEPT !.i = i])
      BY <2>3 DEF MinUsed
    <3>3. PICK d : /\ \/ d = [at[m] EXCEPT !.pc = "clean"] \/ d = [at[m] EXCEPT !.pc = "ts"]
                      \/ d = [at[m] EXCEPT !.i = i]
                   /\ Goto(m, d)
      BY <3>2
    <3>4. d.pc \in {"used", "ts", "clean"} /\ d.after = at[m].after
      BY <3>1, <3>3
    <3>5. QED
      BY <3>3, <3>4, Goes DEF InCall
  <2>4. CASE MinTs(m)
    <3>1. at[m] \in [pc : {"used", "ts", "clean"}, todo : SUBSET Addr, epoch : Time,
                     after : Steps, min : Nat, i : Nat]
      BY <2>4, ThreadIs, CallIs DEF MinTs, At
    <3>2. PICK i, min : Goto(m, [at[m] EXCEPT !.pc = "used", !.i = i, !.min = min])
      BY <2>4 DEF MinTs
    <3>3. PICK d : d = [at[m] EXCEPT !.pc = "used", !.i = i, !.min = min]
      OBVIOUS
    <3>4. d.pc = "used" /\ d.after = at[m].after
      BY <3>1, <3>3
    <3>5. QED
      BY <3>2, <3>3, <3>4, Goes DEF InCall
  <2>5. CASE Clean(m)
    <3>1. \/ Goto(m, [pc |-> at[m].after])
          \/ Goto(m, [pc |-> "free", todo |-> at[m].todo, epoch |-> at[m].epoch,
                      after |-> at[m].after])
      BY <2>5 DEF Clean, Go, Hand
    <3>2. QED
      BY <3>1, Goes DEF InCall
  <2>6. QED
    BY <2>1, <2>2, <2>3, <2>4, <2>5
<1>4. at[m].pc # "out" /\ at'[m].pc # "out"
  BY <1>1, <1>3 DEF InCall, Steps
<1>5. /\ (m \in Counted)' <=> m \in Counted
      /\ (m \in Drawing)' <=> m \in Drawing
  BY <1>1, <1>3 DEF Counted, Drawing, Before, InCall, At, Steps
<1>6. ~exited /\ m \in Inside /\ (m \in Inside)'
  BY <1>4, NotExited DEF Inside, At
<1>7. QED
  BY <1>2, <1>3, <1>5, <1>6, CountsStep

\* A transaction
LEMMA CountsTx ==
  ASSUME Types, Types', Counts, NEW m \in Thread,
         \/ StartTx(m) \/ SetEpoch(m) \/ Load(m) \/ StmMalloc(m) \/ StmFree(m) \/ Abort(m)
         \/ Commit(m) \/ OnCommit(m)
  PROVE  Counts'
<1>1. exited' = exited /\ nb_threads' = nb_threads /\ tx_count' = tx_count
  BY DEF StartTx, SetEpoch, Load, StmMalloc, StmFree, Abort, Commit, OnCommit, rollover
<1>2. at[m].pc \in {"idle", "start", "begin", "active", "on_commit"} /\ m \in Counted
  BY DEF StartTx, SetEpoch, Load, StmMalloc, StmFree, Abort, Commit, OnCommit, At, Counted,
     Before
<1>3. ~exited /\ m \in Inside
  BY <1>2, NotExited
<1>4. clock \in Nat /\ clock' \in Nat
  BY Bounds DEF Types
<1>5. CASE StartTx(m)
  <2>1. \/ Goto(m, [pc |-> "overflow"])
        \/ /\ Goto(m, [pc |-> "begin"])
              \/ Goto(m, [pc |-> "free", todo |-> tx[m].w_set, epoch |-> clock, after |-> "begin"])
           /\ ~(clock >= VERSION_MAX)
    BY <1>5 DEF StartTx, Go, Hand
  <2>2. /\ \A u \in Thread \ {m} : at'[u] = at[u]
        /\ \/ at'[m].pc = "overflow"
           \/ /\ at'[m].pc = "begin" \/ (at'[m].pc = "free" /\ at'[m].after = "begin")
              /\ ~(clock >= VERSION_MAX)
    BY <2>1, Goes
  <2>3. clock' = clock
    BY <1>5 DEF StartTx
  <2>4. (m \in Counted)' /\ (m \in Inside)' /\ ((m \in Drawing)' => clock' < VERSION_MAX)
    BY <1>4, <2>2, <2>3, Bounds DEF Counted, Inside, Drawing, Before, InCall, At
  <2>5. QED
    BY <1>1, <1>2, <1>3, <2>2, <2>3, <2>4, CountsStep
<1>6. CASE SetEpoch(m) \/ Load(m) \/ StmMalloc(m) \/ StmFree(m)
  <2>1. /\ \A u \in Thread \ {m} : at'[u] = at[u]
        /\ at'[m].pc = "active" /\ at[m].pc \in {"begin", "active"}
    BY <1>6, Goes DEF SetEpoch, Load, StmMalloc, StmFree, Go, At
  <2>2. clock' = clock
    BY <1>6 DEF SetEpoch, Load, StmMalloc, StmFree
  <2>3. (m \in Counted)' /\ (m \in Inside)' /\ m \in Drawing
    BY <2>1 DEF Counted, Inside, Drawing, Before, At
  <2>4. QED
    BY <1>1, <1>2, <1>3, <2>1, <2>2, <2>3, CountsStep
<1>7. CASE Abort(m) \/ Commit(m) \/ OnCommit(m)
  <2>1. \/ Goto(m, [pc |-> "idle"]) \/ Goto(m, [pc |-> "on_commit"])
        \/ Goto(m, [pc |-> "free", todo |-> tx[m].freed, epoch |-> clock, after |-> "idle"])
    BY <1>7 DEF Abort, Commit, OnCommit, Rollback, Go, Hand, Freed
  <2>2. /\ \A u \in Thread \ {m} : at'[u] = at[u]
        /\ \/ at'[m].pc \in {"idle", "on_commit"}
           \/ at'[m].pc = "free" /\ at'[m].after = "idle"
    BY <2>1, Goes
  <2>3. (m \in Counted)' /\ (m \in Inside)' /\ ~(m \in Drawing)'
    BY <2>2 DEF Counted, Inside, Drawing, Before, InCall, At
  <2>4. clock' = clock \/ (clock' = clock + 1 /\ m \in Drawing)
    BY <1>7 DEF Abort, Commit, OnCommit, Drawing
  <2>5. QED
    BY <1>1, <1>2, <1>3, <2>2, <2>3, <2>4, CountsStep
<1>8. QED
  BY <1>5, <1>6, <1>7

\* A rollover of the clock
LEMMA CountsReset ==
  ASSUME Types, Types', Counts, Sound, NEW m \in Thread, at[m].pc \in {"overflow", "idle"},
         tx_count = 1, NEW pc \in {"start", "exit"},
         GcReset([at EXCEPT ![m] = [pc |-> pc]]),
         tx_count' = IF pc = "start" THEN 1 ELSE 0, UNCHANGED <<nb_threads, exited>>
  PROVE  Counts'
<1>1. /\ at'[m] = [pc |-> pc] /\ clock' = 0
      /\ \A u \in Thread \ {m} : at'[u] = IF at[u].pc = "wait" THEN [pc |-> "woken"] ELSE at[u]
  BY ResetIs DEF Sound
<1>2. m \in Counted /\ Counted \in SUBSET Thread /\ Counted' \in SUBSET Thread
  BY DEF Counted, Before, At
<1>3. Counted = {m}
  BY <1>2, Alone
<1>4. ASSUME NEW u \in Thread \ {m} PROVE ~(u \in Counted)' /\ ((u \in Inside)' <=> u \in Inside)
  <2>1. u \notin Counted
    BY <1>3
  <2>2. CASE at[u].pc = "wait"
    BY <1>1, <2>2 DEF Counted, Inside, Before, InCall, At
  <2>3. CASE at[u].pc # "wait"
    BY <1>1, <2>1, <2>3 DEF Counted, Inside, Before, InCall, At
  <2>4. QED
    BY <2>2, <2>3
<1>5. tx_count' = Cardinality(Counted')
  <2>1. CASE pc = "start"
    <3>1. Counted' = {m}
      BY <1>1, <1>2, <1>4, <2>1 DEF Counted
    <3>2. QED
      BY <2>1, <3>1, FS_Singleton
  <2>2. CASE pc = "exit"
    <3>1. ~(m \in Counted)'
      BY <1>1, <2>2 DEF Counted, Before, InCall, At
    <3>2. Counted' = {}
      BY <1>2, <1>4, <3>1
    <3>3. QED
      BY <2>2, <3>2, FS_EmptySet
  <2>3. QED
    BY <2>1, <2>2
<1>6. nb_threads' = Cardinality(Inside')
  <2>1. m \in Inside /\ (m \in Inside)'
    BY <1>1 DEF Inside, At
  <2>2. Inside' = Inside
    BY <1>4, <2>1 DEF Inside
  <2>3. QED
    BY <2>2 DEF Counts
<1>7. clock' < VERSION_MAX
  BY <1>1, Bounds
<1>8. ~exited'
  BY NotExited
<1>9. QED
  BY <1>5, <1>6, <1>7, <1>8 DEF Counts

\* The end of a thread
LEMMA CountsExit ==
  ASSUME Types, Types', Counts, Sound, NEW m \in Thread,
         \/ Overflow(m) \/ WakeUp(m) \/ Exit(m) \/ FreeTx(m) \/ Leave(m) \/ Release(m)
  PROVE  Counts'
<1>1. CASE (Overflow(m) /\ tx_count # 1) \/ (Exit(m) /\ ~(tx_overflow /\ tx_count = 1))
  <2>1. /\ at[m].pc \in {"overflow", "idle"} /\ at'[m].pc \in {"wait", "exit"}
        /\ \A u \in Thread \ {m} : at'[u] = at[u]
    BY <1>1, Goes DEF Overflow, Exit, At, Go
  <2>2. /\ exited' = exited /\ nb_threads' = nb_threads /\ clock' = clock
        /\ tx_count' = tx_count - 1
    BY <1>1 DEF Overflow, Exit
  <2>3. /\ m \in Inside /\ (m \in Inside)' /\ m \in Counted /\ ~(m \in Counted)'
        /\ ~(m \in Drawing)' /\ ~exited
    BY <2>1, NotExited DEF Inside, Counted, Drawing, Before, InCall, At
  <2>4. QED
    BY <2>1, <2>2, <2>3, CountsStep
<1>2. CASE Overflow(m) /\ tx_count = 1
  <2>1. at[m].pc = "overflow"
    BY <1>2 DEF Overflow, At
  <2>2. /\ GcReset([at EXCEPT ![m] = [pc |-> "start"]]) /\ UNCHANGED <<nb_threads, exited>>
        /\ tx_count' = 1
    BY <1>2 DEF Overflow
  <2>3. QED
    BY <1>2, <2>1, <2>2, CountsReset
<1>3. CASE Exit(m) /\ tx_overflow /\ tx_count = 1
  <2>1. at[m].pc = "idle"
    BY <1>3 DEF Exit, At
  <2>2. /\ GcReset([at EXCEPT ![m] = [pc |-> "exit"]]) /\ UNCHANGED <<nb_threads, exited>>
        /\ tx_count' = 0
    BY <1>3 DEF Exit
  <2>3. QED
    BY <1>3, <2>1, <2>2, CountsReset
<1>4. CASE WakeUp(m)
  <2>1. at[m].pc = "woken" /\ at'[m].pc = "start" /\ \A u \in Thread \ {m} : at'[u] = at[u]
    BY <1>4, Goes DEF WakeUp, At, Go
  <2>2. /\ exited' = exited /\ nb_threads' = nb_threads /\ clock' = clock
        /\ tx_count' = tx_count + 1
    BY <1>4 DEF WakeUp
  <2>3. /\ m \in Inside /\ (m \in Inside)' /\ m \notin Counted /\ (m \in Counted)'
        /\ ~(m \in Drawing)' /\ ~exited
    BY <2>1, NotExited DEF Inside, Counted, Drawing, Before, InCall, At
  <2>4. QED
    BY <2>1, <2>2, <2>3, CountsStep
<1>5. CASE FreeTx(m) \/ Leave(m)
  <2>1. \/ Goto(m, [pc |-> "free", todo |-> tx[m].w_set, epoch |-> clock, after |-> "leave"])
        \/ Goto(m, [pc |-> "release"])
    BY <1>5 DEF FreeTx, Leave, Hand, Go
  <2>2. /\ at[m].pc \in {"exit", "leave"} /\ \A u \in Thread \ {m} : at'[u] = at[u]
        /\ at'[m].pc = "release" \/ (at'[m].pc = "free" /\ at'[m].after = "leave")
    BY <1>5, <2>1, Goes DEF FreeTx, Leave, At
  <2>3. exited' = exited /\ nb_threads' = nb_threads /\ clock' = clock /\ tx_count' = tx_count
    BY <1>5 DEF FreeTx, Leave, rollover
  <2>4. /\ m \in Inside /\ (m \in Inside)' /\ m \notin Counted /\ ~(m \in Counted)'
        /\ ~(m \in Drawing)' /\ ~exited
    BY <2>2, NotExited DEF Inside, Counted, Drawing, Before, InCall, At
  <2>5. QED
    BY <2>2, <2>3, <2>4, CountsStep
<1>6. CASE Release(m)
  <2>1. at[m].pc = "release" /\ at'[m].pc = "out" /\ \A u \in Thread \ {m} : at'[u] = at[u]
    BY <1>6, Goes DEF Release, At, Go
  <2>2. /\ exited' = exited /\ nb_threads' = nb_threads - 1 /\ clock' = clock
        /\ tx_count' = tx_count
    BY <1>6 DEF Release, rollover
  <2>3. /\ m \in Inside /\ ~(m \in Inside)' /\ m \notin Counted /\ ~(m \in Counted)'
        /\ ~(m \in Drawing)' /\ ~exited
    BY <2>1, NotExited DEF Inside, Counted, Drawing, Before, InCall, At
  <2>4. QED
    BY <2>1, <2>2, <2>3, CountsStep
<1>7. QED
  BY <1>1, <1>2, <1>3, <1>4, <1>5, <1>6

\* The end of the process
LEMMA CountsGcExit ==
  ASSUME Types, Counts, GcExit
  PROVE  Counts'
<1>1. UNCHANGED <<clock, tx_count, nb_threads, at>> /\ \A t \in Thread : at[t].pc = "out"
  BY DEF GcExit, At
<1>2. Counted' = Counted /\ Inside' = Inside /\ Drawing' = Drawing /\ Inside = {}
  BY <1>1 DEF Counted, Inside, Drawing, Before, InCall, At
<1>3. \A s \in Slot : threads'[s].regions = <<>>
  <2> SUFFICES ASSUME NEW s \in Slot PROVE threads'[s].regions = <<>>
    OBVIOUS
  <2>1. threads'[s] = [threads[s] EXCEPT !.regions = <<>>] /\ threads[s] \in SlotRecord
    BY SlotIs DEF GcExit
  <2>2. QED
    BY <2>1 DEF SlotRecord
<1>4. QED
  BY <1>1, <1>2, <1>3 DEF Counts

-----------------------------------------------------------------------------
(* The inductive invariant *)

LEMMA InitIInv ==
  ASSUME Init
  PROVE  IInv
<1>1. \A t \in Thread : at[t] = [pc |-> "out"]
  BY DEF Init
<1>2. \A t \in Thread :
        /\ tx[t].w_set = {} /\ tx[t].holds = {} /\ tx[t].allocated = {} /\ tx[t].freed = {}
        /\ tx[t] \in Descriptor
  <2>1. \A t \in Thread :
          tx[t] = [idx |-> 0, start |-> 0, w_set |-> {}, reallocate |-> FALSE, holds |-> {},
                   allocated |-> {}, freed |-> {}, starts |-> 0, lives |-> 0]
    BY DEF Init, None
  <2>2. 0 \in Time /\ (Thread # {} => 0 \in Slot)
    BY Bounds
  <2>3. Thread # {} => [idx |-> 0, start |-> 0, w_set |-> {}, reallocate |-> FALSE, holds |-> {},
                        allocated |-> {}, freed |-> {}, starts |-> 0, lives |-> 0] \in Descriptor
    BY <2>2 DEF Descriptor
  <2>4. QED
    BY <2>1, <2>3
<1>3. \A s \in Slot : threads[s] \in SlotRecord /\ threads[s].regions = <<>>
                      /\ threads[s].used = NULL
  <2>1. \A s \in Slot : threads[s] = [used |-> NULL, ts |-> EPOCH_MAX, regions |-> <<>>]
    BY DEF Init
  <2>2. EPOCH_MAX \in Epoch /\ <<>> \in Seq(Region)
    BY Bounds
  <2>3. [used |-> NULL, ts |-> EPOCH_MAX, regions |-> <<>>] \in SlotRecord
    BY <2>2 DEF SlotRecord
  <2>4. QED
    BY <2>1, <2>3
<1>4. Types
  <2>1. threads \in [Slot -> SlotRecord]
    BY <1>3 DEF Init
  <2>2. tx \in [Thread -> Descriptor]
    BY <1>2 DEF Init
  <2>3. [pc |-> "out"] \in Calls
    BY CallsAre DEF Plain
  <2>4. at \in [Thread -> Calls]
    BY <2>3 DEF Init
  <2>5. heap \subseteq Addr /\ linked \subseteq Addr
    BY GcAssumption DEF Init
  <2>6. QED
    BY <2>1, <2>2, <2>4, <2>5, Bounds DEF Init, Types
<1>5. \A t \in Thread : /\ ~Owns(t) /\ ~InCall(t) /\ ~At(t, "on_commit") /\ ~At(t, "active")
                        /\ t \notin Counted /\ t \notin Inside /\ t \notin Drawing
  BY <1>1 DEF Owns, InCall, At, Counted, Inside, Drawing, Before
<1>6. Counts
  <2>1. Counted = {} /\ Inside = {} /\ Drawing = {}
    BY <1>5 DEF Counted, Inside, Drawing
  <2>2. clock = 0 /\ clock < VERSION_MAX /\ tx_count = 0 /\ nb_threads = 0 /\ ~exited
    BY Bounds DEF Init
  <2>3. QED
    BY <2>1, <2>2, FS_EmptySet DEF Counts
<1>7. Slots
  BY <1>1, <1>3, <1>5 DEF Slots, At
<1>8. \A t \in Thread : Locals(t)
  BY <1>1, <1>2, <1>5 DEF Locals, At
<1>9. \A s \in Slot : Disjoint(threads[s].regions) /\ BlocksOf(threads[s].regions) = {}
  BY <1>3 DEF Disjoint, BlocksOf
<1>10. Here
  <2> DEFINE kind == [a \in Addr |-> IF a \in Start THEN "linked" ELSE "heap"]
             owner == [a \in Addr |-> 0]
  <2>1. kind \in [Addr -> Kinds] /\ owner \in [Addr -> Thread \cup Slot \cup {0}]
    BY DEF Kinds
  <2>2. \A t \in Thread : WSets[t] = {} /\ Allocs[t] = {} /\ Frees[t] = {} /\ Todos[t] = {}
    BY <1>2, <1>5 DEF WSets, Allocs, Frees, Todos
  <2>3. \A s \in Slot : Regs[s] = {}
    BY <1>9 DEF Regs
  <2>4. heap = Addr \ Start /\ linked = Start
    BY DEF Init
  <2>5. PlacedBy(kind, owner, heap, linked, WSets, Allocs, Frees, Todos, Regs)
    BY <2>2, <2>3, <2>4 DEF PlacedBy
  <2>6. QED
    BY <2>1, <2>5 DEF Here, Placed
<1>11. QED
  BY <1>2, <1>4, <1>6, <1>7, <1>8, <1>9, <1>10 DEF IInv, Sound

LEMMA NextIInv ==
  ASSUME IInv, Next
  PROVE  IInv'
<1>1. Types /\ Counts /\ Sound
  BY DEF IInv
<1>2. CASE GcExit
  <2>1. Types' /\ Counts'
    BY <1>1, <1>2, TypesGcExit, CountsGcExit
  <2>2. QED
    BY <1>1, <1>2, <2>1, SoundGcExit DEF IInv
<1>3. CASE ~GcExit
  <2>1. PICK t \in Thread :
          \/ InitThread(t) \/ LoadUsed(t) \/ TakeSlot(t) \/ CurrentEpoch(t) \/ LowerBound(t)
          \/ Enter(t) \/ GcFree(t) \/ Cleanup(t) \/ MinUsed(t) \/ MinTs(t) \/ Clean(t)
          \/ StartTx(t) \/ SetEpoch(t) \/ Load(t) \/ StmMalloc(t) \/ StmFree(t) \/ Abort(t)
          \/ Commit(t) \/ OnCommit(t) \/ Overflow(t) \/ WakeUp(t)
          \/ Exit(t) \/ FreeTx(t) \/ Leave(t) \/ Release(t)
    BY <1>3 DEF Next
  <2>2. CASE \/ InitThread(t) \/ LoadUsed(t) \/ TakeSlot(t) \/ CurrentEpoch(t) \/ LowerBound(t)
             \/ Enter(t)
    <3>1. Types'
      BY <1>1, <2>2, TypesInit
    <3>2. Counts'
      BY <1>1, <2>2, <3>1, CountsInit
    <3>3. Sound'
      BY <1>1, <2>2, <3>1, SoundInitThread, SoundLoadUsed, SoundTakeSlot, SoundCurrentEpoch,
         SoundEnter
    <3>4. QED
      BY <3>1, <3>2, <3>3 DEF IInv
  <2>3. CASE GcFree(t) \/ Cleanup(t) \/ MinUsed(t) \/ MinTs(t) \/ Clean(t)
    <3>1. Types'
      BY <1>1, <2>3, TypesFree
    <3>2. Counts'
      BY <1>1, <2>3, <3>1, CountsFree
    <3>3. Sound'
      BY <1>1, <2>3, <3>1, SoundGcFree, SoundCleanup, SoundMinUsed, SoundMinTs, SoundClean
    <3>4. QED
      BY <3>1, <3>2, <3>3 DEF IInv
  <2>4. CASE \/ StartTx(t) \/ SetEpoch(t) \/ Load(t) \/ StmMalloc(t) \/ StmFree(t) \/ Abort(t)
             \/ Commit(t) \/ OnCommit(t)
    <3>1. Types'
      BY <1>1, <2>4, TypesTx, TypesCommit
    <3>2. Counts'
      BY <1>1, <2>4, <3>1, CountsTx
    <3>3. Sound'
      BY <1>1, <2>4, <3>1, SoundStartTx, SoundSetEpoch, SoundLoad, SoundStmMalloc,
         SoundStmFree, SoundAbort, SoundCommit, SoundOnCommit
    <3>4. QED
      BY <3>1, <3>2, <3>3 DEF IInv
  <2>5. CASE Overflow(t) \/ WakeUp(t) \/ Exit(t) \/ FreeTx(t) \/ Leave(t) \/ Release(t)
    <3>1. Types'
      BY <1>1, <2>5, TypesExit
    <3>2. Counts'
      BY <1>1, <2>5, <3>1, CountsExit
    <3>3. Sound'
      BY <1>1, <2>5, <3>1, SoundOverflow, SoundFreeTx, SoundLeave, SoundRelease
    <3>4. QED
      BY <3>1, <3>2, <3>3 DEF IInv
  <2>6. QED
    BY <2>1, <2>2, <2>3, <2>4, <2>5
<1>4. QED
  BY <1>2, <1>3

LEMMA StutterIInv ==
  ASSUME IInv, UNCHANGED vars
  PROVE  IInv'
<1>1. UNCHANGED <<clock, tx_count, tx_overflow, threads, nb_threads, heap, linked, at, tx, exited,
                  raced>>
  BY DEF vars
<1>2. Types' /\ Counts'
  BY <1>1 DEF IInv, Types, Counts, Counted, Inside, Drawing, Before, InCall, At
<1>3. Slots' /\ \A t \in Thread : Locals(t)'
  BY <1>1 DEF IInv, Sound, Slots, Locals, Owns, Mine, Counted, Drawing, Before, InCall, At
<1>4. \A t \in Thread : \A a \in tx'[t].holds : Held(t, a)'
  BY <1>1 DEF IInv, Sound, Held, Elsewhere, Later, Met, Mine, Scans, InCall, At
<1>5. Here'
  BY <1>1 DEF IInv, Sound, Here, WSets, Allocs, Frees, Todos, Regs, InCall, At
<1>6. \A s \in Slot : Disjoint(threads'[s].regions)
  BY <1>1 DEF IInv, Sound
<1>7. QED
  BY <1>2, <1>3, <1>4, <1>5, <1>6 DEF IInv, Sound

\* What the invariant says of the blocks.
LEMMA IInvReclaims ==
  ASSUME IInv
  PROVE  Reclaims
<1>1. Types /\ Counts /\ Sound
  BY DEF IInv
<1>2. TypeOK
  <2>1. Counted \in SUBSET Thread /\ Cardinality(Thread) \in Nat
    BY Bounds DEF Counted
  <2>2. tx_count \in 0 .. Cardinality(Thread)
    BY <1>1, <2>1, Finite DEF Counts
  <2>3. \A s \in Slot :
          /\ threads[s].used \in {NULL, "BUSY", "FREE_EMPTY", "FREE_FULL"}
          /\ threads[s].ts \in Time \cup {EPOCH_MAX}
    BY <1>1, SlotIs DEF Epoch
  <2>4. QED
    BY <1>1, <2>2, <2>3 DEF TypeOK, Types, Counts, Inside
<1>3. OnePlace
  BY <1>1, OnePlaceIs DEF Sound, OnePlace
<1>4. NobodyHolds
  BY <1>1 DEF NobodyHolds, Sound, Held
<1>5. ASSUME exited PROVE heap \cup linked = Addr
  <2>1. \A t \in Thread : at[t].pc = "out" /\ Locals(t)
    BY <1>1, <1>5 DEF Counts, Inside, At, Sound
  <2>2. ASSUME NEW t \in Thread
        PROVE  WSets[t] = {} /\ Allocs[t] = {} /\ Frees[t] = {} /\ Todos[t] = {}
    BY <2>1 DEF WSets, Allocs, Frees, Todos, Locals, Counted, Before, InCall, At
  <2>3. \A s \in Slot : Regs[s] = {}
    BY <1>1, <1>5 DEF Counts, Regs, BlocksOf
  <2>4. PICK kind \in [Addr -> Kinds], owner \in [Addr -> Thread \cup Slot \cup {0}] :
          PlacedBy(kind, owner, heap, linked, WSets, Allocs, Frees, Todos, Regs)
    BY <1>1 DEF Sound, Here, Placed
  <2>5. \A a \in Addr : kind[a] = "heap" \/ kind[a] = "linked"
    BY <2>2, <2>3, <2>4 DEF PlacedBy, Kinds
  <2>6. Addr \subseteq heap \cup linked
    BY <2>4, <2>5 DEF PlacedBy
  <2>7. QED
    BY <1>1, <2>6 DEF Types
<1>6. QED
  BY <1>2, <1>3, <1>4, <1>5 DEF Reclaims

\* However many threads come and go, transactions run and clocks roll over: a block is
\* returned to malloc once, when no transaction holds it any more, and gc_exit returns
\* them all, as far as no gc_reset met a thread that was using its regions.
THEOREM ReclaimsAlways == Spec => []Reclaims
<1>1. Init => IInv
  BY InitIInv
<1>2. IInv /\ [Next]_vars => IInv'
  BY NextIInv, StutterIInv
<1>3. IInv => Reclaims
  BY IInvReclaims
<1>4. QED
  BY <1>1, <1>2, <1>3, PTL DEF Spec
=============================================================================
