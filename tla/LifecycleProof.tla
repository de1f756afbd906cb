--------------------------- MODULE LifecycleProof ---------------------------
(***************************************************************************)
(* Proofs about Lifecycle for any number of enclaves, any initial size and *)
(* any number of updates.                                                  *)
(*                                                                         *)
(* main goes through the enclaves in loops: where it is, and its index k,  *)
(* say of every enclave whether its helper and its application thread      *)
(* exist, and how far the reset of its index is.                           *)
(***************************************************************************)
EXTENDS Lifecycle, TLAPS, FiniteSetTheorems, WellFoundedInduction

\* The three loops whose body calls stop_helper.
Collecting == main \in {"collect", "reset"} \/ returnTo = "reset"
Waiting    == main \in {"wait", "restart"} \/ returnTo = "restart"
Cleaning   == main \in {"cleanup", "delete"} \/ returnTo = "delete"

\* The threads of enclave e that main has created and not joined yet.
HasHelper(e) ==
  \/ main = "start" /\ e < k
  \/ main = "populate"
  \/ Collecting /\ (e > k \/ (e = k /\ main # "reset"))
  \/ main = "rebuild" /\ e < k
  \/ Waiting /\ (e # k \/ main # "restart")
  \/ Measuring
  \/ Cleaning /\ (e > k \/ (e = k /\ main # "delete"))

HasApplication(e) ==
  \/ main = "populate" /\ e < k
  \/ Collecting /\ (e > k \/ (e = k /\ main = "collect"))
  \/ main = "apply" /\ e < k
  \/ main = "measure"
  \/ main = "results" /\ e >= k

\* How far the reset of index e is.
Unmarked(e) == main \in {"start", "populate"} \/ (Collecting /\ e >= k)
Marked(e)   == (Collecting /\ e < k) \/ (main = "rebuild" /\ e >= k)
Rebuilding(e) ==
  \/ main = "rebuild" /\ e < k
  \/ Waiting /\ (e > k \/ (e = k /\ main # "restart"))

\* The threads that exist, and what main knows of them.
ThreadsOf(e) ==
  /\ running[e] <=> HasHelper(e)
  /\ hpc[e] # "none" <=> HasHelper(e)
  /\ app[e] # "none" <=> HasApplication(e)
  /\ e \in deleted <=> (Cleaning /\ e < k) \/ main = "done"
  /\ e \in deleted => finished[e]

Threads ==
  /\ main \in {"stop", "join"} <=> returnTo # "none"
  /\ main = "measure" => k = 1
  /\ main = "join" => finished[k]
  /\ main = "delete" => finished[k]
  /\ \A e \in Enclave : ThreadsOf(e)

\* The helper has been created and has not tested reset_index yet.
Waking(e) == hpc[e] \in {"created", "reset"}

ResetOf(e) ==
  /\ Unmarked(e) => resets[e] = 0 /\ ~reset_index[e]
  /\ Marked(e) => resets[e] = 0 /\ reset_index[e]
  /\ Rebuilding(e) => IF Waking(e) THEN resets[e] = 0 /\ reset_index[e]
                                   ELSE resets[e] = 1 /\ ~reset_index[e]
  /\ ~Unmarked(e) /\ ~Marked(e) /\ ~Rebuilding(e) => resets[e] = 1 /\ ~reset_index[e]

Resets == \A e \in Enclave : ResetOf(e)

\* What the application threads have handed over.
Populating == main = "populate" \/ Collecting
Populated(e) ==
  main = "rebuild" \/ Waiting \/ (Collecting /\ ~HasApplication(e))

HandedOf(e) ==
  /\ main = "start" \/ (main = "populate" /\ e >= k) => published[e] = 0
  /\ Populating /\ HasApplication(e) =>
       /\ num_populate[e] = Share(e) /\ published[e] <= Share(e)
       /\ app[e] = "populating" \/ (app[e] = "returned" /\ published[e] = Share(e))
  /\ Populated(e) => published[e] = Share(e)

Handed == \A e \in Enclave : HandedOf(e)

\* The inductive invariant.
IInv == TypeOK /\ Threads /\ Resets /\ Handed
-----------------------------------------------------------------------------
(* Sums over the enclaves.                                                 *)

\* Every nonempty set of natural numbers has a least element.
LEMMA Least ==
  ASSUME NEW T \in SUBSET Nat, T # {}
  PROVE  \E x \in T : \A y \in T : x <= y
<1> DEFINE R == OpToRel(<, Nat)
<1>1. IsWellFoundedOn(R, Nat)
  BY NatLessThanWellFounded
<1>2. PICK x \in T : \A y \in T : ~(<<y, x>> \in R)
  <2> HIDE DEF R
  <2> QED
    BY <1>1, WFMin
<1>3. \A y \in T : y < x => <<y, x>> \in R
  BY DEF OpToRel
<1>4. \A y \in T : x \in Nat /\ y \in Nat /\ ~(y < x)
  <2> HIDE DEF R
  <2> QED
    BY <1>2, <1>3
<1>5. QED
  BY <1>4

\* A function of the subsets of S that grows by h[x] with each x is the sum.
LEMMA SumIs ==
  ASSUME NEW S, IsFiniteSet(S), NEW h \in [S -> Int], NEW g \in [SUBSET S -> Int],
         g[{}] = 0, \A s \in SUBSET S : \A x \in s : g[s] = h[x] + g[s \ {x}]
  PROVE  MapThenSumSet(LAMBDA e : h[e], S) = g[S]
<1> DEFINE first(s) == CHOOSE x \in s : TRUE
           Next1(f) == [s \in SUBSET S |->
                          IF s = {} THEN 0 ELSE h[first(s)] + f[s \ {first(s)}]]
           sums == CHOOSE f : f = Next1(f)
<1>1. \A s \in SUBSET S : s # {} => first(s) \in s
  OBVIOUS
<1>2. g = Next1(g)
  BY <1>1
<1>3. sums = Next1(sums)
  <2>1. \E f : f = Next1(f)
    BY <1>2
  <2>2. QED
    BY ONLY <2>1, Zenon
<1>4. MapThenSumSet(LAMBDA e : h[e], S) = sums[S]
  BY DEF MapThenSumSet, MapThenFoldSet
<1> DEFINE T == {n \in Nat : \E s \in SUBSET S : Cardinality(s) = n /\ sums[s] # g[s]}
<1>5. T = {}
  <2> HIDE DEF sums
  <2> SUFFICES ASSUME T # {} PROVE FALSE
    OBVIOUS
  <2>1. PICK n \in T : \A i \in T : n <= i
    <3> HIDE DEF T
    <3>1. T \in SUBSET Nat
      BY DEF T
    <3>2. QED
      BY <3>1, Least
  <2>2. PICK s \in SUBSET S : Cardinality(s) = n /\ sums[s] # g[s]
    BY <2>1
  <2>3. s # {}
    BY <2>2, <1>3
  <2> DEFINE x == first(s)
  <2>4. x \in s /\ sums[s] = h[x] + sums[s \ {x}]
    BY <2>3, <1>1, <1>3
  <2> HIDE DEF x
  <2>5. IsFiniteSet(s) /\ n \in Nat
    BY FS_Subset, <2>1
  <2>6. Cardinality(s \ {x}) = n - 1 /\ Cardinality(s \ {x}) \in Nat /\ s \ {x} \in SUBSET S
    BY <2>2, <2>4, <2>5, FS_RemoveElement, FS_CardinalityType
  <2>7. n - 1 \notin T
    BY <2>1, <2>5
  <2>8. sums[s \ {x}] = g[s \ {x}]
    BY <2>6, <2>7
  <2>9. QED
    BY <2>2, <2>4, <2>8
<1>6. sums[S] = g[S]
  <2> HIDE DEF sums
  <2>1. Cardinality(S) \in Nat
    BY FS_CardinalityType
  <2>2. QED
    BY <1>5, <2>1
<1>7. QED
  BY <1>4, <1>6

\* initial is d for each enclave, and one more for the first m.
LEMMA Division ==
  ASSUME initial \in Nat
  PROVE  d \in Nat /\ m \in Nat /\ m < NbThreads /\ initial = d * NbThreads + m
  BY ThreadsAssumption DEF d, m

LEMMA EnclavesFinite == IsFiniteSet(Enclave) /\ Cardinality(Enclave) = NbThreads
  BY ThreadsAssumption, FS_Interval DEF Enclave

\* The shares add up to the initial size.
LEMMA SharesAddUp ==
  ASSUME initial \in Nat, published \in [Enclave -> Nat],
         \A e \in Enclave : published[e] = Share(e)
  PROVE  MapThenSumSet(LAMBDA e : published[e], Enclave) = initial
<1> DEFINE First(s) == {e \in s : e <= m}
           g == [s \in SUBSET Enclave |-> d * Cardinality(s) + Cardinality(First(s))]
<1>1. d \in Nat /\ m \in Nat /\ m < NbThreads /\ initial = d * NbThreads + m
  BY Division
<1>2. \A s \in SUBSET Enclave :
        /\ IsFiniteSet(s) /\ Cardinality(s) \in Nat
        /\ IsFiniteSet(First(s)) /\ Cardinality(First(s)) \in Nat
  BY EnclavesFinite, FS_Subset, FS_CardinalityType
<1>3. g \in [SUBSET Enclave -> Int]
  <2>1. \A c, f \in Nat : d * c + f \in Int
    BY <1>1
  <2> HIDE DEF First
  <2>2. QED
    BY <1>2, <2>1
<1>4. g[{}] = 0
  <2>1. First({}) = {}
    OBVIOUS
  <2>2. QED
    BY <1>1, <2>1, FS_EmptySet
<1>5. ASSUME NEW s \in SUBSET Enclave, NEW x \in s
      PROVE  g[s] = published[x] + g[s \ {x}]
  <2>1. Cardinality(s \ {x}) = Cardinality(s) - 1 /\ s \ {x} \in SUBSET Enclave
    BY <1>2, FS_RemoveElement
  <2>2. First(s \ {x}) = First(s) \ {x}
    OBVIOUS
  <2>3. Cardinality(First(s \ {x}))
          = IF x <= m THEN Cardinality(First(s)) - 1 ELSE Cardinality(First(s))
    BY <1>2, <2>2, FS_RemoveElement
  <2>4. published[x] = IF x <= m THEN d + 1 ELSE d
    BY DEF Share
  <2> DEFINE c == Cardinality(s)
             f == Cardinality(First(s))
             f1 == Cardinality(First(s \ {x}))
  <2>5. g[s] = d * c + f /\ g[s \ {x}] = d * (c - 1) + f1
    BY <2>1
  <2>6. c \in Nat /\ f \in Nat
    BY <1>2
  <2> HIDE DEF g, c, f, f1, First
  <2>7. d * (c - 1) = d * c - d /\ d * c \in Int
    BY <2>6, <1>1
  <2>8. f1 = IF x <= m THEN f - 1 ELSE f
    BY <2>3 DEF f, f1
  <2>9. QED
    BY <1>1, <2>4, <2>5, <2>6, <2>7, <2>8
<1>6. g[Enclave] = initial
  <2>1. First(Enclave) = 1 .. m
    BY <1>1, ThreadsAssumption DEF Enclave
  <2>2. Cardinality(First(Enclave)) = m
    <3>1. Cardinality(1 .. m) = m
      BY <1>1, FS_Interval
    <3>2. QED
      BY <2>1, <3>1
  <2>3. QED
    BY <1>1, <2>2, EnclavesFinite
<1> HIDE DEF g
<1>7. published \in [Enclave -> Int]
  OBVIOUS
<1>8. QED
  BY <1>3, <1>4, <1>5, <1>6, <1>7, EnclavesFinite, SumIs
-----------------------------------------------------------------------------
LEMMA InitInv == Init => IInv
<1> SUFFICES ASSUME Init PROVE IInv
  OBVIOUS
<1> USE ThreadsAssumption DEF Init, Enclave
<1>1. TypeOK
  <2>1. {running, finished, reset_index, populate_init, update_all}
          \subseteq [Enclave -> BOOLEAN]
    OBVIOUS
  <2>2. {num_populate, published, applied, level, resets} \subseteq [Enclave -> Nat]
    OBVIOUS
  <2>3. /\ app \in [Enclave -> {"none", "populating", "applying", "returned"}]
        /\ hpc \in [Enclave -> {"none", "created", "reset", "test", "drain", "index", "returned"}]
    OBVIOUS
  <2>4. main \in Places /\ k \in Enclave /\ stop \in BOOLEAN /\ deleted \subseteq Enclave
    <3>1. 1 \in Enclave
      BY ThreadsAssumption
    <3>2. QED
      BY <3>1 DEF Places
  <2>5. initial \in Initial /\ returnTo \in {"none", "reset", "restart", "delete"}
    OBVIOUS
  <2>6. QED
    BY ONLY <2>1, <2>2, <2>3, <2>4, <2>5 DEF TypeOK
<1>2. Threads
  BY DEF Threads, ThreadsOf, HasHelper, HasApplication, Collecting, Waiting, Cleaning,
     Measuring
<1>3. Resets
  BY DEF Resets, ResetOf, Unmarked, Marked, Rebuilding, Waiting, Collecting
<1>4. Handed
  BY DEF Handed, HandedOf, Populating, Populated, Waiting, Collecting
<1>5. QED
  BY <1>1, <1>2, <1>3, <1>4 DEF IInv

-----------------------------------------------------------------------------
(* Steps of the threads: main and its loop index stay where they are.      *)

\* A round raises the level by two at most.
LEMMA RoundRaises ==
  ASSUME NEW e \in Enclave, level[e] \in Nat
  PROVE  NewLevel(e) \subseteq Nat
<1> DEFINE l == level[e]
<1>1. l \in Levels(e) /\ \A x \in Levels(e) : x \in {l, l + 1, l + 2}
  BY DEF Levels
<1>2. \E x \in Levels(e) : \A y \in Levels(e) : x >= y
  <2>1. CASE l + 2 \in Levels(e)
    BY <1>1, <2>1
  <2>2. CASE l + 2 \notin Levels(e) /\ l + 1 \in Levels(e)
    BY <1>1, <2>2
  <2>3. CASE l + 2 \notin Levels(e) /\ l + 1 \notin Levels(e)
    BY <1>1, <2>3
  <2>4. QED
    BY <2>1, <2>2, <2>3
<1>3. Max(Levels(e)) \in Levels(e)
  BY <1>2 DEF Max
<1>4. QED
  BY <1>1, <1>3 DEF NewLevel

\* What a step of a helper changes.
LEMMA HelperIs ==
  ASSUME TypeOK, NEW e \in Enclave, Helper(e)
  PROVE  /\ UNCHANGED <<initial, running, finished, populate_init, appVars, mainVars, stop,
                        deleted>>
         /\ {update_all', reset_index'} \subseteq [Enclave -> BOOLEAN]
         /\ {applied', level', resets'} \subseteq [Enclave -> Nat]
         /\ \E p \in {"reset", "test", "drain", "index", "returned"} :
              /\ hpc[e] # "none" /\ hpc' = [hpc EXCEPT ![e] = p]
              /\ \/ /\ (hpc[e] = "created" /\ p = "reset") \/ (~Waking(e) /\ p # "reset")
                    /\ UNCHANGED <<reset_index, resets>>
                 \/ /\ hpc[e] = "reset" /\ p = "test"
                    /\ reset_index' = [reset_index EXCEPT ![e] = FALSE]
                    /\ resets' = IF reset_index[e] THEN [resets EXCEPT ![e] = @ + 1] ELSE resets
<1> USE DEF flags, appVars, hlpVars, mainVars, TypeOK, Waking
<1>1. CASE HelperStart(e)
  BY <1>1 DEF HelperStart
<1>2. CASE HelperReset(e)
  <2>1. reset_index' = [reset_index EXCEPT ![e] = FALSE]
    BY <1>2 DEF HelperReset
  <2>2. resets' = IF reset_index[e] THEN [resets EXCEPT ![e] = @ + 1] ELSE resets
    BY <1>2 DEF HelperReset
  <2>3. level' \in [Enclave -> Nat]
    BY <1>2 DEF HelperReset
  <2>4. resets' \in [Enclave -> Nat] /\ reset_index' \in [Enclave -> BOOLEAN]
    BY <2>1, <2>2
  <2>5. /\ hpc[e] = "reset" /\ hpc' = [hpc EXCEPT ![e] = "test"]
        /\ UNCHANGED <<initial, running, finished, populate_init, appVars, mainVars, stop,
                       deleted, update_all, applied>>
    BY <1>2 DEF HelperReset
  <2>6. QED
    BY <2>1, <2>2, <2>3, <2>4, <2>5
<1>3. CASE HelperTest(e)
  BY <1>3 DEF HelperTest
<1>4. CASE HelperDrain(e)
  <2>1. applied' \in [Enclave -> Nat]
    BY <1>4 DEF HelperDrain
  <2>2. \/ hpc' = hpc /\ hpc' = [hpc EXCEPT ![e] = "drain"]
        \/ hpc' = [hpc EXCEPT ![e] = "index"]
    BY <1>4 DEF HelperDrain
  <2>3. QED
    BY <1>4, <2>1, <2>2 DEF HelperDrain
<1>5. CASE HelperRound(e)
  <2>1. level' \in [Enclave -> Nat]
    BY <1>5, RoundRaises DEF HelperRound
  <2>2. QED
    BY <1>5, <2>1 DEF HelperRound
<1>6. QED
  BY <1>1, <1>2, <1>3, <1>4, <1>5 DEF Helper

LEMMA HelperStep == ASSUME IInv, NEW e \in Enclave, Helper(e) PROVE IInv'
<1>1. TypeOK /\ Threads /\ Resets /\ Handed
  BY DEF IInv
<1>2. TypeOK'
  BY <1>1, HelperIs DEF TypeOK, appVars, mainVars
<1>3. Threads'
  BY <1>1, HelperIs DEF Threads, ThreadsOf, TypeOK, appVars, mainVars, HasHelper,
     HasApplication, Collecting, Waiting, Cleaning, Measuring
<1>4. Resets'
  <2>1. \A u \in Enclave : /\ Unmarked(u)' = Unmarked(u) /\ Marked(u)' = Marked(u)
                           /\ Rebuilding(u)' = Rebuilding(u)
    BY <1>1, HelperIs DEF Unmarked, Marked, Rebuilding, Waiting, Collecting, mainVars
  <2>2. ~Marked(e)
    <3>1. HasHelper(e) /\ e \in Int /\ k \in Int
      BY <1>1, HelperIs DEF Threads, ThreadsOf, TypeOK, Enclave
    <3>2. QED
      BY <1>1, <3>1 DEF Threads, ThreadsOf, TypeOK, Marked, HasHelper, Waiting, Collecting,
         Cleaning, Measuring
  <2>3. QED
    BY <1>1, <2>1, <2>2, HelperIs DEF Resets, ResetOf, TypeOK, Waking
<1>5. Handed'
  BY <1>1, HelperIs DEF Handed, HandedOf, Populating, Populated, Waiting, Collecting,
     HasApplication, Share, d, m, appVars, mainVars
<1>6. QED
  BY <1>2, <1>3, <1>4, <1>5 DEF IInv

LEMMA ApplicationStep == ASSUME IInv, NEW e \in Enclave, Application(e) PROVE IInv'
<1> USE DEF flags, appVars, hlpVars, mainVars
<1>1. TypeOK /\ Threads /\ Resets /\ Handed
  BY DEF IInv
<1>2. /\ UNCHANGED <<num_populate, initial, flags, hlpVars, mainVars, stop, deleted, resets>>
      /\ app[e] # "none"
      /\ \E a \in {"populating", "applying", "returned"} : app' = [app EXCEPT ![e] = a]
      /\ published' = published \/ published' = [published EXCEPT ![e] = @ + 1]
  BY <1>1 DEF Application, PopulateOne, ApplyOne, SeeStop, TypeOK
<1>3. TypeOK'
  BY <1>1, <1>2 DEF TypeOK
<1>4. Threads'
  BY <1>1, <1>2 DEF Threads, ThreadsOf, TypeOK, HasHelper, HasApplication,
     Collecting, Waiting, Cleaning, Measuring
<1>5. Resets'
  BY <1>1, <1>2 DEF Resets, ResetOf, Unmarked, Marked, Rebuilding, Waiting, Collecting,
     Waking
<1>6. Handed'
  <2>1. /\ HasApplication(e)
        /\ \A u \in Enclave : /\ HasApplication(u)' = HasApplication(u)
                              /\ Populated(u)' = Populated(u) /\ Share(u)' = Share(u)
        /\ Populating' = Populating
    BY <1>1, <1>2 DEF Threads, ThreadsOf, HasApplication, Populated, Populating, Waiting,
       Collecting, Share, d, m
  <2>2. CASE Populating
    <3>1. PopulateOne(e)
      BY <1>1, <2>1, <2>2 DEF Handed, HandedOf, Application, ApplyOne, SeeStop
    <3>2. Share(e) \in Nat
      BY <1>1, Division, BoundAssumption DEF Share, TypeOK
    <3>3. /\ app[e] = "populating" /\ published[e] <= Share(e) /\ num_populate[e] = Share(e)
          /\ main # "start" /\ (main = "populate" => e < k) /\ ~Populated(e)
      BY <1>1, <2>1, <2>2, <3>1 DEF Handed, HandedOf, PopulateOne, Populated, Populating,
         HasApplication, Waiting, Collecting, Threads, ThreadsOf
    <3>4. /\ published'[e] <= Share(e)
          /\ app'[e] = "populating" \/ (app'[e] = "returned" /\ published'[e] = Share(e))
      <4>1. CASE published[e] < num_populate[e]
        BY <1>1, <3>1, <3>2, <3>3, <4>1 DEF PopulateOne, TypeOK
      <4>2. CASE ~(published[e] < num_populate[e])
        BY <1>1, <3>1, <3>2, <3>3, <4>2 DEF PopulateOne, TypeOK
      <4>3. QED
        BY <4>1, <4>2
    <3>5. /\ \A u \in Enclave \ {e} : app'[u] = app[u] /\ published'[u] = published[u]
          /\ num_populate' = num_populate /\ main' = main /\ k' = k
      BY <1>1, <1>2 DEF TypeOK
    <3>6. ASSUME NEW u \in Enclave, HasApplication(u)
          PROVE  /\ num_populate'[u] = Share(u) /\ published'[u] <= Share(u)
                 /\ app'[u] = "populating" \/ (app'[u] = "returned" /\ published'[u] = Share(u))
      <4>1. CASE u = e
        BY <3>3, <3>4, <3>5, <4>1
      <4>2. CASE u # e
        BY <1>1, <2>2, <3>5, <3>6, <4>2 DEF Handed, HandedOf
      <4>3. QED
        BY <4>1, <4>2
    <3>7. ASSUME NEW u \in Enclave
          PROVE  /\ main' = "start" \/ (main' = "populate" /\ u >= k') => published'[u] = 0
                 /\ Populated(u) => published'[u] = Share(u)
      <4>1. CASE u = e
        <5>1. e \in Int /\ k \in Int
          BY <1>1 DEF TypeOK, Enclave
        <5>2. QED
          BY <3>3, <3>5, <4>1, <5>1
      <4>2. CASE u # e
        BY <1>1, <3>5, <4>2 DEF Handed, HandedOf
      <4>3. QED
        BY <4>1, <4>2
    <3>8. QED
      BY <2>1, <3>6, <3>7 DEF Handed, HandedOf
  <2>3. CASE ~Populating
    <3>1. ~Populated(e) /\ main # "start"
      BY <2>1, <2>3, <1>1 DEF HasApplication, Populated, Populating, Collecting, Waiting,
         Threads, ThreadsOf
    <3>2. QED
      BY <1>1, <1>2, <2>1, <2>3, <3>1 DEF Handed, HandedOf, Populating, TypeOK
  <2>4. QED
    BY <2>2, <2>3
<1>7. QED
  BY <1>3, <1>4, <1>5, <1>6 DEF IInv
-----------------------------------------------------------------------------
(* Steps of main.                                                         *)

LEMMA Positions ==
  /\ NbThreads \in Nat /\ NbThreads > 1 /\ 1 \in Enclave
  /\ \A e \in Enclave : e \in Int /\ 1 <= e /\ e <= NbThreads
  BY ThreadsAssumption DEF Enclave

\* A loop of main goes on with the next enclave, or ends after the last.
LEMMA ContinueIs ==
  ASSUME k \in Enclave, NEW here, NEW done, Continue(here, done)
  PROVE  /\ k' \in Enclave
         /\ \/ k = NbThreads /\ main' = done /\ k' = 1
            \/ k < NbThreads /\ main' = here /\ k' = k + 1
  BY ThreadsAssumption DEF Continue, Enclave

\* The helper that start_helper is called for is not running.
LEMMA StartHelperIs ==
  ASSUME TypeOK, Threads, NEW here \in {"start", "rebuild", "restart"}, NEW next,
         NEW pop_all \in BOOLEAN, StartHelper(here, pop_all, next)
  PROVE  /\ main = here
         /\ Continue(IF here = "restart" THEN "wait" ELSE here, next)
         /\ UNCHANGED <<reset_index, update_all, applied, level, returnTo, initial, appVars,
                        stop, deleted, resets>>
         /\ {running', finished', populate_init'} \subseteq [Enclave -> BOOLEAN]
         /\ hpc' \in [Enclave ->
              {"none", "created", "reset", "test", "drain", "index", "returned"}]
         /\ running'[k] /\ ~finished'[k] /\ hpc'[k] = "created"
         /\ \A e \in Enclave \ {k} :
              running'[e] = running[e] /\ finished'[e] = finished[e] /\ hpc'[e] = hpc[e]
<1>1. main = here /\ k \in Enclave
  BY DEF StartHelper, TypeOK
<1>2. ~running[k]
  <2>1. k \in Int
    BY <1>1, Positions
  <2>2. returnTo = "none"
    BY <1>1 DEF Threads, ThreadsOf
  <2>3. ~HasHelper(k)
    BY <1>1, <2>1, <2>2 DEF HasHelper, Collecting, Waiting, Cleaning, Measuring
  <2>4. QED
    BY <1>1, <2>3 DEF Threads, ThreadsOf
<1>3. /\ populate_init' = [populate_init EXCEPT ![k] = pop_all]
      /\ running' = [running EXCEPT ![k] = TRUE]
      /\ finished' = [finished EXCEPT ![k] = FALSE]
      /\ hpc' = [hpc EXCEPT ![k] = "created"]
  BY <1>2 DEF StartHelper, CreateHelper
<1>4. /\ main = here
      /\ Continue(IF here = "restart" THEN "wait" ELSE here, next)
      /\ UNCHANGED <<reset_index, update_all, applied, level, returnTo, initial, appVars,
                     stop, deleted, resets>>
  BY DEF StartHelper
<1>5. /\ {running', finished', populate_init'} \subseteq [Enclave -> BOOLEAN]
      /\ hpc' \in [Enclave ->
           {"none", "created", "reset", "test", "drain", "index", "returned"}]
  BY <1>1, <1>3 DEF TypeOK
<1>6. /\ running'[k] /\ ~finished'[k] /\ hpc'[k] = "created"
      /\ \A e \in Enclave \ {k} :
           running'[e] = running[e] /\ finished'[e] = finished[e] /\ hpc'[e] = hpc[e]
  BY <1>1, <1>3 DEF TypeOK
<1>7. QED
  BY ONLY <1>4, <1>5, <1>6

\* The loops of main over the application threads, the flags and the enclaves.
LEMMA LoopIs ==
  ASSUME TypeOK
  PROVE  /\ PopulateBegin =>
              /\ num_populate' \in [Enclave -> Nat]
              /\ app' \in [Enclave -> {"none", "populating", "applying", "returned"}]
              /\ num_populate'[k] = Share(k) /\ app'[k] = "populating"
              /\ \A e \in Enclave \ {k} : num_populate'[e] = num_populate[e] /\ app'[e] = app[e]
         /\ ResetIndexLayer =>
              /\ reset_index' \in [Enclave -> BOOLEAN] /\ reset_index'[k]
              /\ \A e \in Enclave \ {k} : reset_index'[e] = reset_index[e]
         /\ StartApplication =>
              /\ app' \in [Enclave -> {"none", "populating", "applying", "returned"}]
              /\ app'[k] = "applying" /\ \A e \in Enclave \ {k} : app'[e] = app[e]
         /\ StopApplication =>
              /\ app' \in [Enclave -> {"none", "populating", "applying", "returned"}]
              /\ app'[k] = "none" /\ \A e \in Enclave \ {k} : app'[e] = app[e]
         /\ Delete => deleted' \subseteq Enclave
<1>1. ASSUME PopulateBegin
      PROVE  /\ num_populate' \in [Enclave -> Nat]
             /\ app' \in [Enclave -> {"none", "populating", "applying", "returned"}]
             /\ num_populate'[k] = Share(k) /\ app'[k] = "populating"
             /\ \A e \in Enclave \ {k} : num_populate'[e] = num_populate[e] /\ app'[e] = app[e]
  <2>1. Share(k) \in Nat
    BY Division, BoundAssumption DEF Share, TypeOK
  <2>2. QED
    BY <1>1, <2>1 DEF PopulateBegin, TypeOK
<1>2. QED
  BY <1>1 DEF TypeOK, ResetIndexLayer, StartApplication, StopApplication, Delete

LEMMA StartStep == IInv /\ StartHelper("start", TRUE, "populate") => IInv'
<1> SUFFICES ASSUME TypeOK, Threads, Resets, Handed, StartHelper("start", TRUE, "populate")
             PROVE  IInv'
  BY DEF IInv
<1> USE Positions DEF appVars, hlpVars, mainVars, flags
<1>1. /\ main = "start" /\ Continue("start", "populate") /\ k \in Enclave
      /\ UNCHANGED <<reset_index, update_all, applied, level, returnTo, initial, appVars,
                     stop, deleted, resets>>
      /\ {running', finished', populate_init'} \subseteq [Enclave -> BOOLEAN]
      /\ hpc' \in [Enclave ->
           {"none", "created", "reset", "test", "drain", "index", "returned"}]
      /\ running'[k] /\ ~finished'[k] /\ hpc'[k] = "created"
      /\ \A e \in Enclave \ {k} :
           running'[e] = running[e] /\ finished'[e] = finished[e] /\ hpc'[e] = hpc[e]
  BY StartHelperIs DEF TypeOK
<1>2. /\ k' \in Enclave
      /\ \/ k = NbThreads /\ main' = "populate" /\ k' = 1
         \/ k < NbThreads /\ main' = "start" /\ k' = k + 1
  BY <1>1, ContinueIs
<1>3. TypeOK'
  BY <1>1, <1>2 DEF TypeOK, Places
<1>4. /\ main \in {"stop", "join"} <=> returnTo # "none"
      /\ (main \in {"stop", "join"} <=> returnTo # "none")'
      /\ (main = "measure" => k = 1)' /\ (main = "join" => finished[k])'
      /\ (main = "delete" => finished[k])'
  BY <1>1, <1>2 DEF Threads
<1>5. ASSUME NEW e \in Enclave PROVE ThreadsOf(e)'
  <2>1. ThreadsOf(e) /\ ThreadsOf(e) /\ e \in Int /\ 1 <= e /\ e <= NbThreads /\ k \in Int
    BY <1>1, <1>4, Positions DEF Threads
  <2>2. CASE k = NbThreads
    BY ONLY <1>1, <1>2, <1>4, <1>5, <2>1, <2>2 DEF TypeOK, ThreadsOf,
       HasHelper, HasApplication, Collecting, Waiting, Cleaning, Measuring
  <2>3. CASE k < NbThreads
    BY ONLY <1>1, <1>2, <1>4, <1>5, <2>1, <2>3 DEF TypeOK, ThreadsOf,
       HasHelper, HasApplication, Collecting, Waiting, Cleaning, Measuring
  <2>4. QED
    BY <1>2, <2>2, <2>3
<1>6. ASSUME NEW e \in Enclave PROVE ResetOf(e)'
  <2>1. ResetOf(e) /\ ThreadsOf(e) /\ e \in Int /\ 1 <= e /\ e <= NbThreads /\ k \in Int
    BY <1>1, <1>4, Positions DEF Threads, Resets
  <2>2. CASE k = NbThreads
    BY ONLY <1>1, <1>2, <1>4, <1>6, <2>1, <2>2 DEF TypeOK, ThreadsOf, ResetOf,
       Unmarked, Marked, Rebuilding, Waking, HasHelper, HasApplication,
       Collecting, Waiting, Cleaning, Measuring
  <2>3. CASE k < NbThreads
    BY ONLY <1>1, <1>2, <1>4, <1>6, <2>1, <2>3 DEF TypeOK, ThreadsOf, ResetOf,
       Unmarked, Marked, Rebuilding, Waking, HasHelper, HasApplication,
       Collecting, Waiting, Cleaning, Measuring
  <2>4. QED
    BY <1>2, <2>2, <2>3
<1>7. ASSUME NEW e \in Enclave PROVE HandedOf(e)'
  <2>1. HandedOf(e) /\ ThreadsOf(e) /\ e \in Int /\ 1 <= e /\ e <= NbThreads /\ k \in Int
    BY <1>1, <1>4, Positions DEF Threads, Handed
  <2>2. CASE k = NbThreads
    BY ONLY <1>1, <1>2, <1>4, <1>7, <2>1, <2>2 DEF TypeOK, ThreadsOf, HandedOf,
       Populating, Populated, Share, d, m, HasHelper, HasApplication,
       Collecting, Waiting, Cleaning, Measuring
  <2>3. CASE k < NbThreads
    BY ONLY <1>1, <1>2, <1>4, <1>7, <2>1, <2>3 DEF TypeOK, ThreadsOf, HandedOf,
       Populating, Populated, Share, d, m, HasHelper, HasApplication,
       Collecting, Waiting, Cleaning, Measuring
  <2>4. QED
    BY <1>2, <2>2, <2>3
<1>8. QED
  BY <1>3, <1>4, <1>5, <1>6, <1>7 DEF IInv, Threads, Resets, Handed

LEMMA RebuildStep == IInv /\ StartHelper("rebuild", TRUE, "wait") => IInv'
<1> SUFFICES ASSUME TypeOK, Threads, Resets, Handed, StartHelper("rebuild", TRUE, "wait")
             PROVE  IInv'
  BY DEF IInv
<1> USE Positions DEF appVars, hlpVars, mainVars, flags
<1>1. /\ main = "rebuild" /\ Continue("rebuild", "wait") /\ k \in Enclave
      /\ UNCHANGED <<reset_index, update_all, applied, level, returnTo, initial, appVars,
                     stop, deleted, resets>>
      /\ {running', finished', populate_init'} \subseteq [Enclave -> BOOLEAN]
      /\ hpc' \in [Enclave ->
           {"none", "created", "reset", "test", "drain", "index", "returned"}]
      /\ running'[k] /\ ~finished'[k] /\ hpc'[k] = "created"
      /\ \A e \in Enclave \ {k} :
           running'[e] = running[e] /\ finished'[e] = finished[e] /\ hpc'[e] = hpc[e]
  BY StartHelperIs DEF TypeOK
<1>2. /\ k' \in Enclave
      /\ \/ k = NbThreads /\ main' = "wait" /\ k' = 1
         \/ k < NbThreads /\ main' = "rebuild" /\ k' = k + 1
  BY <1>1, ContinueIs
<1>3. TypeOK'
  BY <1>1, <1>2 DEF TypeOK, Places
<1>4. /\ main \in {"stop", "join"} <=> returnTo # "none"
      /\ (main \in {"stop", "join"} <=> returnTo # "none")'
      /\ (main = "measure" => k = 1)' /\ (main = "join" => finished[k])'
      /\ (main = "delete" => finished[k])'
  BY <1>1, <1>2 DEF Threads
<1>5. ASSUME NEW e \in Enclave PROVE ThreadsOf(e)'
  <2>1. ThreadsOf(e) /\ ThreadsOf(e) /\ e \in Int /\ 1 <= e /\ e <= NbThreads /\ k \in Int
    BY <1>1, <1>4, Positions DEF Threads
  <2>2. CASE k = NbThreads
    BY ONLY <1>1, <1>2, <1>4, <1>5, <2>1, <2>2 DEF TypeOK, ThreadsOf,
       HasHelper, HasApplication, Collecting, Waiting, Cleaning, Measuring
  <2>3. CASE k < NbThreads
    BY ONLY <1>1, <1>2, <1>4, <1>5, <2>1, <2>3 DEF TypeOK, ThreadsOf,
       HasHelper, HasApplication, Collecting, Waiting, Cleaning, Measuring
  <2>4. QED
    BY <1>2, <2>2, <2>3
<1>6. ASSUME NEW e \in Enclave PROVE ResetOf(e)'
  <2>1. ResetOf(e) /\ ThreadsOf(e) /\ e \in Int /\ 1 <= e /\ e <= NbThreads /\ k \in Int
    BY <1>1, <1>4, Positions DEF Threads, Resets
  <2>2. CASE k = NbThreads
    BY ONLY <1>1, <1>2, <1>4, <1>6, <2>1, <2>2 DEF TypeOK, ThreadsOf, ResetOf,
       Unmarked, Marked, Rebuilding, Waking, HasHelper, HasApplication,
       Collecting, Waiting, Cleaning, Measuring
  <2>3. CASE k < NbThreads
    BY ONLY <1>1, <1>2, <1>4, <1>6, <2>1, <2>3 DEF TypeOK, ThreadsOf, ResetOf,
       Unmarked, Marked, Rebuilding, Waking, HasHelper, HasApplication,
       Collecting, Waiting, Cleaning, Measuring
  <2>4. QED
    BY <1>2, <2>2, <2>3
<1>7. ASSUME NEW e \in Enclave PROVE HandedOf(e)'
  <2>1. HandedOf(e) /\ ThreadsOf(e) /\ e \in Int /\ 1 <= e /\ e <= NbThreads /\ k \in Int
    BY <1>1, <1>4, Positions DEF Threads, Handed
  <2>2. CASE k = NbThreads
    BY ONLY <1>1, <1>2, <1>4, <1>7, <2>1, <2>2 DEF TypeOK, ThreadsOf, HandedOf,
       Populating, Populated, Share, d, m, HasHelper, HasApplication,
       Collecting, Waiting, Cleaning, Measuring
  <2>3. CASE k < NbThreads
    BY ONLY <1>1, <1>2, <1>4, <1>7, <2>1, <2>3 DEF TypeOK, ThreadsOf, HandedOf,
       Populating, Populated, Share, d, m, HasHelper, HasApplication,
       Collecting, Waiting, Cleaning, Measuring
  <2>4. QED
    BY <1>2, <2>2, <2>3
<1>8. QED
  BY <1>3, <1>4, <1>5, <1>6, <1>7 DEF IInv, Threads, Resets, Handed

LEMMA RestartStep == IInv /\ StartHelper("restart", FALSE, "apply") => IInv'
<1> SUFFICES ASSUME TypeOK, Threads, Resets, Handed, StartHelper("restart", FALSE, "apply")
             PROVE  IInv'
  BY DEF IInv
<1> USE Positions DEF appVars, hlpVars, mainVars, flags
<1>1. /\ main = "restart" /\ Continue("wait", "apply") /\ k \in Enclave
      /\ UNCHANGED <<reset_index, update_all, applied, level, returnTo, initial, appVars,
                     stop, deleted, resets>>
      /\ {running', finished', populate_init'} \subseteq [Enclave -> BOOLEAN]
      /\ hpc' \in [Enclave ->
           {"none", "created", "reset", "test", "drain", "index", "returned"}]
      /\ running'[k] /\ ~finished'[k] /\ hpc'[k] = "created"
      /\ \A e \in Enclave \ {k} :
           running'[e] = running[e] /\ finished'[e] = finished[e] /\ hpc'[e] = hpc[e]
  BY StartHelperIs DEF TypeOK
<1>2. /\ k' \in Enclave
      /\ \/ k = NbThreads /\ main' = "apply" /\ k' = 1
         \/ k < NbThreads /\ main' = "wait" /\ k' = k + 1
  BY <1>1, ContinueIs
<1>3. TypeOK'
  BY <1>1, <1>2 DEF TypeOK, Places
<1>4. /\ main \in {"stop", "join"} <=> returnTo # "none"
      /\ (main \in {"stop", "join"} <=> returnTo # "none")'
      /\ (main = "measure" => k = 1)' /\ (main = "join" => finished[k])'
      /\ (main = "delete" => finished[k])'
  BY <1>1, <1>2 DEF Threads
<1>5. ASSUME NEW e \in Enclave PROVE ThreadsOf(e)'
  <2>1. ThreadsOf(e) /\ ThreadsOf(e) /\ e \in Int /\ 1 <= e /\ e <= NbThreads /\ k \in Int
    BY <1>1, <1>4, Positions DEF Threads
  <2>2. CASE k = NbThreads
    BY ONLY <1>1, <1>2, <1>4, <1>5, <2>1, <2>2 DEF TypeOK, ThreadsOf,
       HasHelper, HasApplication, Collecting, Waiting, Cleaning, Measuring
  <2>3. CASE k < NbThreads
    BY ONLY <1>1, <1>2, <1>4, <1>5, <2>1, <2>3 DEF TypeOK, ThreadsOf,
       HasHelper, HasApplication, Collecting, Waiting, Cleaning, Measuring
  <2>4. QED
    BY <1>2, <2>2, <2>3
<1>6. ASSUME NEW e \in Enclave PROVE ResetOf(e)'
  <2>1. ResetOf(e) /\ ThreadsOf(e) /\ e \in Int /\ 1 <= e /\ e <= NbThreads /\ k \in Int
    BY <1>1, <1>4, Positions DEF Threads, Resets
  <2>2. CASE k = NbThreads
    BY ONLY <1>1, <1>2, <1>4, <1>6, <2>1, <2>2 DEF TypeOK, ThreadsOf, ResetOf,
       Unmarked, Marked, Rebuilding, Waking, HasHelper, HasApplication,
       Collecting, Waiting, Cleaning, Measuring
  <2>3. CASE k < NbThreads
    BY ONLY <1>1, <1>2, <1>4, <1>6, <2>1, <2>3 DEF TypeOK, ThreadsOf, ResetOf,
       Unmarked, Marked, Rebuilding, Waking, HasHelper, HasApplication,
       Collecting, Waiting, Cleaning, Measuring
  <2>4. QED
    BY <1>2, <2>2, <2>3
<1>7. ASSUME NEW e \in Enclave PROVE HandedOf(e)'
  <2>1. HandedOf(e) /\ ThreadsOf(e) /\ e \in Int /\ 1 <= e /\ e <= NbThreads /\ k \in Int
    BY <1>1, <1>4, Positions DEF Threads, Handed
  <2>2. CASE k = NbThreads
    BY ONLY <1>1, <1>2, <1>4, <1>7, <2>1, <2>2 DEF TypeOK, ThreadsOf, HandedOf,
       Populating, Populated, Share, d, m, HasHelper, HasApplication,
       Collecting, Waiting, Cleaning, Measuring
  <2>3. CASE k < NbThreads
    BY ONLY <1>1, <1>2, <1>4, <1>7, <2>1, <2>3 DEF TypeOK, ThreadsOf, HandedOf,
       Populating, Populated, Share, d, m, HasHelper, HasApplication,
       Collecting, Waiting, Cleaning, Measuring
  <2>4. QED
    BY <1>2, <2>2, <2>3
<1>8. QED
  BY <1>3, <1>4, <1>5, <1>6, <1>7 DEF IInv, Threads, Resets, Handed

LEMMA PopulateBeginStep == IInv /\ PopulateBegin => IInv'
<1> SUFFICES ASSUME TypeOK, Threads, Resets, Handed, PopulateBegin PROVE IInv'
  BY DEF IInv
<1> USE Positions DEF appVars, hlpVars, mainVars, flags
<1>1. /\ main = "populate" /\ Continue("populate", "collect") /\ k \in Enclave
      /\ UNCHANGED <<published, returnTo, initial, flags, hlpVars, stop, deleted,
                     resets>>
      /\ num_populate' \in [Enclave -> Nat]
      /\ app' \in [Enclave -> {"none", "populating", "applying", "returned"}]
      /\ num_populate'[k] = Share(k) /\ app'[k] = "populating"
      /\ \A e \in Enclave \ {k} : num_populate'[e] = num_populate[e] /\ app'[e] = app[e]
  BY LoopIs DEF PopulateBegin, TypeOK
<1>2. /\ k' \in Enclave
      /\ \/ k = NbThreads /\ main' = "collect" /\ k' = 1
         \/ k < NbThreads /\ main' = "populate" /\ k' = k + 1
  BY <1>1, ContinueIs
<1>3. TypeOK'
  BY <1>1, <1>2 DEF TypeOK, Places
<1>4. /\ main \in {"stop", "join"} <=> returnTo # "none"
      /\ (main \in {"stop", "join"} <=> returnTo # "none")'
      /\ (main = "measure" => k = 1)' /\ (main = "join" => finished[k])'
      /\ (main = "delete" => finished[k])'
  BY <1>1, <1>2 DEF Threads
<1>5. ASSUME NEW e \in Enclave PROVE ThreadsOf(e)'
  <2>1. ThreadsOf(e) /\ ThreadsOf(e) /\ e \in Int /\ 1 <= e /\ e <= NbThreads /\ k \in Int
    BY <1>1, <1>4, Positions DEF Threads
  <2>2. CASE k = NbThreads
    BY ONLY <1>1, <1>2, <1>4, <1>5, <2>1, <2>2 DEF TypeOK, ThreadsOf,
       HasHelper, HasApplication, Collecting, Waiting, Cleaning, Measuring
  <2>3. CASE k < NbThreads
    BY ONLY <1>1, <1>2, <1>4, <1>5, <2>1, <2>3 DEF TypeOK, ThreadsOf,
       HasHelper, HasApplication, Collecting, Waiting, Cleaning, Measuring
  <2>4. QED
    BY <1>2, <2>2, <2>3
<1>6. ASSUME NEW e \in Enclave PROVE ResetOf(e)'
  <2>1. ResetOf(e) /\ ThreadsOf(e) /\ e \in Int /\ 1 <= e /\ e <= NbThreads /\ k \in Int
    BY <1>1, <1>4, Positions DEF Threads, Resets
  <2>2. CASE k = NbThreads
    BY ONLY <1>1, <1>2, <1>4, <1>6, <2>1, <2>2 DEF TypeOK, ThreadsOf, ResetOf,
       Unmarked, Marked, Rebuilding, Waking, HasHelper, HasApplication,
       Collecting, Waiting, Cleaning, Measuring
  <2>3. CASE k < NbThreads
    BY ONLY <1>1, <1>2, <1>4, <1>6, <2>1, <2>3 DEF TypeOK, ThreadsOf, ResetOf,
       Unmarked, Marked, Rebuilding, Waking, HasHelper, HasApplication,
       Collecting, Waiting, Cleaning, Measuring
  <2>4. QED
    BY <1>2, <2>2, <2>3
<1>7. ASSUME NEW e \in Enclave PROVE HandedOf(e)'
  <2>1. HandedOf(e) /\ ThreadsOf(e) /\ e \in Int /\ 1 <= e /\ e <= NbThreads /\ k \in Int
    BY <1>1, <1>4, Positions DEF Threads, Handed
  <2>2. CASE k = NbThreads
    BY ONLY <1>1, <1>2, <1>4, <1>7, <2>1, <2>2 DEF TypeOK, ThreadsOf, HandedOf,
       Populating, Populated, Share, d, m, HasHelper, HasApplication,
       Collecting, Waiting, Cleaning, Measuring
  <2>3. CASE k < NbThreads
    BY ONLY <1>1, <1>2, <1>4, <1>7, <2>1, <2>3 DEF TypeOK, ThreadsOf, HandedOf,
       Populating, Populated, Share, d, m, HasHelper, HasApplication,
       Collecting, Waiting, Cleaning, Measuring
  <2>4. QED
    BY <1>2, <2>2, <2>3
<1>8. QED
  BY <1>3, <1>4, <1>5, <1>6, <1>7 DEF IInv, Threads, Resets, Handed

LEMMA PopulateEndStep == IInv /\ PopulateEnd => IInv'
<1> SUFFICES ASSUME TypeOK, Threads, Resets, Handed, PopulateEnd PROVE IInv'
  BY DEF IInv
<1> USE Positions DEF appVars, hlpVars, mainVars, flags
<1>1. /\ main = "collect" /\ main' = "stop" /\ returnTo' = "reset" /\ k \in Enclave
      /\ UNCHANGED <<num_populate, published, k, initial, flags, hlpVars, stop, deleted,
                     resets>>
  BY DEF PopulateEnd, TypeOK
<1>2. /\ app[k] = "returned" /\ app'[k] = "none"
      /\ app' \in [Enclave -> {"none", "populating", "applying", "returned"}]
      /\ \A e \in Enclave \ {k} : app'[e] = app[e]
  BY <1>1 DEF PopulateEnd, TypeOK, Threads
<1>3. TypeOK'
  BY <1>1, <1>2 DEF TypeOK, Places
<1>4. /\ main \in {"stop", "join"} <=> returnTo # "none"
      /\ (main \in {"stop", "join"} <=> returnTo # "none")'
      /\ (main = "measure" => k = 1)' /\ (main = "join" => finished[k])'
      /\ (main = "delete" => finished[k])'
  BY <1>1, <1>2 DEF Threads
<1>5. ASSUME NEW e \in Enclave PROVE ThreadsOf(e)'
  <2>1. ThreadsOf(e) /\ ThreadsOf(e) /\ e \in Int /\ 1 <= e /\ k \in Int
    BY <1>1, <1>4, Positions DEF Threads
  <2>2. QED
    BY ONLY <1>1, <1>2, <1>4, <1>5, <2>1 DEF TypeOK, ThreadsOf, HasHelper,
       HasApplication, Collecting, Waiting, Cleaning, Measuring
<1>6. ASSUME NEW e \in Enclave PROVE ResetOf(e)'
  <2>1. ResetOf(e) /\ ThreadsOf(e) /\ e \in Int /\ 1 <= e /\ k \in Int
    BY <1>1, <1>4, Positions DEF Threads, Resets
  <2>2. QED
    BY ONLY <1>1, <1>2, <1>4, <1>6, <2>1 DEF TypeOK, ThreadsOf, ResetOf,
       Unmarked, Marked, Rebuilding, Waking, HasHelper, HasApplication,
       Collecting, Waiting, Cleaning, Measuring
<1>7. ASSUME NEW e \in Enclave PROVE HandedOf(e)'
  <2>1. HandedOf(e) /\ ThreadsOf(e) /\ e \in Int /\ 1 <= e /\ k \in Int
    BY <1>1, <1>4, Positions DEF Threads, Handed
  <2>2. QED
    BY ONLY <1>1, <1>2, <1>4, <1>7, <2>1 DEF TypeOK, ThreadsOf, HandedOf,
       Populating, Populated, Share, d, m, HasHelper, HasApplication,
       Collecting, Waiting, Cleaning, Measuring
<1>8. QED
  BY <1>3, <1>4, <1>5, <1>6, <1>7 DEF IInv, Threads, Resets, Handed

LEMMA StopHelperStep == IInv /\ StopHelper => IInv'
<1> SUFFICES ASSUME TypeOK, Threads, Resets, Handed, StopHelper PROVE IInv'
  BY DEF IInv
<1> USE Positions DEF appVars, hlpVars, mainVars, flags
<1>1. /\ main = "stop" /\ main' = "join" /\ k \in Enclave
      /\ UNCHANGED <<running, reset_index, populate_init, k, returnTo, initial, appVars,
                     hlpVars, stop, deleted, resets>>
  BY DEF StopHelper, TypeOK
<1>2. /\ finished' \in [Enclave -> BOOLEAN] /\ finished'[k]
      /\ \A e \in Enclave : finished[e] => finished'[e]
  <2>1. HasHelper(k)
    BY <1>1 DEF Threads, TypeOK, HasHelper, Collecting, Waiting, Cleaning
  <2>2. QED
    BY <1>1, <2>1 DEF StopHelper, TypeOK, Threads, ThreadsOf
<1>3. TypeOK'
  BY <1>1, <1>2 DEF TypeOK, Places
<1>4. /\ main \in {"stop", "join"} <=> returnTo # "none"
      /\ (main \in {"stop", "join"} <=> returnTo # "none")'
      /\ (main = "measure" => k = 1)' /\ (main = "join" => finished[k])'
      /\ (main = "delete" => finished[k])'
  BY <1>1, <1>2 DEF Threads
<1>5. ASSUME NEW e \in Enclave PROVE ThreadsOf(e)'
  <2>1. ThreadsOf(e) /\ ThreadsOf(e) /\ e \in Int /\ 1 <= e /\ k \in Int
    BY <1>1, <1>4, Positions DEF Threads
  <2>2. QED
    BY ONLY <1>1, <1>2, <1>4, <1>5, <2>1 DEF TypeOK, ThreadsOf, HasHelper,
       HasApplication, Collecting, Waiting, Cleaning, Measuring
<1>6. ASSUME NEW e \in Enclave PROVE ResetOf(e)'
  <2>1. ResetOf(e) /\ ThreadsOf(e) /\ e \in Int /\ 1 <= e /\ k \in Int
    BY <1>1, <1>4, Positions DEF Threads, Resets
  <2>2. QED
    BY ONLY <1>1, <1>2, <1>4, <1>6, <2>1 DEF TypeOK, ThreadsOf, ResetOf,
       Unmarked, Marked, Rebuilding, Waking, HasHelper, HasApplication,
       Collecting, Waiting, Cleaning, Measuring
<1>7. ASSUME NEW e \in Enclave PROVE HandedOf(e)'
  <2>1. HandedOf(e) /\ ThreadsOf(e) /\ e \in Int /\ 1 <= e /\ k \in Int
    BY <1>1, <1>4, Positions DEF Threads, Handed
  <2>2. QED
    BY ONLY <1>1, <1>2, <1>4, <1>7, <2>1 DEF TypeOK, ThreadsOf, HandedOf,
       Populating, Populated, Share, d, m, HasHelper, HasApplication,
       Collecting, Waiting, Cleaning, Measuring
<1>8. QED
  BY <1>3, <1>4, <1>5, <1>6, <1>7 DEF IInv, Threads, Resets, Handed

LEMMA JoinHelperStep == IInv /\ JoinHelper => IInv'
<1> SUFFICES ASSUME TypeOK, Threads, Resets, Handed, JoinHelper PROVE IInv'
  BY DEF IInv
<1> USE Positions DEF appVars, hlpVars, mainVars, flags
<1>1. /\ main = "join" /\ main' = returnTo /\ returnTo' = "none" /\ k \in Enclave
      /\ UNCHANGED <<finished, reset_index, populate_init, update_all, applied, level, k,
                     initial, appVars, stop, deleted, resets>>
  BY DEF JoinHelper, TypeOK
<1>2. /\ running' \in [Enclave -> BOOLEAN] /\ ~running'[k]
      /\ hpc' \in [Enclave ->
           {"none", "created", "reset", "test", "drain", "index", "returned"}]
      /\ running[k] => hpc[k] = "returned"
      /\ finished[k] /\ returnTo \in {"reset", "restart", "delete"}
      /\ hpc'[k] = IF running[k] THEN "none" ELSE hpc[k]
      /\ \A e \in Enclave \ {k} : running'[e] = running[e] /\ hpc'[e] = hpc[e]
  BY <1>1 DEF JoinHelper, TypeOK, Threads
<1>3. TypeOK'
  BY <1>1, <1>2 DEF TypeOK, Places
<1>4. /\ main \in {"stop", "join"} <=> returnTo # "none"
      /\ (main \in {"stop", "join"} <=> returnTo # "none")'
      /\ (main = "measure" => k = 1)' /\ (main = "join" => finished[k])'
      /\ (main = "delete" => finished[k])'
  BY <1>1, <1>2 DEF Threads
<1>5. ASSUME NEW e \in Enclave PROVE ThreadsOf(e)'
  <2>1. ThreadsOf(e) /\ ThreadsOf(e) /\ e \in Int /\ 1 <= e /\ k \in Int
    BY <1>1, <1>4, Positions DEF Threads
  <2>2. QED
    BY ONLY <1>1, <1>2, <1>4, <1>5, <2>1 DEF TypeOK, ThreadsOf, HasHelper,
       HasApplication, Collecting, Waiting, Cleaning, Measuring
<1>6. ASSUME NEW e \in Enclave PROVE ResetOf(e)'
  <2>1. ResetOf(e) /\ ThreadsOf(e) /\ e \in Int /\ 1 <= e /\ k \in Int
    BY <1>1, <1>4, Positions DEF Threads, Resets
  <2>2. QED
    BY ONLY <1>1, <1>2, <1>4, <1>6, <2>1 DEF TypeOK, ThreadsOf, ResetOf,
       Unmarked, Marked, Rebuilding, Waking, HasHelper, HasApplication,
       Collecting, Waiting, Cleaning, Measuring
<1>7. ASSUME NEW e \in Enclave PROVE HandedOf(e)'
  <2>1. HandedOf(e) /\ ThreadsOf(e) /\ e \in Int /\ 1 <= e /\ k \in Int
    BY <1>1, <1>4, Positions DEF Threads, Handed
  <2>2. QED
    BY ONLY <1>1, <1>2, <1>4, <1>7, <2>1 DEF TypeOK, ThreadsOf, HandedOf,
       Populating, Populated, Share, d, m, HasHelper, HasApplication,
       Collecting, Waiting, Cleaning, Measuring
<1>8. QED
  BY <1>3, <1>4, <1>5, <1>6, <1>7 DEF IInv, Threads, Resets, Handed

LEMMA ResetIndexLayerStep == IInv /\ ResetIndexLayer => IInv'
<1> SUFFICES ASSUME TypeOK, Threads, Resets, Handed, ResetIndexLayer PROVE IInv'
  BY DEF IInv
<1> USE Positions DEF appVars, hlpVars, mainVars, flags
<1>1. /\ main = "reset" /\ Continue("collect", "rebuild") /\ k \in Enclave
      /\ UNCHANGED <<running, finished, populate_init, returnTo, initial, appVars,
                     hlpVars, stop, deleted, resets>>
      /\ reset_index' \in [Enclave -> BOOLEAN] /\ reset_index'[k]
      /\ \A e \in Enclave \ {k} : reset_index'[e] = reset_index[e]
  BY LoopIs DEF ResetIndexLayer, TypeOK
<1>2. /\ k' \in Enclave
      /\ \/ k = NbThreads /\ main' = "rebuild" /\ k' = 1
         \/ k < NbThreads /\ main' = "collect" /\ k' = k + 1
  BY <1>1, ContinueIs
<1>3. TypeOK'
  BY <1>1, <1>2 DEF TypeOK, Places
<1>4. /\ main \in {"stop", "join"} <=> returnTo # "none"
      /\ (main \in {"stop", "join"} <=> returnTo # "none")'
      /\ (main = "measure" => k = 1)' /\ (main = "join" => finished[k])'
      /\ (main = "delete" => finished[k])'
  BY <1>1, <1>2 DEF Threads
<1>5. ASSUME NEW e \in Enclave PROVE ThreadsOf(e)'
  <2>1. ThreadsOf(e) /\ ThreadsOf(e) /\ e \in Int /\ 1 <= e /\ e <= NbThreads /\ k \in Int
    BY <1>1, <1>4, Positions DEF Threads
  <2>2. CASE k = NbThreads
    BY ONLY <1>1, <1>2, <1>4, <1>5, <2>1, <2>2 DEF TypeOK, ThreadsOf,
       HasHelper, HasApplication, Collecting, Waiting, Cleaning, Measuring
  <2>3. CASE k < NbThreads
    BY ONLY <1>1, <1>2, <1>4, <1>5, <2>1, <2>3 DEF TypeOK, ThreadsOf,
       HasHelper, HasApplication, Collecting, Waiting, Cleaning, Measuring
  <2>4. QED
    BY <1>2, <2>2, <2>3
<1>6. ASSUME NEW e \in Enclave PROVE ResetOf(e)'
  <2>1. ResetOf(e) /\ ThreadsOf(e) /\ e \in Int /\ 1 <= e /\ e <= NbThreads /\ k \in Int
    BY <1>1, <1>4, Positions DEF Threads, Resets
  <2>2. CASE k = NbThreads
    BY ONLY <1>1, <1>2, <1>4, <1>6, <2>1, <2>2 DEF TypeOK, ThreadsOf, ResetOf,
       Unmarked, Marked, Rebuilding, Waking, HasHelper, HasApplication,
       Collecting, Waiting, Cleaning, Measuring
  <2>3. CASE k < NbThreads
    BY ONLY <1>1, <1>2, <1>4, <1>6, <2>1, <2>3 DEF TypeOK, ThreadsOf, ResetOf,
       Unmarked, Marked, Rebuilding, Waking, HasHelper, HasApplication,
       Collecting, Waiting, Cleaning, Measuring
  <2>4. QED
    BY <1>2, <2>2, <2>3
<1>7. ASSUME NEW e \in Enclave PROVE HandedOf(e)'
  <2>1. HandedOf(e) /\ ThreadsOf(e) /\ e \in Int /\ 1 <= e /\ e <= NbThreads /\ k \in Int
    BY <1>1, <1>4, Positions DEF Threads, Handed
  <2>2. CASE k = NbThreads
    BY ONLY <1>1, <1>2, <1>4, <1>7, <2>1, <2>2 DEF TypeOK, ThreadsOf, HandedOf,
       Populating, Populated, Share, d, m, HasHelper, HasApplication,
       Collecting, Waiting, Cleaning, Measuring
  <2>3. CASE k < NbThreads
    BY ONLY <1>1, <1>2, <1>4, <1>7, <2>1, <2>3 DEF TypeOK, ThreadsOf, HandedOf,
       Populating, Populated, Share, d, m, HasHelper, HasApplication,
       Collecting, Waiting, Cleaning, Measuring
  <2>4. QED
    BY <1>2, <2>2, <2>3
<1>8. QED
  BY <1>3, <1>4, <1>5, <1>6, <1>7 DEF IInv, Threads, Resets, Handed

LEMMA WaitEndsStep == IInv /\ WaitEnds => IInv'
<1> SUFFICES ASSUME TypeOK, Threads, Resets, Handed, WaitEnds PROVE IInv'
  BY DEF IInv
<1> USE Positions DEF appVars, hlpVars, mainVars, flags
<1>1. /\ main = "wait" /\ main' = "stop" /\ returnTo' = "restart" /\ k \in Enclave
      /\ UNCHANGED <<k, initial, flags, appVars, hlpVars, stop, deleted, resets>>
  BY DEF WaitEnds, TypeOK
<1>3. TypeOK'
  BY <1>1 DEF TypeOK, Places
<1>4. /\ main \in {"stop", "join"} <=> returnTo # "none"
      /\ (main \in {"stop", "join"} <=> returnTo # "none")'
      /\ (main = "measure" => k = 1)' /\ (main = "join" => finished[k])'
      /\ (main = "delete" => finished[k])'
  BY <1>1 DEF Threads
<1>5. ASSUME NEW e \in Enclave PROVE ThreadsOf(e)'
  <2>1. ThreadsOf(e) /\ ThreadsOf(e) /\ e \in Int /\ 1 <= e /\ k \in Int
    BY <1>1, <1>4, Positions DEF Threads
  <2>2. QED
    BY ONLY <1>1, <1>4, <1>5, <2>1 DEF TypeOK, ThreadsOf, HasHelper,
       HasApplication, Collecting, Waiting, Cleaning, Measuring
<1>6. ASSUME NEW e \in Enclave PROVE ResetOf(e)'
  <2>1. ResetOf(e) /\ ThreadsOf(e) /\ e \in Int /\ 1 <= e /\ k \in Int
    BY <1>1, <1>4, Positions DEF Threads, Resets
  <2>2. QED
    BY ONLY <1>1, <1>4, <1>6, <2>1 DEF TypeOK, ThreadsOf, ResetOf, Unmarked,
       Marked, Rebuilding, Waking, HasHelper, HasApplication, Collecting,
       Waiting, Cleaning, Measuring
<1>7. ASSUME NEW e \in Enclave PROVE HandedOf(e)'
  <2>1. HandedOf(e) /\ ThreadsOf(e) /\ e \in Int /\ 1 <= e /\ k \in Int
    BY <1>1, <1>4, Positions DEF Threads, Handed
  <2>2. QED
    BY ONLY <1>1, <1>4, <1>7, <2>1 DEF TypeOK, ThreadsOf, HandedOf, Populating,
       Populated, Share, d, m, HasHelper, HasApplication, Collecting, Waiting,
       Cleaning, Measuring
<1>8. QED
  BY <1>3, <1>4, <1>5, <1>6, <1>7 DEF IInv, Threads, Resets, Handed

LEMMA StartApplicationStep == IInv /\ StartApplication => IInv'
<1> SUFFICES ASSUME TypeOK, Threads, Resets, Handed, StartApplication PROVE IInv'
  BY DEF IInv
<1> USE Positions DEF appVars, hlpVars, mainVars, flags
<1>1. /\ main = "apply" /\ Continue("apply", "measure") /\ k \in Enclave
      /\ UNCHANGED <<num_populate, published, returnTo, initial, flags, hlpVars, stop,
                     deleted, resets>>
      /\ app' \in [Enclave -> {"none", "populating", "applying", "returned"}]
      /\ app'[k] = "applying" /\ \A e \in Enclave \ {k} : app'[e] = app[e]
  BY LoopIs DEF StartApplication, TypeOK
<1>2. /\ k' \in Enclave
      /\ \/ k = NbThreads /\ main' = "measure" /\ k' = 1
         \/ k < NbThreads /\ main' = "apply" /\ k' = k + 1
  BY <1>1, ContinueIs
<1>3. TypeOK'
  BY <1>1, <1>2 DEF TypeOK, Places
<1>4. /\ main \in {"stop", "join"} <=> returnTo # "none"
      /\ (main \in {"stop", "join"} <=> returnTo # "none")'
      /\ (main = "measure" => k = 1)' /\ (main = "join" => finished[k])'
      /\ (main = "delete" => finished[k])'
  BY <1>1, <1>2 DEF Threads
<1>5. ASSUME NEW e \in Enclave PROVE ThreadsOf(e)'
  <2>1. ThreadsOf(e) /\ ThreadsOf(e) /\ e \in Int /\ 1 <= e /\ e <= NbThreads /\ k \in Int
    BY <1>1, <1>4, Positions DEF Threads
  <2>2. CASE k = NbThreads
    BY ONLY <1>1, <1>2, <1>4, <1>5, <2>1, <2>2 DEF TypeOK, ThreadsOf,
       HasHelper, HasApplication, Collecting, Waiting, Cleaning, Measuring
  <2>3. CASE k < NbThreads
    BY ONLY <1>1, <1>2, <1>4, <1>5, <2>1, <2>3 DEF TypeOK, ThreadsOf,
       HasHelper, HasApplication, Collecting, Waiting, Cleaning, Measuring
  <2>4. QED
    BY <1>2, <2>2, <2>3
<1>6. ASSUME NEW e \in Enclave PROVE ResetOf(e)'
  <2>1. ResetOf(e) /\ ThreadsOf(e) /\ e \in Int /\ 1 <= e /\ e <= NbThreads /\ k \in Int
    BY <1>1, <1>4, Positions DEF Threads, Resets
  <2>2. CASE k = NbThreads
    BY ONLY <1>1, <1>2, <1>4, <1>6, <2>1, <2>2 DEF TypeOK, ThreadsOf, ResetOf,
       Unmarked, Marked, Rebuilding, Waking, HasHelper, HasApplication,
       Collecting, Waiting, Cleaning, Measuring
  <2>3. CASE k < NbThreads
    BY ONLY <1>1, <1>2, <1>4, <1>6, <2>1, <2>3 DEF TypeOK, ThreadsOf, ResetOf,
       Unmarked, Marked, Rebuilding, Waking, HasHelper, HasApplication,
       Collecting, Waiting, Cleaning, Measuring
  <2>4. QED
    BY <1>2, <2>2, <2>3
<1>7. ASSUME NEW e \in Enclave PROVE HandedOf(e)'
  <2>1. HandedOf(e) /\ ThreadsOf(e) /\ e \in Int /\ 1 <= e /\ e <= NbThreads /\ k \in Int
    BY <1>1, <1>4, Positions DEF Threads, Handed
  <2>2. CASE k = NbThreads
    BY ONLY <1>1, <1>2, <1>4, <1>7, <2>1, <2>2 DEF TypeOK, ThreadsOf, HandedOf,
       Populating, Populated, Share, d, m, HasHelper, HasApplication,
       Collecting, Waiting, Cleaning, Measuring
  <2>3. CASE k < NbThreads
    BY ONLY <1>1, <1>2, <1>4, <1>7, <2>1, <2>3 DEF TypeOK, ThreadsOf, HandedOf,
       Populating, Populated, Share, d, m, HasHelper, HasApplication,
       Collecting, Waiting, Cleaning, Measuring
  <2>4. QED
    BY <1>2, <2>2, <2>3
<1>8. QED
  BY <1>3, <1>4, <1>5, <1>6, <1>7 DEF IInv, Threads, Resets, Handed

LEMMA StopMeasurementStep == IInv /\ StopMeasurement => IInv'
<1> SUFFICES ASSUME TypeOK, Threads, Resets, Handed, StopMeasurement PROVE IInv'
  BY DEF IInv
<1> USE Positions DEF appVars, hlpVars, mainVars, flags
<1>1. /\ main = "measure" /\ main' = "results" /\ stop' = TRUE /\ k \in Enclave
      /\ UNCHANGED <<k, returnTo, initial, flags, appVars, hlpVars, deleted, resets>>
  BY DEF StopMeasurement, TypeOK
<1>2. k = 1
  BY <1>1 DEF StopMeasurement, TypeOK, Threads
<1>3. TypeOK'
  BY <1>1, <1>2 DEF TypeOK, Places
<1>4. /\ main \in {"stop", "join"} <=> returnTo # "none"
      /\ (main \in {"stop", "join"} <=> returnTo # "none")'
      /\ (main = "measure" => k = 1)' /\ (main = "join" => finished[k])'
      /\ (main = "delete" => finished[k])'
  BY <1>1, <1>2 DEF Threads
<1>5. ASSUME NEW e \in Enclave PROVE ThreadsOf(e)'
  <2>1. ThreadsOf(e) /\ ThreadsOf(e) /\ e \in Int /\ 1 <= e /\ k \in Int
    BY <1>1, <1>4, Positions DEF Threads
  <2>2. QED
    BY ONLY <1>1, <1>2, <1>4, <1>5, <2>1 DEF TypeOK, ThreadsOf, HasHelper,
       HasApplication, Collecting, Waiting, Cleaning, Measuring
<1>6. ASSUME NEW e \in Enclave PROVE ResetOf(e)'
  <2>1. ResetOf(e) /\ ThreadsOf(e) /\ e \in Int /\ 1 <= e /\ k \in Int
    BY <1>1, <1>4, Positions DEF Threads, Resets
  <2>2. QED
    BY ONLY <1>1, <1>2, <1>4, <1>6, <2>1 DEF TypeOK, ThreadsOf, ResetOf,
       Unmarked, Marked, Rebuilding, Waking, HasHelper, HasApplication,
       Collecting, Waiting, Cleaning, Measuring
<1>7. ASSUME NEW e \in Enclave PROVE HandedOf(e)'
  <2>1. HandedOf(e) /\ ThreadsOf(e) /\ e \in Int /\ 1 <= e /\ k \in Int
    BY <1>1, <1>4, Positions DEF Threads, Handed
  <2>2. QED
    BY ONLY <1>1, <1>2, <1>4, <1>7, <2>1 DEF TypeOK, ThreadsOf, HandedOf,
       Populating, Populated, Share, d, m, HasHelper, HasApplication,
       Collecting, Waiting, Cleaning, Measuring
<1>8. QED
  BY <1>3, <1>4, <1>5, <1>6, <1>7 DEF IInv, Threads, Resets, Handed

LEMMA StopApplicationStep == IInv /\ StopApplication => IInv'
<1> SUFFICES ASSUME TypeOK, Threads, Resets, Handed, StopApplication PROVE IInv'
  BY DEF IInv
<1> USE Positions DEF appVars, hlpVars, mainVars, flags
<1>1. /\ main = "results" /\ Continue("results", "cleanup") /\ k \in Enclave
      /\ UNCHANGED <<num_populate, published, returnTo, initial, flags, hlpVars, stop,
                     deleted, resets>>
      /\ app' \in [Enclave -> {"none", "populating", "applying", "returned"}]
      /\ app'[k] = "none" /\ \A e \in Enclave \ {k} : app'[e] = app[e]
  BY LoopIs DEF StopApplication, TypeOK
<1>2. /\ k' \in Enclave
      /\ \/ k = NbThreads /\ main' = "cleanup" /\ k' = 1
         \/ k < NbThreads /\ main' = "results" /\ k' = k + 1
  BY <1>1, ContinueIs
<1>3. TypeOK'
  BY <1>1, <1>2 DEF TypeOK, Places
<1>4. /\ main \in {"stop", "join"} <=> returnTo # "none"
      /\ (main \in {"stop", "join"} <=> returnTo # "none")'
      /\ (main = "measure" => k = 1)' /\ (main = "join" => finished[k])'
      /\ (main = "delete" => finished[k])'
  BY <1>1, <1>2 DEF Threads
<1>5. ASSUME NEW e \in Enclave PROVE ThreadsOf(e)'
  <2>1. ThreadsOf(e) /\ ThreadsOf(e) /\ e \in Int /\ 1 <= e /\ e <= NbThreads /\ k \in Int
    BY <1>1, <1>4, Positions DEF Threads
  <2>2. CASE k = NbThreads
    BY ONLY <1>1, <1>2, <1>4, <1>5, <2>1, <2>2 DEF TypeOK, ThreadsOf,
       HasHelper, HasApplication, Collecting, Waiting, Cleaning, Measuring
  <2>3. CASE k < NbThreads
    BY ONLY <1>1, <1>2, <1>4, <1>5, <2>1, <2>3 DEF TypeOK, ThreadsOf,
       HasHelper, HasApplication, Collecting, Waiting, Cleaning, Measuring
  <2>4. QED
    BY <1>2, <2>2, <2>3
<1>6. ASSUME NEW e \in Enclave PROVE ResetOf(e)'
  <2>1. ResetOf(e) /\ ThreadsOf(e) /\ e \in Int /\ 1 <= e /\ e <= NbThreads /\ k \in Int
    BY <1>1, <1>4, Positions DEF Threads, Resets
  <2>2. CASE k = NbThreads
    BY ONLY <1>1, <1>2, <1>4, <1>6, <2>1, <2>2 DEF TypeOK, ThreadsOf, ResetOf,
       Unmarked, Marked, Rebuilding, Waking, HasHelper, HasApplication,
       Collecting, Waiting, Cleaning, Measuring
  <2>3. CASE k < NbThreads
    BY ONLY <1>1, <1>2, <1>4, <1>6, <2>1, <2>3 DEF TypeOK, ThreadsOf, ResetOf,
       Unmarked, Marked, Rebuilding, Waking, HasHelper, HasApplication,
       Collecting, Waiting, Cleaning, Measuring
  <2>4. QED
    BY <1>2, <2>2, <2>3
<1>7. ASSUME NEW e \in Enclave PROVE HandedOf(e)'
  <2>1. HandedOf(e) /\ ThreadsOf(e) /\ e \in Int /\ 1 <= e /\ e <= NbThreads /\ k \in Int
    BY <1>1, <1>4, Positions DEF Threads, Handed
  <2>2. CASE k = NbThreads
    BY ONLY <1>1, <1>2, <1>4, <1>7, <2>1, <2>2 DEF TypeOK, ThreadsOf, HandedOf,
       Populating, Populated, Share, d, m, HasHelper, HasApplication,
       Collecting, Waiting, Cleaning, Measuring
  <2>3. CASE k < NbThreads
    BY ONLY <1>1, <1>2, <1>4, <1>7, <2>1, <2>3 DEF TypeOK, ThreadsOf, HandedOf,
       Populating, Populated, Share, d, m, HasHelper, HasApplication,
       Collecting, Waiting, Cleaning, Measuring
  <2>4. QED
    BY <1>2, <2>2, <2>3
<1>8. QED
  BY <1>3, <1>4, <1>5, <1>6, <1>7 DEF IInv, Threads, Resets, Handed

LEMMA CleanupStep == IInv /\ Cleanup => IInv'
<1> SUFFICES ASSUME TypeOK, Threads, Resets, Handed, Cleanup PROVE IInv'
  BY DEF IInv
<1> USE Positions DEF appVars, hlpVars, mainVars, flags
<1>1. /\ main = "cleanup" /\ main' = "stop" /\ returnTo' = "delete" /\ k \in Enclave
      /\ UNCHANGED <<k, initial, flags, appVars, hlpVars, stop, deleted, resets>>
  BY DEF Cleanup, TypeOK
<1>3. TypeOK'
  BY <1>1 DEF TypeOK, Places
<1>4. /\ main \in {"stop", "join"} <=> returnTo # "none"
      /\ (main \in {"stop", "join"} <=> returnTo # "none")'
      /\ (main = "measure" => k = 1)' /\ (main = "join" => finished[k])'
      /\ (main = "delete" => finished[k])'
  BY <1>1 DEF Threads
<1>5. ASSUME NEW e \in Enclave PROVE ThreadsOf(e)'
  <2>1. ThreadsOf(e) /\ ThreadsOf(e) /\ e \in Int /\ 1 <= e /\ k \in Int
    BY <1>1, <1>4, Positions DEF Threads
  <2>2. QED
    BY ONLY <1>1, <1>4, <1>5, <2>1 DEF TypeOK, ThreadsOf, HasHelper,
       HasApplication, Collecting, Waiting, Cleaning, Measuring
<1>6. ASSUME NEW e \in Enclave PROVE ResetOf(e)'
  <2>1. ResetOf(e) /\ ThreadsOf(e) /\ e \in Int /\ 1 <= e /\ k \in Int
    BY <1>1, <1>4, Positions DEF Threads, Resets
  <2>2. QED
    BY ONLY <1>1, <1>4, <1>6, <2>1 DEF TypeOK, ThreadsOf, ResetOf, Unmarked,
       Marked, Rebuilding, Waking, HasHelper, HasApplication, Collecting,
       Waiting, Cleaning, Measuring
<1>7. ASSUME NEW e \in Enclave PROVE HandedOf(e)'
  <2>1. HandedOf(e) /\ ThreadsOf(e) /\ e \in Int /\ 1 <= e /\ k \in Int
    BY <1>1, <1>4, Positions DEF Threads, Handed
  <2>2. QED
    BY ONLY <1>1, <1>4, <1>7, <2>1 DEF TypeOK, ThreadsOf, HandedOf, Populating,
       Populated, Share, d, m, HasHelper, HasApplication, Collecting, Waiting,
       Cleaning, Measuring
<1>8. QED
  BY <1>3, <1>4, <1>5, <1>6, <1>7 DEF IInv, Threads, Resets, Handed

LEMMA DeleteStep == IInv /\ Delete => IInv'
<1> SUFFICES ASSUME TypeOK, Threads, Resets, Handed, Delete PROVE IInv'
  BY DEF IInv
<1> USE Positions DEF appVars, hlpVars, mainVars, flags
<1>1. /\ main = "delete" /\ Continue("cleanup", "done") /\ k \in Enclave
      /\ UNCHANGED <<returnTo, initial, flags, appVars, hlpVars, stop, resets>>
      /\ deleted' \subseteq Enclave /\ deleted' = deleted \cup {k} /\ finished[k]
  BY LoopIs DEF Delete, TypeOK, Threads
<1>2. /\ k' \in Enclave
      /\ \/ k = NbThreads /\ main' = "done" /\ k' = 1
         \/ k < NbThreads /\ main' = "cleanup" /\ k' = k + 1
  BY <1>1, ContinueIs
<1>3. TypeOK'
  BY <1>1, <1>2 DEF TypeOK, Places
<1>4. /\ main \in {"stop", "join"} <=> returnTo # "none"
      /\ (main \in {"stop", "join"} <=> returnTo # "none")'
      /\ (main = "measure" => k = 1)' /\ (main = "join" => finished[k])'
      /\ (main = "delete" => finished[k])'
  BY <1>1, <1>2 DEF Threads
<1>5. ASSUME NEW e \in Enclave PROVE ThreadsOf(e)'
  <2>1. ThreadsOf(e) /\ ThreadsOf(e) /\ e \in Int /\ 1 <= e /\ e <= NbThreads /\ k \in Int
    BY <1>1, <1>4, Positions DEF Threads
  <2>2. CASE k = NbThreads
    BY ONLY <1>1, <1>2, <1>4, <1>5, <2>1, <2>2 DEF TypeOK, ThreadsOf,
       HasHelper, HasApplication, Collecting, Waiting, Cleaning, Measuring
  <2>3. CASE k < NbThreads
    BY ONLY <1>1, <1>2, <1>4, <1>5, <2>1, <2>3 DEF TypeOK, ThreadsOf,
       HasHelper, HasApplication, Collecting, Waiting, Cleaning, Measuring
  <2>4. QED
    BY <1>2, <2>2, <2>3
<1>6. ASSUME NEW e \in Enclave PROVE ResetOf(e)'
  <2>1. ResetOf(e) /\ ThreadsOf(e) /\ e \in Int /\ 1 <= e /\ e <= NbThreads /\ k \in Int
    BY <1>1, <1>4, Positions DEF Threads, Resets
  <2>2. CASE k = NbThreads
    BY ONLY <1>1, <1>2, <1>4, <1>6, <2>1, <2>2 DEF TypeOK, ThreadsOf, ResetOf,
       Unmarked, Marked, Rebuilding, Waking, HasHelper, HasApplication,
       Collecting, Waiting, Cleaning, Measuring
  <2>3. CASE k < NbThreads
    BY ONLY <1>1, <1>2, <1>4, <1>6, <2>1, <2>3 DEF TypeOK, ThreadsOf, ResetOf,
       Unmarked, Marked, Rebuilding, Waking, HasHelper, HasApplication,
       Collecting, Waiting, Cleaning, Measuring
  <2>4. QED
    BY <1>2, <2>2, <2>3
<1>7. ASSUME NEW e \in Enclave PROVE HandedOf(e)'
  <2>1. HandedOf(e) /\ ThreadsOf(e) /\ e \in Int /\ 1 <= e /\ e <= NbThreads /\ k \in Int
    BY <1>1, <1>4, Positions DEF Threads, Handed
  <2>2. CASE k = NbThreads
    BY ONLY <1>1, <1>2, <1>4, <1>7, <2>1, <2>2 DEF TypeOK, ThreadsOf, HandedOf,
       Populating, Populated, Share, d, m, HasHelper, HasApplication,
       Collecting, Waiting, Cleaning, Measuring
  <2>3. CASE k < NbThreads
    BY ONLY <1>1, <1>2, <1>4, <1>7, <2>1, <2>3 DEF TypeOK, ThreadsOf, HandedOf,
       Populating, Populated, Share, d, m, HasHelper, HasApplication,
       Collecting, Waiting, Cleaning, Measuring
  <2>4. QED
    BY <1>2, <2>2, <2>3
<1>8. QED
  BY <1>3, <1>4, <1>5, <1>6, <1>7 DEF IInv, Threads, Resets, Handed

LEMMA MainStep == IInv /\ Main => IInv'
  BY StartStep, RebuildStep, RestartStep, PopulateBeginStep, PopulateEndStep,
     StopHelperStep, JoinHelperStep, ResetIndexLayerStep, WaitEndsStep,
     StartApplicationStep, StopMeasurementStep, StopApplicationStep, CleanupStep, DeleteStep
     DEF Main

LEMMA StutterStep == IInv /\ UNCHANGED vars => IInv'
<1> SUFFICES ASSUME IInv, UNCHANGED vars PROVE IInv'
  OBVIOUS
<1> USE DEF vars, flags, appVars, hlpVars, mainVars
<1>1. TypeOK'
  BY DEF IInv, TypeOK
<1>2. Threads'
  BY DEF IInv, Threads, ThreadsOf, HasHelper, HasApplication, Collecting, Waiting, Cleaning,
     Measuring
<1>3. Resets'
  BY DEF IInv, Resets, ResetOf, Unmarked, Marked, Rebuilding, Waking, Collecting, Waiting
<1>4. Handed'
  BY DEF IInv, Handed, HandedOf, Populating, Populated, HasApplication, Collecting, Waiting,
     Share, d, m
<1>5. QED
  BY <1>1, <1>2, <1>3, <1>4 DEF IInv

LEMMA StepInv == IInv /\ [Next]_vars => IInv'
  BY HelperStep, ApplicationStep, MainStep, StutterStep DEF Next
-----------------------------------------------------------------------------
\* Where main is decides which threads exist and how far each index is, in
\* every reachable state.
THEOREM Invariant == Spec => []IInv
  BY InitInv, StepInv, PTL DEF Spec

\* The variables have their types.
THEOREM TypeCorrect == Spec => []TypeOK
<1>1. IInv => TypeOK
  BY DEF IInv
<1>2. QED
  BY <1>1, Invariant, PTL

\* Every index is reset exactly once, after its population and before the
\* measurement, and never under an application thread (start_helper,
\* helper_loop and reset_index_layer agree without a lock on reset_index).
THEOREM ResetsOnce == Spec => []ResetOnce
<1>1. IInv => ResetOnce
  <2> SUFFICES ASSUME IInv PROVE ResetOnce
    OBVIOUS
  <2>1. TypeOK /\ k \in Int /\ \A e \in Enclave : e \in Int /\ ThreadsOf(e) /\ ResetOf(e)
    BY Positions DEF IInv, TypeOK, Threads, Resets
  <2>2. main \in {"stop", "join"} <=> returnTo # "none"
    BY DEF IInv, Threads
  <2>3. ASSUME NEW e \in Enclave
        PROVE  /\ resets[e] <= 1 /\ (app[e] # "none" /\ hpc[e] = "reset" => ~reset_index[e])
               /\ Measuring => resets[e] = 1
    <3>1. e \in Int /\ ThreadsOf(e) /\ ResetOf(e)
      BY <2>1
    <3>2. Measuring => ~Unmarked(e) /\ ~Marked(e) /\ ~Rebuilding(e)
      BY ONLY <2>1, <2>2, <3>1 DEF Measuring, Unmarked, Marked, Rebuilding, Collecting,
         Waiting
    <3>3. HasApplication(e) => ~Marked(e) /\ ~Rebuilding(e)
      BY ONLY <2>1, <2>2, <3>1
         DEF HasApplication, Unmarked, Marked, Rebuilding, Collecting, Waiting
    <3>4. app[e] # "none" => ~reset_index[e]
      BY ONLY <3>1, <3>3 DEF ThreadsOf, ResetOf
    <3>5. Measuring => resets[e] = 1
      BY ONLY <3>1, <3>2 DEF ResetOf
    <3>6. resets[e] \in {0, 1}
      BY ONLY <3>1 DEF ResetOf
    <3>7. QED
      BY <3>4, <3>5, <3>6
  <2>4. QED
    BY <2>3 DEF ResetOnce
<1>2. QED
  BY <1>1, Invariant, PTL

\* The enclaves share the initial size out between them without loss, and all
\* of it has been handed to the helpers when the indices are rebuilt
\* (populate_begin, populate_end).
THEOREM PopulationComplete == Spec => []PopulatesInitial
<1>1. IInv => PopulatesInitial
  <2> SUFFICES ASSUME IInv, main \in {"rebuild", "wait"}
               PROVE  MapThenSumSet(LAMBDA e : published[e], Enclave) = initial
    BY DEF PopulatesInitial
  <2>1. initial \in Nat /\ published \in [Enclave -> Nat]
    BY BoundAssumption DEF IInv, TypeOK
  <2>2. \A e \in Enclave : published[e] = Share(e)
    BY DEF IInv, Handed, HandedOf, Populated, Waiting
  <2>3. QED
    BY <2>1, <2>2, SharesAddUp
<1>2. QED
  BY <1>1, Invariant, PTL

\* An enclave is deleted when both of its threads have been joined, and its
\* destructor finds the flag finished set (main, delete enclaves[i]).
THEOREM CleanupIsSafe == Spec => []CleanupSafe
<1>1. IInv => CleanupSafe
  <2> SUFFICES ASSUME IInv, NEW e \in deleted
               PROVE  hpc[e] = "none" /\ app[e] = "none" /\ finished[e] /\ ~running[e]
    BY DEF CleanupSafe, IInv
  <2>1. e \in Enclave /\ e \in Int /\ k \in Int /\ ThreadsOf(e)
    BY Positions DEF IInv, TypeOK, Threads
  <2>2. /\ main \in {"stop", "join"} <=> returnTo # "none"
        /\ returnTo \in {"none", "reset", "restart", "delete"}
    BY DEF IInv, Threads, TypeOK
  <2>3. (Cleaning /\ e < k) \/ main = "done"
    BY <2>1 DEF ThreadsOf
  <2>4. ~HasHelper(e) /\ ~HasApplication(e)
    BY <2>1, <2>2, <2>3 DEF HasHelper, HasApplication, Collecting, Waiting, Cleaning,
       Measuring
  <2>5. QED
    BY <2>1, <2>4 DEF ThreadsOf
<1>2. QED
  BY <1>1, Invariant, PTL
=============================================================================
