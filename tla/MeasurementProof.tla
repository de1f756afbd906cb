-------------------------- MODULE MeasurementProof --------------------------
(***************************************************************************)
(* Proofs about Measurement for any number of threads, keys, modes and     *)
(* operations.                                                             *)
(*                                                                         *)
(* The books that main adds up only close at the end, so the invariant     *)
(* keeps them balanced all the way: the sum over ALL the threads of what   *)
(* each has added to the set, an operation that has taken effect but is    *)
(* not counted yet included, is what the set has grown; and the sums that  *)
(* main holds are those of the threads it has joined, which have returned. *)
(* In the alternate mode every key that a thread has put into the set is   *)
(* kept for it until its own delete takes effect.  Until the last party    *)
(* arrives, crossing counts the parties that have.                         *)
(***************************************************************************)
EXTENDS Measurement, TLAPS, FiniteSetTheorems, WellFoundedInduction

\* The types TypeOK leaves out, and which party may be where.
Shape ==
  /\ TypeOK
  /\ call \in [Thread -> Data!Call \cup {NoCall}]
  /\ answer \in [Thread -> {"none", "yes", "no"}]
  /\ {sum.reads, sum.effreads, sum.updates, sum.effupds, sum.size} \subseteq Int
  /\ \A t \in Thread : pc[t] \notin {"join", "done"}
  /\ pc[MainThread] \notin {"loop", "operation", "result", "returned"}
  /\ pc[MainThread] \in {"arrive", "wait", "crossed"} => joined = 0
  /\ pc[MainThread] = "join" => joined < NbThreads
  /\ pc[MainThread] = "done" => joined = NbThreads

Active(t) == pc[t] \in {"operation", "result"}

\* The operation of a thread is the one otype names; its answer is there from
\* the step that takes effect until the step that counts it.
Calling ==
  \A t \in Thread :
    /\ Active(t) => /\ call[t] \in Data!Call /\ call[t].op = otype[t]
                    /\ otype[t] = "INSERT" => call[t].key \in Key
                    /\ otype[t] = "CONTAINS" \/ unext[t]
    /\ pc[t] = "result" => answer[t] # "none"
    /\ pc[t] \notin {"result", "exited"} => answer[t] = "none"

\* What the operation of thread t has done to the size of the set and has not
\* been counted yet.
Uncounted(t) ==
  IF pc[t] = "result" /\ answer[t] = "yes"
  THEN CASE otype[t] = "INSERT" -> 1 [] otype[t] = "DELETE" -> -1 [] OTHER -> 0
  ELSE 0

\* What thread t has added to the size of the set.
Grown == [t \in Thread |-> ares[t]["added"] - ares[t]["removed"] + Uncounted(t)]

\* The books that main keeps, with all the threads up to joined behind it.
Balanced ==
  /\ Sums(Grown)[NbThreads] = Cardinality(set) - Cardinality(start)
  /\ Sums(Grown)[joined] = sum.size - Cardinality(start)
  /\ Sums(AllOps)[joined] = sum.reads + sum.updates
  /\ Sums(AllOps)[joined] = sum.effreads + sum.effupds
  /\ \A t \in 1 .. joined : pc[t] = "returned"

Books == pc[MainThread] # "exited" => Balanced

\* The key that thread t has put into the set and not taken out again.
Fresh(t) == pc[t] = "result" /\ otype[t] = "INSERT" /\ answer[t] = "yes"
Gone(t)  == pc[t] = "result" /\ otype[t] = "DELETE"
Mine(t)  == IF Fresh(t) THEN call[t].key ELSE last[t]
Holds(t) == pc[t] # "exited" /\ (Fresh(t) \/ (last[t] >= 0 /\ ~Gone(t)))

Own ==
  mode.alternate /\ mode.update > 0 =>
    /\ start \subseteq set
    /\ \A t \in Thread :
         /\ ares[t]["remove"] = ares[t]["removed"]
         /\ Active(t) /\ otype[t] = "INSERT" => last[t] < 0
         /\ Active(t) /\ otype[t] = "DELETE" => last[t] >= 0 /\ call[t].key = last[t]
         /\ Gone(t) => answer[t] = "yes"
         /\ Holds(t) => Mine(t) \in set \ start
         /\ \A u \in Thread \ {t} : Holds(t) /\ Holds(u) => Mine(t) # Mine(u)

\* A success is counted once only, and follows the rate.
Paced ==
  \A t \in Thread :
    /\ Eff(t) <= Ops(t)
    /\ pc[t] \in {"arrive", "wait", "crossed"} => Ops(t) = 0
    /\ mode.effective /\ Ops(t) > 0 /\ unext[t] => 100 * Eff(t) < mode.update * Ops(t)

NoDeletes == ~mode.alternate => \A t \in Thread : otype[t] # "DELETE"

\* Until the last party has arrived, crossing counts those that have.
Gathering ==
  (\E q \in Parties : pc[q] = "arrive") =>
    /\ crossing = Cardinality({p \in Parties : pc[p] # "arrive"})
    /\ \A p \in Parties \ early : pc[p] \in {"arrive", "wait"}

IInv == Shape /\ Calling /\ Books /\ Own /\ Paced /\ RateNotExceeded /\ NoDeletes /\ Gathering
-----------------------------------------------------------------------------
(* Sums over the threads, by induction in the form of the least counterexample. *)

\* Every nonempty set of natural numbers has a least element.
LEMMA Least ==
  ASSUME NEW T \in SUBSET Nat, T # {}
  PROVE  \E x \in T : \A y \in T : x <= y
<1> DEFINE R == OpToRel(<, Nat)
<1>1. IsWellFoundedOn(R, Nat)
  BY NatLessThanWellFounded
<1>2. PICK x \in T : \A y \in T : ~(<<y, x>> \in R)
  <2> HIDE DEF R
  <2> QED
    BY <1>1, WFMin
<1>3. \A y \in T : y < x => <<y, x>> \in R
  BY DEF OpToRel
<1>4. \A y \in T : x \in Nat /\ y \in Nat /\ ~(y < x)
  <2> HIDE DEF R
  <2> QED
    BY <1>2, <1>3
<1>5. QED
  BY <1>4

\* f[n] is h[1] + ... + h[n], as far as m.
AreSums(f, h, m) ==
  f \in [0 .. m -> Int] /\ f[0] = 0 /\ \A n \in 1 .. m : f[n] = f[n - 1] + h[n]

\* There are such sums.
LEMMA SumsExist ==
  ASSUME NEW h \in [Thread -> Int]
  PROVE  \A m \in 0 .. NbThreads : \E f \in [0 .. m -> Int] : AreSums(f, h, m)
<1> USE ThreadsAssumption DEF Thread
<1> DEFINE T == {m \in Nat : m <= NbThreads /\ ~\E f \in [0 .. m -> Int] : AreSums(f, h, m)}
<1> SUFFICES ASSUME T # {} PROVE FALSE
  <2>1. \A m \in 0 .. NbThreads : m \in Nat /\ m <= NbThreads
    OBVIOUS
  <2>2. QED
    BY <2>1
<1>1. PICK m \in T : \A k \in T : m <= k
  BY Least
<1>2. m # 0
  <2>1. AreSums([x \in 0 .. 0 |-> 0], h, 0) /\ [x \in 0 .. 0 |-> 0] \in [0 .. 0 -> Int]
    BY DEF AreSums
  <2>2. QED
    BY <2>1
<1>3. m - 1 \in Nat /\ m - 1 \notin T /\ m \in Nat /\ m <= NbThreads
  BY <1>1, <1>2
<1>4. PICK f \in [0 .. m - 1 -> Int] : AreSums(f, h, m - 1)
  BY <1>3
<1> DEFINE e == [x \in 0 .. m |-> IF x = m THEN f[m - 1] + h[m] ELSE f[x]]
<1>5. e \in [0 .. m -> Int]
  BY <1>2, <1>3, <1>4
<1>6. AreSums(e, h, m)
  <2>1. e[0] = 0
    BY <1>2, <1>3, <1>4 DEF AreSums
  <2>2. ASSUME NEW n \in 1 .. m PROVE e[n] = e[n - 1] + h[n]
    <3>1. CASE n = m
      BY <3>1, <1>2, <1>3, <1>4
    <3>2. CASE n # m
      <4>1. n \in 1 .. m - 1
        BY <3>2, <1>3
      <4>2. e[n] = f[n] /\ e[n - 1] = f[n - 1]
        BY <4>1, <3>2, <1>3
      <4>3. QED
        BY <4>1, <4>2, <1>4 DEF AreSums
    <3>3. QED
      BY <3>1, <3>2
  <2> HIDE DEF e
  <2>3. QED
    BY <2>1, <2>2, <1>5 DEF AreSums
<1>7. QED
  BY <1>1, <1>5, <1>6

\* Sums(h) are the sums of h.
LEMMA SumsAre ==
  ASSUME NEW h \in [Thread -> Int]
  PROVE  AreSums(Sums(h), h, NbThreads)
<1> USE ThreadsAssumption DEF Thread
<1>1. PICK f \in [0 .. NbThreads -> Int] : AreSums(f, h, NbThreads)
  BY SumsExist
<1>2. f = [n \in 0 .. NbThreads |-> IF n = 0 THEN 0 ELSE f[n - 1] + h[n]]
  BY <1>1 DEF AreSums
<1> DEFINE s == Sums(h)
<1>3. s = [n \in 0 .. NbThreads |-> IF n = 0 THEN 0 ELSE s[n - 1] + h[n]]
  BY <1>2 DEF Sums
<1> HIDE DEF s
<1>4. \A n \in 0 .. NbThreads : s[n] = f[n]
  <2> DEFINE T == {n \in Nat : n <= NbThreads /\ s[n] # f[n]}
  <2> SUFFICES ASSUME T # {} PROVE FALSE
    <3>1. \A n \in 0 .. NbThreads : n \in Nat /\ n <= NbThreads
      OBVIOUS
    <3>2. QED
      BY <3>1
  <2>1. PICK m \in T : \A k \in T : m <= k
    BY Least
  <2>2. CASE m = 0
    BY <2>1, <2>2, <1>3, <1>1 DEF AreSums
  <2>3. CASE m # 0
    <3>1. m - 1 \in Nat /\ m - 1 \notin T /\ m \in 0 .. NbThreads
      BY <2>1, <2>3
    <3>2. QED
      BY <3>1, <2>1, <2>3, <1>3, <1>1 DEF AreSums
  <2>4. QED
    BY <2>2, <2>3
<1>5. s = f
  BY <1>4, <1>3, <1>1
<1>6. QED
  BY <1>5, <1>1 DEF s

LEMMA SumsNext ==
  ASSUME NEW h \in [Thread -> Int], NEW n \in Nat, n + 1 \in Thread
  PROVE  Sums(h)[n + 1] = Sums(h)[n] + h[n + 1]
<1>1. AreSums(Sums(h), h, NbThreads)
  BY SumsAre
<1>2. n + 1 \in 1 .. NbThreads /\ n + 1 - 1 = n
  BY DEF Thread
<1>3. QED
  BY <1>1, <1>2 DEF AreSums

\* When one term grows by d, so do the sums from it on.
LEMMA SumsChange ==
  ASSUME NEW h \in [Thread -> Int], NEW g \in [Thread -> Int], NEW t \in Thread,
         NEW d \in Int, \A u \in Thread : g[u] = h[u] + (IF u = t THEN d ELSE 0)
  PROVE  \A n \in 0 .. NbThreads : Sums(g)[n] = Sums(h)[n] + (IF n >= t THEN d ELSE 0)
<1> USE ThreadsAssumption DEF Thread
<1> DEFINE x == Sums(h)
           y == Sums(g)
<1>1. AreSums(x, h, NbThreads) /\ AreSums(y, g, NbThreads)
  BY SumsAre
<1> HIDE DEF x, y
<1>2. \A n \in 0 .. NbThreads : y[n] = x[n] + (IF n >= t THEN d ELSE 0)
  <2> DEFINE T == {n \in Nat : n <= NbThreads /\ y[n] # x[n] + (IF n >= t THEN d ELSE 0)}
  <2> SUFFICES ASSUME T # {} PROVE FALSE
    <3>1. \A n \in 0 .. NbThreads : n \in Nat /\ n <= NbThreads
      OBVIOUS
    <3>2. QED
      BY <3>1
  <2>1. PICK m \in T : \A k \in T : m <= k
    BY Least
  <2>2. CASE m = 0
    BY <2>1, <2>2, <1>1 DEF AreSums
  <2>3. CASE m # 0
    <3>1. m - 1 \in Nat /\ m - 1 \notin T /\ m \in Thread
      BY <2>1, <2>3
    <3>2. x[m] = x[m - 1] + h[m] /\ y[m] = y[m - 1] + g[m]
      BY <3>1, <1>1 DEF AreSums
    <3>3. x[m - 1] \in Int /\ y[m - 1] = x[m - 1] + (IF m - 1 >= t THEN d ELSE 0)
      BY <3>1, <1>1 DEF AreSums
    <3>4. QED
      BY <3>1, <3>2, <3>3, <2>1
  <2>4. QED
    BY <2>2, <2>3
<1>3. QED
  BY <1>2 DEF x, y

-----------------------------------------------------------------------------
(* What the steps of a thread do, in the words of the invariant.           *)

LEMMA Facts ==
  /\ MainThread \notin Thread /\ Parties = Thread \cup {MainThread}
  /\ Thread = 1 .. NbThreads /\ NbThreads \in Nat /\ NbThreads > 1
  /\ Key \subseteq Nat \ {0} /\ \A k \in Key \cup {-1, 0} : k \in Int
  /\ \A k \in Key \cup {0} : k >= 0
  /\ \A c \in Data!Call : c.op \in {"CONTAINS", "DELETE", "INSERT"} /\ c.key \in Key \cup {0}
  /\ Data!Optype = {"CONTAINS", "DELETE", "INSERT"}
  BY ThreadsAssumption, KeyAssumption DEF Thread, Parties, MainThread, Data!Call,
     Data!Optype

\* update_results counts the attempt, and the success if there was one.
LEMMA CountIs ==
  ASSUME Shape, Calling, NEW t \in Thread, pc[t] = "result"
  PROVE  LET r == Counted(t)
             a == ares[t]
             n(op) == IF otype[t] = op THEN 1 ELSE 0
             s(op) == IF otype[t] = op /\ answer[t] = "yes" THEN 1 ELSE 0
         IN  /\ r \in [Counter -> Nat]
             /\ r["add"] = a["add"] + n("INSERT") /\ r["added"] = a["added"] + s("INSERT")
             /\ r["remove"] = a["remove"] + n("DELETE")
             /\ r["removed"] = a["removed"] + s("DELETE")
             /\ r["contains"] = a["contains"] + n("CONTAINS")
             /\ r["found"] = a["found"] + s("CONTAINS")
<1>1. otype[t] \in {"CONTAINS", "DELETE", "INSERT"}
  BY Facts DEF Calling, Active
<1>2. ares[t] \in [Counter -> Nat]
  BY DEF Shape, TypeOK
<1>3. CASE otype[t] = "INSERT"
  BY <1>3, <1>2 DEF Counted, Tried, Done, Counter
<1>4. CASE otype[t] = "DELETE"
  BY <1>4, <1>2 DEF Counted, Tried, Done, Counter
<1>5. CASE otype[t] = "CONTAINS"
  BY <1>5, <1>2 DEF Counted, Tried, Done, Counter
<1>6. QED
  BY <1>1, <1>3, <1>4, <1>5

\* The operation c that thread t may choose.
MayChoose(t, c) ==
  \/ c.op = "INSERT" /\ c.key \in Key /\ unext[t] /\ last[t] < 0 /\ last' = last
  \/ /\ c.op = "DELETE" /\ c.key = last[t] /\ unext[t] /\ last[t] >= 0
     /\ mode.alternate /\ last' = last
  \/ /\ c.op = otype[t] /\ c.key \in Key /\ unext[t] /\ last[t] >= 0
     /\ ~mode.alternate /\ last' = last
  \/ c.op = "CONTAINS" /\ ~unext[t] /\ last' = last
  \/ /\ c.op = "CONTAINS" /\ ~unext[t] /\ mode.alternate /\ mode.update = 0
     /\ \E k \in Key \cup {-1, 0} : last' = [last EXCEPT ![t] = k]

LEMMA ChooseIs ==
  ASSUME Shape, NEW t \in Thread, Choose(t)
  PROVE  \E c \in Data!Call :
           /\ call' = [call EXCEPT ![t] = c] /\ otype' = [otype EXCEPT ![t] = c.op]
           /\ MayChoose(t, c)
<1>1. PICK c \in Data!Call : call' = [call EXCEPT ![t] = c]
  BY DEF Choose, Data!Invoke
<1>2. call'[t] = c /\ c.op = otype'[t] /\ last \in [Thread -> Key \cup {-1, 0}]
      /\ otype \in [Thread -> Data!Optype \cup {"none"}] /\ first \in Key \cup {0}
  BY <1>1 DEF Choose, Shape, TypeOK
<1>3. otype' = [otype EXCEPT ![t] = c.op] /\ MayChoose(t, c)
  <2>1. CASE Update(t)
    <3>1. CASE last[t] < 0
      BY <1>2, <2>1, <3>1 DEF Update, MayChoose
    <3>2. CASE last[t] >= 0 /\ mode.alternate
      BY <1>2, <2>1, <3>2 DEF Update, MayChoose
    <3>3. CASE last[t] >= 0 /\ ~mode.alternate
      BY <1>2, <2>1, <3>3 DEF Update, MayChoose
    <3>4. last[t] < 0 \/ last[t] >= 0
      <4>1. last[t] \in Key \cup {-1, 0}
        BY <1>2
      <4>2. last[t] \in Int
        BY <4>1, Facts
      <4>3. QED
        BY <4>2
    <3>5. QED
      BY <3>1, <3>2, <3>3, <3>4
  <2>2. CASE Read(t)
    <3>1. CASE mode.alternate /\ mode.update = 0
      BY <1>2, <2>2, <3>1 DEF Read, MayChoose
    <3>2. CASE ~(mode.alternate /\ mode.update = 0)
      BY <1>2, <2>2, <3>2 DEF Read, MayChoose
    <3>3. QED
      BY <3>1, <3>2
  <2>3. QED
    BY <2>1, <2>2 DEF Choose
<1>4. QED
  BY <1>1, <1>3

\* The effect of an operation on the set.
MayDo(t, k, a) ==
  \/ otype[t] = "CONTAINS" /\ set' = set
  \/ otype[t] = "INSERT" /\ k \in Key /\ k \notin set /\ set' = set \cup {k} /\ a = "yes"
  \/ otype[t] = "INSERT" /\ k \in Key /\ k \in set /\ set' = set /\ a = "no"
  \/ otype[t] = "DELETE" /\ k \in set /\ set' = set \ {k} /\ a = "yes"
  \/ otype[t] = "DELETE" /\ k \notin set /\ set' = set /\ a = "no"

LEMMA OperationIs ==
  ASSUME Shape, Calling, NEW t \in Thread, Operation(t)
  PROVE  /\ call[t].key \in Key \cup {0}
         /\ \E a \in {"yes", "no"} :
              answer' = [answer EXCEPT ![t] = a] /\ MayDo(t, call[t].key, a)
<1>1. /\ pc[t] = "operation"
      /\ call[t] \in Data!Call /\ call[t].op = otype[t]
      /\ otype[t] = "INSERT" => call[t].key \in Key
  BY DEF Operation, Calling, Active
<1>2. call[t].op \in {"CONTAINS", "DELETE", "INSERT"} /\ call[t].key \in Key \cup {0}
  BY <1>1, Facts
<1> DEFINE a == IF Data!Succeeds(call[t]) THEN "yes" ELSE "no"
<1>3. answer' = [answer EXCEPT ![t] = a] /\ set' = Data!After(call[t])
  BY DEF Operation, Data!TakeEffect
<1>4. MayDo(t, call[t].key, a)
  <2>1. CASE otype[t] = "CONTAINS"
    BY <1>1, <1>2, <1>3, <2>1 DEF Data!Succeeds, Data!After, MayDo
  <2>2. CASE otype[t] = "INSERT"
    BY <1>1, <1>2, <1>3, <2>2 DEF Data!Succeeds, Data!After, MayDo
  <2>3. CASE otype[t] = "DELETE"
    BY <1>1, <1>2, <1>3, <2>3 DEF Data!Succeeds, Data!After, MayDo
  <2>4. QED
    BY <1>1, <1>2, <2>1, <2>2, <2>3
<1>5. QED
  BY <1>2, <1>3, <1>4

\* Arriving moves nobody but the one that arrives and those that wait.
LEMMA ArriveIs ==
  ASSUME TypeOK, NEW p \in Parties, Arrive(p)
  PROVE  /\ pc[p] = "arrive" /\ pc'[p] \in {"wait", "crossed"}
         /\ \A q \in Parties : \/ pc'[q] = pc[q]
                               \/ q = p
                               \/ pc[q] = "wait" /\ pc'[q] = "crossed"
         /\ \A q \in Parties : \/ pc'[q] = pc[q]
                               \/ pc[q] \in {"arrive", "wait"} /\ pc'[q] \in {"wait", "crossed"}
<1>1. CASE pc' = [pc EXCEPT ![p] = "wait"]
  BY <1>1 DEF Arrive, TypeOK
<1>2. CASE pc' = [q \in Parties |-> IF q = p \/ pc[q] = "wait" THEN "crossed" ELSE pc[q]]
  BY <1>2 DEF Arrive, TypeOK
<1>3. QED
  BY <1>1, <1>2 DEF Arrive

\* What main adds for the next thread it joins.
LEMMA JoinIs ==
  ASSUME Shape, JoinNext
  PROVE  LET r == ares[joined + 1] IN
         /\ joined \in Nat /\ joined + 1 \in Thread /\ r \in [Counter -> Nat]
         /\ sum'.reads = sum.reads + r["contains"]
         /\ sum'.effreads = sum.effreads + r["contains"] + (r["add"] - r["added"])
                                         + (r["remove"] - r["removed"])
         /\ sum'.updates = sum.updates + r["add"] + r["remove"]
         /\ sum'.effupds = sum.effupds + r["removed"] + r["added"]
         /\ sum'.size = sum.size + r["added"] - r["removed"]
         /\ {sum'.reads, sum'.effreads, sum'.updates, sum'.effupds, sum'.size} \subseteq Int
<1> DEFINE r == ares[joined + 1]
<1>1. joined \in Nat /\ joined + 1 \in Thread
  BY ThreadsAssumption DEF JoinNext, Shape, TypeOK, Thread
<1>2. r \in [Counter -> Nat]
  BY <1>1 DEF Shape, TypeOK
<1>3. /\ r["contains"] \in Int /\ r["add"] \in Int /\ r["added"] \in Int
      /\ r["remove"] \in Int /\ r["removed"] \in Int
  BY <1>2 DEF Counter
<1>4. /\ sum.reads \in Int /\ sum.effreads \in Int /\ sum.updates \in Int
      /\ sum.effupds \in Int /\ sum.size \in Int
  BY DEF Shape
<1>5. /\ sum'.reads = sum.reads + r["contains"]
      /\ sum'.effreads = sum.effreads + r["contains"] + (r["add"] - r["added"])
                                      + (r["remove"] - r["removed"])
      /\ sum'.updates = sum.updates + r["add"] + r["remove"]
      /\ sum'.effupds = sum.effupds + r["removed"] + r["added"]
      /\ sum'.size = sum.size + r["added"] - r["removed"]
  BY DEF JoinNext
<1>6. {sum'.reads, sum'.effreads, sum'.updates, sum'.effupds, sum'.size} \subseteq Int
  <2> HIDE DEF r
  <2>1. sum'.reads \in Int
    BY <1>3, <1>4, <1>5
  <2>2. sum'.effreads \in Int
    BY <1>3, <1>4, <1>5
  <2>3. sum'.updates \in Int
    BY <1>3, <1>4, <1>5
  <2>4. sum'.effupds \in Int
    BY <1>3, <1>4, <1>5
  <2>5. sum'.size \in Int
    BY <1>3, <1>4, <1>5
  <2>6. QED
    BY <2>1, <2>2, <2>3, <2>4, <2>5
<1>7. QED
  BY <1>1, <1>2, <1>5, <1>6

-----------------------------------------------------------------------------
\* A step of the system is a step of main, of a thread, or a spurious wake-up.
LEMMA Steps ==
  ASSUME [Next]_vars
  PROVE  \/ \E p \in Parties : Arrive(p)
         \/ \E t \in Thread : \/ FirstDraw(t) \/ Choose(t) \/ Operation(t) \/ Result(t)
                              \/ Exit(t) \/ LeaveLoop(t)
         \/ Stop \/ JoinNext \/ (\E p \in Parties : SpuriousWakeup(p)) \/ UNCHANGED vars
  BY DEF Next, Main, Application, Parties

LEMMA ShapeStep == IInv /\ [Next]_vars => Shape'
<1> SUFFICES ASSUME IInv, Shape, Calling, TypeOK, [Next]_vars PROVE Shape'
  BY DEF IInv, Shape
<1> USE Facts DEF given, barrier, data, loop, summing
<1>1. ASSUME NEW p \in Parties, Arrive(p) PROVE Shape'
  <2>1. crossing' \in 0 .. count - 1
    BY <1>1 DEF Arrive, TypeOK
  <2>2. CASE pc' = [pc EXCEPT ![p] = "wait"]
    BY <1>1, <2>1, <2>2 DEF Arrive, Shape, TypeOK
  <2>3. CASE pc' = [q \in Parties |-> IF q = p \/ pc[q] = "wait" THEN "crossed" ELSE pc[q]]
    BY <1>1, <2>1, <2>3 DEF Arrive, Shape, TypeOK
  <2>4. QED
    BY <1>1, <2>2, <2>3 DEF Arrive
<1>2. ASSUME NEW t \in Thread, FirstDraw(t) PROVE Shape'
  <2>1. unext' \in [Thread -> BOOLEAN]
    BY <1>2 DEF FirstDraw, Shape, TypeOK, Drawn
  <2>2. QED
    BY <1>2, <2>1 DEF FirstDraw, Shape, TypeOK
<1>3. ASSUME NEW t \in Thread, Choose(t) PROVE Shape'
  <2>1. PICK c \in Data!Call : /\ call' = [call EXCEPT ![t] = c]
                               /\ otype' = [otype EXCEPT ![t] = c.op] /\ MayChoose(t, c)
    BY <1>3, ChooseIs
  <2>2. last' \in [Thread -> Key \cup {-1, 0}]
    BY <2>1 DEF MayChoose, TypeOK
  <2>3. otype' \in [Thread -> Data!Optype \cup {"none"}]
    BY <2>1 DEF TypeOK
  <2>4. answer' = answer /\ set' = set
    BY <1>3 DEF Choose, Data!Invoke
  <2>5. QED
    BY <1>3, <2>1, <2>2, <2>3, <2>4 DEF Choose, Shape, TypeOK
<1>4. ASSUME NEW t \in Thread, Operation(t) PROVE Shape'
  <2>1. PICK a \in {"yes", "no"} : /\ answer' = [answer EXCEPT ![t] = a]
                                   /\ MayDo(t, call[t].key, a)
    BY <1>4, OperationIs
  <2>2. set' \subseteq Key /\ call' = call
    BY <1>4, <2>1 DEF MayDo, TypeOK, Operation, Data!TakeEffect
  <2>3. QED
    BY <1>4, <2>1, <2>2 DEF Operation, Shape, TypeOK
<1>5. ASSUME NEW t \in Thread, Result(t) PROVE Shape'
  <2>1. Counted(t) \in [Counter -> Nat]
    BY <1>5, CountIs DEF Result
  <2>2. last' \in [Thread -> Key \cup {-1, 0}]
    BY <1>5 DEF Result, Remembered, TypeOK, Calling, Active
  <2>3. published' \in [Thread -> 0 .. Room]
    BY <1>5, BoundAssumption DEF Result, Fits, TypeOK
  <2>4. unext' \in [Thread -> BOOLEAN]
    <3>1. Rate(t) \subseteq BOOLEAN
      BY DEF Rate, Drawn
    <3>2. QED
      BY <1>5, <3>1 DEF Result, TypeOK
  <2>5. /\ call' = [call EXCEPT ![t] = NoCall] /\ answer' = [answer EXCEPT ![t] = "none"]
        /\ set' = set
    BY <1>5 DEF Result, Data!Return
  <2>6. QED
    BY <1>5, <2>1, <2>2, <2>3, <2>4, <2>5 DEF Result, Shape, TypeOK
<1>6. ASSUME NEW t \in Thread, Exit(t) PROVE Shape'
  BY <1>6 DEF Exit, Shape, TypeOK
<1>7. ASSUME NEW t \in Thread, LeaveLoop(t) PROVE Shape'
  BY <1>7 DEF LeaveLoop, Shape, TypeOK
<1>8. CASE Stop
  BY <1>8 DEF Stop, Shape, TypeOK
<1>9. CASE JoinNext
  <2>1. joined + 1 \in Thread /\ ares[joined + 1] \in [Counter -> Nat]
    BY <1>9 DEF JoinNext, Shape, TypeOK
  <2>2. {sum'.reads, sum'.effreads, sum'.updates, sum'.effupds, sum'.size} \subseteq Int
    BY <1>9, JoinIs
  <2>3. /\ joined' \in 0 .. NbThreads
        /\ joined' # NbThreads => joined' < NbThreads
    BY <1>9, <2>1 DEF JoinNext, TypeOK
  <2>4. \/ pc' = [pc EXCEPT ![MainThread] = "done"] /\ joined' = NbThreads
        \/ pc' = [pc EXCEPT ![MainThread] = "join"] /\ joined' # NbThreads
    BY <1>9 DEF JoinNext
  <2>5. TypeOK'
    BY <1>9, <2>3, <2>4 DEF JoinNext, TypeOK
  <2>6. QED
    BY <1>9, <2>2, <2>3, <2>4, <2>5 DEF JoinNext, Shape, TypeOK
<1>10. ASSUME NEW p \in Parties, SpuriousWakeup(p) PROVE Shape'
  BY <1>10 DEF SpuriousWakeup, Shape, TypeOK
<1>11. CASE UNCHANGED vars
  BY <1>11 DEF vars, Shape, TypeOK
<1>12. QED
  BY <1>1, <1>2, <1>3, <1>4, <1>5, <1>6, <1>7, <1>8, <1>9, <1>10, <1>11, Steps

-----------------------------------------------------------------------------
LEMMA CallingStep == IInv /\ [Next]_vars => Calling'
<1> SUFFICES ASSUME IInv, Shape, Calling, TypeOK, [Next]_vars PROVE Calling'
  BY DEF IInv, Shape
<1> USE DEF given, barrier, data, loop, summing, Active
<1>1. ASSUME NEW p \in Parties, Arrive(p) PROVE Calling'
  <2>1. \A u \in Thread :
          \/ pc'[u] = pc[u]
          \/ pc[u] \in {"arrive", "wait"} /\ pc'[u] \in {"wait", "crossed"}
    BY <1>1, ArriveIs, Facts
  <2>2. QED
    BY <1>1, <2>1 DEF Arrive, Calling
<1>2. ASSUME NEW t \in Thread, FirstDraw(t) PROVE Calling'
  <2>1. \A u \in Thread \ {t} : pc'[u] = pc[u] /\ unext'[u] = unext[u]
    BY <1>2, Facts DEF FirstDraw, TypeOK, Drawn
  <2>2. pc'[t] = "loop" /\ pc[t] = "crossed"
    BY <1>2, Facts DEF FirstDraw, TypeOK
  <2>3. QED
    BY <1>2, <2>1, <2>2 DEF FirstDraw, Calling
<1>3. ASSUME NEW t \in Thread, Choose(t) PROVE Calling'
  <2>1. PICK c \in Data!Call : /\ call' = [call EXCEPT ![t] = c]
                               /\ otype' = [otype EXCEPT ![t] = c.op] /\ MayChoose(t, c)
    BY <1>3, ChooseIs
  <2>2. /\ call'[t] = c /\ otype'[t] = c.op /\ pc'[t] = "operation" /\ pc[t] = "loop"
        /\ unext' = unext /\ answer' = answer
    BY <1>3, <2>1, Facts DEF Choose, Data!Invoke, Shape, TypeOK
  <2>3. \A u \in Thread \ {t} :
          pc'[u] = pc[u] /\ call'[u] = call[u] /\ otype'[u] = otype[u]
    BY <1>3, <2>1, Facts DEF Choose, Shape, TypeOK
  <2>4. /\ c.op = "INSERT" => c.key \in Key
        /\ c.op = "CONTAINS" \/ unext[t]
    BY <2>1 DEF MayChoose
  <2>5. QED
    BY <2>2, <2>3, <2>4 DEF Calling
<1>4. ASSUME NEW t \in Thread, Operation(t) PROVE Calling'
  <2>1. PICK a \in {"yes", "no"} : answer' = [answer EXCEPT ![t] = a]
    BY <1>4, OperationIs
  <2>2. /\ call' = call /\ pc[t] = "operation" /\ pc'[t] = "result"
        /\ answer'[t] = a /\ otype' = otype /\ unext' = unext
        /\ \A u \in Thread \ {t} : pc'[u] = pc[u] /\ answer'[u] = answer[u]
    BY <1>4, <2>1, Facts DEF Operation, Data!TakeEffect, Shape, TypeOK
  <2>3. QED
    BY <2>2 DEF Calling
<1>5. ASSUME NEW t \in Thread, Result(t) PROVE Calling'
  <2>1. /\ pc[t] = "result" /\ pc'[t] = "loop" /\ answer'[t] = "none" /\ otype' = otype
        /\ \A u \in Thread \ {t} : /\ pc'[u] = pc[u] /\ answer'[u] = answer[u]
                                   /\ call'[u] = call[u]
    BY <1>5, Facts DEF Result, Data!Return, Shape, TypeOK
  <2>2. \A u \in Thread \ {t} : unext'[u] = unext[u]
    BY <1>5 DEF Result, Shape, TypeOK
  <2>3. QED
    BY <2>1, <2>2 DEF Calling
<1>6. ASSUME NEW t \in Thread, Exit(t) PROVE Calling'
  BY <1>6, Facts DEF Exit, Calling
<1>7. ASSUME NEW t \in Thread, LeaveLoop(t) PROVE Calling'
  BY <1>7, Facts DEF LeaveLoop, Calling, TypeOK
<1>8. CASE Stop
  BY <1>8, Facts DEF Stop, Calling, TypeOK
<1>9. CASE JoinNext
  BY <1>9, Facts DEF JoinNext, Calling, TypeOK
<1>10. ASSUME NEW p \in Parties, SpuriousWakeup(p) PROVE Calling'
  BY <1>10, Facts DEF SpuriousWakeup, Calling, TypeOK
<1>11. CASE UNCHANGED vars
  BY <1>11 DEF vars, Calling
<1>12. QED
  BY <1>1, <1>2, <1>3, <1>4, <1>5, <1>6, <1>7, <1>8, <1>9, <1>10, <1>11, Steps

LEMMA NoDeletesStep == IInv /\ [Next]_vars => NoDeletes'
<1> SUFFICES ASSUME IInv, Shape, TypeOK, NoDeletes, [Next]_vars, ~mode.alternate
             PROVE \A t \in Thread : otype'[t] # "DELETE"
  BY DEF IInv, Shape, NoDeletes, Next, Main, Application, Arrive, FirstDraw, Choose,
         Operation, Result, Exit, LeaveLoop, Stop, JoinNext, SpuriousWakeup, vars, given
<1>1. ASSUME NEW t \in Thread, Choose(t) PROVE \A u \in Thread : otype'[u] # "DELETE"
  <2>1. PICK c \in Data!Call : otype' = [otype EXCEPT ![t] = c.op] /\ MayChoose(t, c)
    BY <1>1, ChooseIs
  <2>2. c.op # "DELETE"
    BY <2>1 DEF MayChoose, NoDeletes
  <2>3. QED
    BY <2>1, <2>2 DEF NoDeletes, TypeOK
<1>2. CASE UNCHANGED otype
  BY <1>2 DEF NoDeletes
<1>3. QED
  BY <1>1, <1>2, Steps DEF Arrive, FirstDraw, Operation, Result, Exit, LeaveLoop, Stop,
     JoinNext, SpuriousWakeup, vars, loop

-----------------------------------------------------------------------------
(* The rate of effective updates.                                          *)

\* A step leaves the counters and the draw of a thread alone, unless it is the
\* first draw or the result of that thread.
LEMMA Unpaced ==
  ASSUME Shape, [Next]_vars, NEW t \in Thread, ~FirstDraw(t), ~Result(t)
  PROVE  /\ ares'[t] = ares[t] /\ unext'[t] = unext[t]
         /\ pc'[t] \in {"arrive", "wait", "crossed"} => pc[t] \in {"arrive", "wait", "crossed"}
<1> USE Facts DEF given, barrier, data, loop, summing, Shape, TypeOK
<1>1. ASSUME NEW p \in Parties, Arrive(p)
      PROVE  /\ pc'[t] = pc[t] \/ pc[t] \in {"arrive", "wait"}
             /\ ares' = ares /\ unext' = unext
  BY <1>1, ArriveIs DEF Arrive
<1>2. ASSUME NEW p \in Parties, SpuriousWakeup(p)
      PROVE  /\ pc'[t] = pc[t] \/ pc[t] = "wait"
             /\ ares' = ares /\ unext' = unext
  BY <1>2 DEF SpuriousWakeup
<1>3. ASSUME NEW u \in Thread, FirstDraw(u)
      PROVE  pc'[t] = pc[t] /\ ares' = ares /\ unext'[t] = unext[t]
  <2>1. u # t
    BY <1>3
  <2>2. QED
    BY <1>3, <2>1 DEF FirstDraw
<1>4. ASSUME NEW u \in Thread, Result(u)
      PROVE  pc'[t] = pc[t] /\ ares'[t] = ares[t] /\ unext'[t] = unext[t]
  <2>1. u # t
    BY <1>4
  <2>2. QED
    BY <1>4, <2>1 DEF Result
<1>5. ASSUME NEW u \in Thread, Choose(u) \/ Operation(u) \/ LeaveLoop(u)
      PROVE  /\ pc'[t] = pc[t] \/ pc'[t] \in {"operation", "result", "returned"}
             /\ ares' = ares /\ unext' = unext
  BY <1>5 DEF Choose, Operation, LeaveLoop
<1>6. ASSUME NEW u \in Thread, Exit(u) PROVE pc'[t] = "exited" /\ ares' = ares /\ unext' = unext
  BY <1>6 DEF Exit
<1>7. CASE Stop \/ JoinNext \/ UNCHANGED vars
  BY <1>7 DEF Stop, JoinNext, vars
<1>8. QED
  BY <1>1, <1>2, <1>3, <1>4, <1>5, <1>6, <1>7, Steps

LEMMA ModeStays == [Next]_vars => mode' = mode /\ start' = start /\ count' = count
  BY Steps DEF Arrive, FirstDraw, Choose, Operation, Result, Exit, LeaveLoop, Stop,
     JoinNext, SpuriousWakeup, vars, given, barrier

\* The numbers of operations and of successful updates.
LEMMA Numbers ==
  ASSUME TypeOK, NEW t \in Thread
  PROVE  /\ Ops(t) \in Nat /\ Eff(t) \in Nat
         /\ mode.update \in 0 .. 100 /\ mode.update \in Nat
<1>1. ares[t] \in [Counter -> Nat]
  BY DEF TypeOK
<1>2. mode.update \in 0 .. 100
  BY ModeAssumption DEF TypeOK
<1>3. QED
  BY <1>1, <1>2 DEF Ops, Eff, Counter

\* One more operation, and one more success if it was an effective update.
LEMMA ResultCounts ==
  ASSUME Shape, Calling, NEW t \in Thread, Result(t)
  PROVE  /\ Ops(t)' = Ops(t) + 1
         /\ \/ Eff(t)' = Eff(t)
            \/ Eff(t)' = Eff(t) + 1 /\ unext[t]
         /\ mode.effective => (unext'[t] <=> 100 * Eff(t)' < mode.update * Ops(t)')
<1>1. /\ ares'[t] = Counted(t) /\ ares[t] \in [Counter -> Nat]
      /\ unext'[t] \in Rate(t) /\ pc[t] = "result"
  BY DEF Result, Shape, TypeOK
<1>2. otype[t] \in {"CONTAINS", "DELETE", "INSERT"} /\ (otype[t] = "CONTAINS" \/ unext[t])
  BY <1>1, Facts DEF Calling, Active
<1>3. Ops(t)' = Ops(t) + 1
  BY <1>1, <1>2, CountIs DEF Ops, Counter
<1>4. Eff(t)' = Eff(t) \/ (Eff(t)' = Eff(t) + 1 /\ unext[t])
  BY <1>1, <1>2, CountIs DEF Eff, Counter
<1>5. QED
  BY <1>1, <1>3, <1>4 DEF Rate

LEMMA PacedStep == IInv /\ [Next]_vars => Paced' /\ RateNotExceeded'
<1> SUFFICES ASSUME IInv, Shape, Calling, TypeOK, Paced, RateNotExceeded, [Next]_vars,
                    NEW t \in Thread
             PROVE  /\ (Eff(t) <= Ops(t))'
                    /\ pc'[t] \in {"arrive", "wait", "crossed"} => Ops(t)' = 0
                    /\ mode'.effective /\ Ops(t)' > 0 /\ unext'[t] =>
                         100 * Eff(t)' < mode'.update * Ops(t)'
                    /\ mode'.effective /\ Ops(t)' > 0 =>
                         100 * Eff(t)' <= mode'.update * (Ops(t)' - 1) + 100
  BY DEF IInv, Shape, Paced, RateNotExceeded
<1>1. mode' = mode
  BY ModeStays
<1>2. /\ Eff(t) <= Ops(t) /\ Ops(t) \in Nat /\ Eff(t) \in Nat /\ mode.update \in Nat
      /\ pc[t] \in {"arrive", "wait", "crossed"} => Ops(t) = 0
      /\ mode.effective /\ Ops(t) > 0 /\ unext[t] => 100 * Eff(t) < mode.update * Ops(t)
      /\ mode.effective /\ Ops(t) > 0 => 100 * Eff(t) <= mode.update * (Ops(t) - 1) + 100
  BY Numbers DEF Paced, RateNotExceeded
<1>3. CASE FirstDraw(t)
  <2>1. pc[t] = "crossed" /\ pc'[t] = "loop" /\ ares' = ares
    BY <1>3, Facts DEF FirstDraw, TypeOK, loop
  <2>2. Ops(t)' = Ops(t) /\ Eff(t)' = Eff(t) /\ Ops(t) = 0
    BY <2>1, <1>2 DEF Ops, Eff
  <2>3. QED
    BY <2>1, <2>2, <1>1, <1>2
<1>4. CASE Result(t)
  <2>1. /\ Ops(t)' = Ops(t) + 1 /\ pc'[t] = "loop"
        /\ Eff(t)' = Eff(t) \/ (Eff(t)' = Eff(t) + 1 /\ unext[t])
        /\ mode.effective => (unext'[t] <=> 100 * Eff(t)' < mode.update * Ops(t)')
    BY <1>4, ResultCounts, Facts DEF Result, TypeOK
  <2> DEFINE o == Ops(t)
             e == Eff(t)
             r == mode.update
  <2>2. mode.effective => 100 * Eff(t)' <= r * o + 100
    <3> SUFFICES ASSUME mode.effective PROVE 100 * Eff(t)' <= r * o + 100
      OBVIOUS
    <3>1. r * o \in Nat
      BY <1>2
    <3>2. CASE o = 0
      BY <3>1, <3>2, <2>1, <1>2
    <3>3. CASE o > 0 /\ unext[t]
      BY <3>1, <3>3, <2>1, <1>2
    <3>4. CASE o > 0 /\ ~unext[t]
      <4>1. r * (o - 1) = r * o - r
        BY <1>2
      <4>2. 100 * e <= r * (o - 1) + 100 /\ Eff(t)' = e
        BY <3>4, <2>1, <1>2
      <4> HIDE DEF o, e, r
      <4>3. o \in Nat /\ e \in Nat /\ r \in Nat
        BY <1>2 DEF o, e, r
      <4>4. QED
        BY <3>1, <4>1, <4>2, <4>3
    <3>5. QED
      BY <3>2, <3>3, <3>4, <1>2
  <2>3. (Ops(t)' - 1) = o
    BY <2>1, <1>2
  <2>4. QED
    BY <2>1, <2>2, <2>3, <1>1, <1>2
<1>5. CASE ~FirstDraw(t) /\ ~Result(t)
  <2>1. /\ Ops(t)' = Ops(t) /\ Eff(t)' = Eff(t) /\ unext'[t] = unext[t]
        /\ pc'[t] \in {"arrive", "wait", "crossed"} => pc[t] \in {"arrive", "wait", "crossed"}
    BY <1>5, Unpaced DEF Ops, Eff
  <2>2. QED
    BY <2>1, <1>1, <1>2
<1>6. QED
  BY <1>3, <1>4, <1>5

-----------------------------------------------------------------------------
(* The barrier.                                                            *)

Arrived == {p \in Parties : pc[p] # "arrive"}

LEMMA PartiesFinite ==
  /\ IsFiniteSet(Parties) /\ Cardinality(Parties) = NbThreads + 1
  /\ IsFiniteSet(Arrived) /\ Cardinality(Arrived) \in Nat
<1>1. Parties = 0 .. NbThreads
  BY ThreadsAssumption DEF Parties, Thread, MainThread
<1>2. IsFiniteSet(Parties) /\ Cardinality(Parties) = NbThreads + 1
  BY <1>1, FS_Interval, ThreadsAssumption
<1>3. Arrived \in SUBSET Parties
  BY DEF Arrived
<1>4. QED
  BY <1>2, <1>3, FS_Subset, FS_CardinalityType

\* Only the step Arrive changes who has yet to arrive.
LEMMA ArrivedStays ==
  ASSUME Shape, [Next]_vars, \A p \in Parties : ~Arrive(p), \E q \in Parties : pc'[q] = "arrive"
  PROVE  /\ Arrived' = Arrived /\ crossing' = crossing /\ early \subseteq early'
         /\ \A p \in Parties \ early' : pc'[p] = pc[p] \/ pc[p] \notin {"arrive", "wait"}
<1> USE Facts DEF given, barrier, data, loop, summing, Shape, TypeOK, Arrived
<1>1. ASSUME NEW p \in Parties, SpuriousWakeup(p)
      PROVE  /\ Arrived' = Arrived /\ crossing' = crossing /\ early \subseteq early'
             /\ \A q \in Parties \ early' : pc'[q] = pc[q] \/ pc[q] \notin {"arrive", "wait"}
  BY <1>1 DEF SpuriousWakeup
<1>2. ASSUME NEW u \in Thread,
             FirstDraw(u) \/ Choose(u) \/ Operation(u) \/ Result(u) \/ LeaveLoop(u)
      PROVE  /\ Arrived' = Arrived /\ crossing' = crossing /\ early' = early
             /\ \A q \in Parties : pc'[q] = pc[q] \/ pc[q] \notin {"arrive", "wait"}
  <2>1. /\ crossing' = crossing /\ early' = early /\ pc[u] \notin {"arrive", "wait"}
        /\ \E l \in {"loop", "operation", "result", "returned"} : pc' = [pc EXCEPT ![u] = l]
    BY <1>2 DEF FirstDraw, Choose, Operation, Result, LeaveLoop
  <2>2. QED
    BY <2>1
<1>3. ASSUME NEW u \in Thread, Exit(u) PROVE FALSE
  BY <1>3 DEF Exit
<1>4. CASE Stop \/ JoinNext
  <2>1. /\ crossing' = crossing /\ early' = early /\ pc[MainThread] \in {"crossed", "join"}
        /\ \E l \in {"join", "done"} : pc' = [pc EXCEPT ![MainThread] = l]
    BY <1>4 DEF Stop, JoinNext
  <2>2. QED
    BY <2>1
<1>5. CASE UNCHANGED vars
  BY <1>5 DEF vars
<1>6. QED
  BY <1>1, <1>2, <1>3, <1>4, <1>5, Steps

LEMMA GatheringStep == IInv /\ [Next]_vars => Gathering'
<1> SUFFICES ASSUME IInv, Shape, TypeOK, Gathering, [Next]_vars,
                    NEW r \in Parties, pc'[r] = "arrive"
             PROVE  /\ crossing' = Cardinality(Arrived')
                    /\ \A p \in Parties \ early' : pc'[p] \in {"arrive", "wait"}
  BY DEF IInv, Shape, Gathering, Arrived
<1>1. ASSUME NEW p \in Parties, Arrive(p)
      PROVE  /\ crossing' = Cardinality(Arrived')
             /\ \A q \in Parties \ early' : pc'[q] \in {"arrive", "wait"}
  <2>1. /\ pc[p] = "arrive" /\ r # p /\ pc[r] = "arrive"
        /\ crossing = Cardinality(Arrived) /\ early' = early
        /\ \A q \in Parties \ early : pc[q] \in {"arrive", "wait"}
    BY <1>1, ArriveIs DEF Gathering, Arrived, Arrive
  <2>2. Arrived \in SUBSET ((Parties \ {p}) \ {r})
    BY <2>1 DEF Arrived
  <2>3. Cardinality(Arrived) <= NbThreads - 1
    <3>1. /\ IsFiniteSet(Parties \ {p}) /\ Cardinality(Parties \ {p}) = NbThreads
          /\ r \in Parties \ {p}
      <4>1. /\ IsFiniteSet(Parties \ {p})
            /\ Cardinality(Parties \ {p}) = Cardinality(Parties) - 1
        BY PartiesFinite, FS_RemoveElement
      <4>2. QED
        BY <4>1, PartiesFinite, ThreadsAssumption, <2>1
    <3>2. /\ IsFiniteSet((Parties \ {p}) \ {r})
          /\ Cardinality((Parties \ {p}) \ {r}) = NbThreads - 1
      BY <3>1, FS_RemoveElement
    <3>3. QED
      BY <3>2, <2>2, FS_Subset
  <2>4. crossing + 1 < count
    BY <2>1, <2>3, PartiesFinite, ThreadsAssumption DEF TypeOK
  <2>5. pc' = [pc EXCEPT ![p] = "wait"] /\ crossing' = crossing + 1
    BY <1>1, <2>4 DEF Arrive
  <2>6. Arrived' = Arrived \cup {p} /\ p \notin Arrived
    BY <2>5, <2>1 DEF Arrived, TypeOK
  <2>7. crossing' = Cardinality(Arrived')
    BY <2>1, <2>5, <2>6, PartiesFinite, FS_AddElement
  <2>8. \A q \in Parties \ early' : pc'[q] \in {"arrive", "wait"}
    BY <2>1, <2>5 DEF TypeOK
  <2>9. QED
    BY <2>7, <2>8
<1>2. CASE \A p \in Parties : ~Arrive(p)
  <2>1. /\ Arrived' = Arrived /\ crossing' = crossing /\ early \subseteq early'
        /\ \A p \in Parties \ early' : pc'[p] = pc[p] \/ pc[p] \notin {"arrive", "wait"}
    BY <1>2, ArrivedStays
  <2>2. pc[r] = "arrive"
    BY <2>1 DEF Arrived
  <2>3. /\ crossing = Cardinality(Arrived)
        /\ \A p \in Parties \ early : pc[p] \in {"arrive", "wait"}
    BY <2>2 DEF Gathering, Arrived
  <2>4. QED
    BY <2>1, <2>3
<1>3. QED
  BY <1>1, <1>2

-----------------------------------------------------------------------------
(* The keys of the threads in the alternate mode.                          *)

\* What Own says of one thread, and of two.
OwnOf(t) ==
  /\ ares[t]["remove"] = ares[t]["removed"]
  /\ Active(t) /\ otype[t] = "INSERT" => last[t] < 0
  /\ Active(t) /\ otype[t] = "DELETE" => last[t] >= 0 /\ call[t].key = last[t]
  /\ Gone(t) => answer[t] = "yes"
  /\ Holds(t) => Mine(t) \in set \ start

Apart(t, u) == Holds(t) /\ Holds(u) => Mine(t) # Mine(u)

\* A thread that neither chooses, acts nor counts knows what it knew.
LEMMA OwnIdle ==
  ASSUME NEW t \in Thread, [Next]_vars, Shape, ~Choose(t), ~Operation(t), ~Result(t)
  PROVE  /\ ares'[t] = ares[t] /\ otype'[t] = otype[t] /\ last'[t] = last[t]
         /\ call'[t] = call[t] /\ answer'[t] = answer[t]
         /\ \/ pc'[t] = pc[t]
            \/ ~Active(t)' /\ ~Active(t) /\ pc[t] # "exited"
            \/ pc'[t] = "exited"
<1> USE Facts DEF given, barrier, data, loop, summing, Shape, TypeOK, Active
<1>1. ASSUME NEW p \in Parties, Arrive(p)
      PROVE  /\ UNCHANGED <<ares, otype, last, call, answer>>
             /\ pc'[t] = pc[t] \/ (~Active(t)' /\ ~Active(t) /\ pc[t] # "exited")
  BY <1>1, ArriveIs DEF Arrive
<1>2. ASSUME NEW p \in Parties, SpuriousWakeup(p)
      PROVE  /\ UNCHANGED <<ares, otype, last, call, answer>>
             /\ pc'[t] = pc[t] \/ (~Active(t)' /\ ~Active(t) /\ pc[t] # "exited")
  BY <1>2 DEF SpuriousWakeup
<1>3. ASSUME NEW u \in Thread, FirstDraw(u) \/ LeaveLoop(u)
      PROVE  /\ UNCHANGED <<ares, otype, last, call, answer>>
             /\ pc'[t] = pc[t] \/ (~Active(t)' /\ ~Active(t) /\ pc[t] # "exited")
  BY <1>3 DEF FirstDraw, LeaveLoop
<1>4. ASSUME NEW u \in Thread, Exit(u)
      PROVE  UNCHANGED <<ares, otype, last, call, answer>> /\ pc'[t] = "exited"
  BY <1>4 DEF Exit
<1>5. CASE Stop \/ JoinNext \/ UNCHANGED vars
  BY <1>5 DEF Stop, JoinNext, vars
<1>6. ASSUME NEW u \in Thread, Choose(u) \/ Operation(u) \/ Result(u)
      PROVE  /\ ares'[t] = ares[t] /\ otype'[t] = otype[t] /\ last'[t] = last[t]
             /\ call'[t] = call[t] /\ answer'[t] = answer[t] /\ pc'[t] = pc[t]
  <2>1. u # t
    BY <1>6
  <2>2. CASE Choose(u)
    <3>1. PICK c \in Data!Call : /\ call' = [call EXCEPT ![u] = c]
                                 /\ otype' = [otype EXCEPT ![u] = c.op] /\ MayChoose(u, c)
      BY <2>2, ChooseIs
    <3>2. last'[t] = last[t]
      BY <2>1, <3>1 DEF MayChoose
    <3>3. QED
      BY <2>1, <2>2, <3>1, <3>2 DEF Choose, Data!Invoke
  <2>3. CASE Operation(u)
    BY <2>1, <2>3 DEF Operation, Data!TakeEffect
  <2>4. CASE Result(u)
    BY <2>1, <2>4 DEF Result, Data!Return
  <2>5. QED
    BY <1>6, <2>2, <2>3, <2>4
<1>7. QED
  BY <1>1, <1>2, <1>3, <1>4, <1>5, <1>6, Steps

\* So it still holds its key, if the set has not lost it.
LEMMA OwnStays ==
  ASSUME NEW t \in Thread, [Next]_vars, Shape, ~Choose(t), ~Operation(t), ~Result(t),
         OwnOf(t), Holds(t) => Mine(t) \in set'
  PROVE  OwnOf(t)' /\ (Holds(t)' => Holds(t) /\ Mine(t)' = Mine(t))
<1>1. start' = start
  BY ModeStays
<1>2. /\ ares'[t] = ares[t] /\ otype'[t] = otype[t] /\ last'[t] = last[t]
      /\ call'[t] = call[t] /\ answer'[t] = answer[t]
      /\ \/ pc'[t] = pc[t]
         \/ ~Active(t)' /\ ~Active(t) /\ pc[t] # "exited"
         \/ pc'[t] = "exited"
  BY OwnIdle
<1>3. CASE pc'[t] = pc[t]
  BY <1>1, <1>2, <1>3 DEF OwnOf, Holds, Mine, Fresh, Gone, Active
<1>4. CASE ~Active(t)' /\ ~Active(t) /\ pc[t] # "exited"
  BY <1>1, <1>2, <1>4 DEF OwnOf, Holds, Mine, Fresh, Gone, Active
<1>5. CASE pc'[t] = "exited"
  BY <1>1, <1>2, <1>5 DEF OwnOf, Holds, Mine, Fresh, Gone, Active
<1>6. QED
  BY <1>2, <1>3, <1>4, <1>5

\* The set changes only where an operation takes effect.
LEMMA SetStays ==
  ASSUME [Next]_vars, \A t \in Thread : ~Operation(t)
  PROVE  set' = set
<1> USE DEF given, barrier, data, loop, summing
<1>1. ASSUME NEW t \in Thread, Choose(t) PROVE set' = set
  BY <1>1 DEF Choose, Data!Invoke
<1>2. ASSUME NEW t \in Thread, Result(t) PROVE set' = set
  BY <1>2 DEF Result, Data!Return
<1>3. QED
  BY <1>1, <1>2, Steps DEF Arrive, FirstDraw, Exit, LeaveLoop, Stop, JoinNext,
     SpuriousWakeup, vars

\* Two threads do not choose, act or count in the same step.
LEMMA OneMoves ==
  ASSUME Shape, NEW t \in Thread, NEW u \in Thread \ {t},
         Choose(t) \/ Operation(t) \/ Result(t)
  PROVE  ~Choose(u) /\ ~Operation(u) /\ ~Result(u)
<1> USE Facts DEF Shape, TypeOK
<1>1. pc'[u] = pc[u]
  BY DEF Choose, Operation, Result
<1>2. Choose(u) => pc[u] = "loop" /\ pc'[u] = "operation"
  BY DEF Choose
<1>3. Operation(u) => pc[u] = "operation" /\ pc'[u] = "result"
  BY DEF Operation
<1>4. Result(u) => pc[u] = "result" /\ pc'[u] = "loop"
  BY DEF Result
<1>5. QED
  BY <1>1, <1>2, <1>3, <1>4

\* In the alternate mode.
LEMMA ChooseOwn ==
  ASSUME Shape, Calling, mode.alternate, mode.update > 0, NEW t \in Thread, Choose(t), OwnOf(t),
         start' = start
  PROVE  OwnOf(t)' /\ set' = set /\ (Holds(t)' => Holds(t) /\ Mine(t)' = Mine(t))
<1>1. PICK c \in Data!Call : /\ call' = [call EXCEPT ![t] = c]
                             /\ otype' = [otype EXCEPT ![t] = c.op] /\ MayChoose(t, c)
  BY ChooseIs
<1>2. /\ pc[t] = "loop" /\ pc'[t] = "operation" /\ call'[t] = c /\ otype'[t] = c.op
      /\ set' = set /\ ares' = ares
  BY <1>1, Facts DEF Choose, Data!Invoke, Shape, TypeOK, loop
<1>3. /\ last'[t] = last[t]
      /\ c.op = "INSERT" => last[t] < 0
      /\ c.op = "DELETE" => last[t] >= 0 /\ c.key = last[t]
  <2>1. mode.update # 0
    BY ModeAssumption DEF Shape, TypeOK
  <2>2. QED
    BY <1>1, <2>1 DEF MayChoose
<1>4. QED
  BY <1>2, <1>3 DEF OwnOf, Holds, Mine, Fresh, Gone, Active

LEMMA OperationOwn ==
  ASSUME Shape, Calling, NEW t \in Thread, Operation(t), OwnOf(t), start' = start,
         start \subseteq set
  PROVE  /\ OwnOf(t)' /\ start \subseteq set'
         /\ \A k \in set \ set' : Holds(t) /\ k = Mine(t)
         /\ Holds(t)' => \/ Mine(t)' \notin set
                         \/ Holds(t) /\ Mine(t)' = Mine(t)
<1> DEFINE k == call[t].key
<1>1. PICK a \in {"yes", "no"} : answer' = [answer EXCEPT ![t] = a] /\ MayDo(t, k, a)
  BY OperationIs
<1>2. /\ pc[t] = "operation" /\ pc'[t] = "result" /\ answer'[t] = a
      /\ UNCHANGED <<ares, otype, call, last>> /\ last[t] \in Key \cup {-1, 0}
      /\ k \in Key \cup {0}
  BY <1>1, OperationIs, Facts DEF Operation, Data!TakeEffect, Shape, TypeOK, loop
<1>3. last[t] \in Int /\ k >= 0
  BY <1>2, Facts
<1>4. CASE otype[t] = "CONTAINS"
  BY <1>1, <1>2, <1>4 DEF MayDo, OwnOf, Holds, Mine, Fresh, Gone, Active
<1>5. CASE otype[t] = "INSERT"
  <2>1. last[t] < 0
    BY <1>2, <1>5 DEF OwnOf, Active
  <2>2. ~Gone(t)' /\ (Fresh(t)' <=> a = "yes") /\ (Holds(t)' <=> a = "yes")
    BY <1>2, <1>3, <1>5, <2>1 DEF Holds, Fresh, Gone
  <2>3. a = "yes" => k \notin set /\ set' = set \cup {k} /\ Mine(t)' = k
    BY <1>1, <1>2, <1>5, <2>2 DEF MayDo, Mine
  <2>4. a = "no" => set' = set
    BY <1>1, <1>5 DEF MayDo
  <2>5. QED
    BY <1>2, <1>5, <2>1, <2>2, <2>3, <2>4 DEF OwnOf, Active
<1>6. CASE otype[t] = "DELETE"
  <2>1. last[t] >= 0 /\ k = last[t]
    BY <1>2, <1>6 DEF OwnOf, Active
  <2>2. Holds(t) /\ Mine(t) = k
    BY <1>2, <1>6, <2>1 DEF Holds, Fresh, Gone, Mine
  <2>3. k \in set \ start
    BY <2>2 DEF OwnOf
  <2>4. a = "yes" /\ set' = set \ {k}
    BY <1>1, <1>6, <2>3 DEF MayDo
  <2>5. Gone(t)' /\ ~Fresh(t)' /\ ~Holds(t)'
    BY <1>2, <1>6 DEF Holds, Fresh, Gone
  <2>6. QED
    BY <1>2, <1>6, <2>1, <2>2, <2>3, <2>4, <2>5 DEF OwnOf, Active
<1>7. QED
  BY <1>4, <1>5, <1>6, <1>1 DEF MayDo

LEMMA ResultOwn ==
  ASSUME Shape, Calling, mode.alternate, NEW t \in Thread, Result(t), OwnOf(t), start' = start
  PROVE  OwnOf(t)' /\ set' = set /\ (Holds(t)' => Holds(t) /\ Mine(t)' = Mine(t))
<1>1. /\ pc[t] = "result" /\ pc'[t] = "loop" /\ set' = set /\ otype' = otype
      /\ ares'[t] = Counted(t) /\ last'[t] = Remembered(t)
  BY Facts DEF Result, Data!Return, Shape, TypeOK
<1>2. /\ otype[t] \in {"CONTAINS", "DELETE", "INSERT"} /\ answer[t] \in {"yes", "no"}
      /\ last[t] \in Key \cup {-1, 0} /\ call[t].key \in Key \cup {0}
  BY <1>1, Facts DEF Calling, Active, Shape, TypeOK
<1>3. last[t] \in Int
  BY <1>2, Facts
<1>4. ares'[t]["remove"] = ares'[t]["removed"]
  BY <1>1, CountIs DEF OwnOf, Gone
<1>5. CASE otype[t] = "INSERT" /\ answer[t] = "yes"
  BY <1>1, <1>4, <1>5 DEF OwnOf, Active, Holds, Mine, Fresh, Gone, Remembered
<1>6. CASE otype[t] = "INSERT" /\ answer[t] = "no"
  BY <1>1, <1>3, <1>4, <1>6 DEF OwnOf, Active, Holds, Mine, Fresh, Gone, Remembered
<1>7. CASE otype[t] = "DELETE"
  BY <1>1, <1>4, <1>7 DEF OwnOf, Active, Holds, Mine, Fresh, Gone, Remembered
<1>8. CASE otype[t] = "CONTAINS"
  BY <1>1, <1>4, <1>8 DEF OwnOf, Active, Holds, Mine, Fresh, Gone, Remembered
<1>9. QED
  BY <1>2, <1>5, <1>6, <1>7, <1>8

LEMMA OwnStep == IInv /\ [Next]_vars => Own'
<1> SUFFICES ASSUME IInv, Shape, Calling, [Next]_vars, mode.alternate, mode.update > 0
             PROVE  /\ start' \subseteq set'
                    /\ \A t \in Thread : OwnOf(t)'
                    /\ \A t \in Thread : \A u \in Thread \ {t} : Apart(t, u)'
  BY ModeStays DEF IInv, Own, OwnOf, Apart
<1>1. /\ start' = start /\ start \subseteq set
      /\ \A t \in Thread : OwnOf(t)
      /\ \A t \in Thread : \A u \in Thread \ {t} : Apart(t, u)
  BY ModeStays DEF IInv, Own, OwnOf, Apart
<1>2. ASSUME NEW t \in Thread, Choose(t) \/ Operation(t) \/ Result(t)
      PROVE  /\ start \subseteq set'
             /\ \A u \in Thread : OwnOf(u)'
             /\ \A u \in Thread : \A v \in Thread \ {u} : Apart(u, v)'
  <2>1. /\ OwnOf(t)' /\ start \subseteq set'
        /\ \A k \in set \ set' : Holds(t) /\ k = Mine(t)
        /\ Holds(t)' => \/ Mine(t)' \notin set
                        \/ Holds(t) /\ Mine(t)' = Mine(t)
    BY <1>1, <1>2, ChooseOwn, OperationOwn, ResultOwn
  <2>2. \A u \in Thread \ {t} : Holds(u) => Mine(u) \in set /\ Mine(u) \in set'
    BY <1>1, <2>1 DEF OwnOf, Apart
  <2>3. \A u \in Thread \ {t} : OwnOf(u)' /\ (Holds(u)' => Holds(u) /\ Mine(u)' = Mine(u))
    BY <1>1, <1>2, <2>2, OneMoves, OwnStays
  <2>4. QED
    BY <1>1, <2>1, <2>2, <2>3 DEF Apart
<1>3. CASE \A t \in Thread : ~Choose(t) /\ ~Operation(t) /\ ~Result(t)
  <2>1. set' = set
    BY <1>3, SetStays
  <2>2. \A u \in Thread : OwnOf(u)' /\ (Holds(u)' => Holds(u) /\ Mine(u)' = Mine(u))
    <3>1. \A u \in Thread : Holds(u) => Mine(u) \in set'
      BY <1>1, <2>1 DEF OwnOf
    <3>2. QED
      BY <1>1, <1>3, <3>1, OwnStays
  <2>3. QED
    BY <1>1, <2>1, <2>2 DEF Apart
<1>4. QED
  BY <1>1, <1>2, <1>3

-----------------------------------------------------------------------------
(* The sums that main prints.                                              *)

LEMMA SetFinite ==
  ASSUME TypeOK
  PROVE  /\ IsFiniteSet(set) /\ Cardinality(set) \in Nat
         /\ Cardinality(start) \in Nat
<1>1. set \in SUBSET Key /\ start \in SUBSET Key /\ IsFiniteSet(Key)
  BY KeyAssumption DEF TypeOK
<1>2. QED
  BY <1>1, FS_Subset, FS_CardinalityType

\* The two functions that are summed.
LEMMA SummandTypes == Shape => Grown \in [Thread -> Int] /\ AllOps \in [Thread -> Int]
<1> SUFFICES ASSUME Shape PROVE Grown \in [Thread -> Int] /\ AllOps \in [Thread -> Int]
  OBVIOUS
<1>1. ASSUME NEW t \in Thread PROVE Grown[t] \in Int /\ Ops(t) \in Int
  <2>1. ares[t] \in [Counter -> Nat]
    BY DEF Shape, TypeOK
  <2>2. Uncounted(t) \in Int
    BY DEF Uncounted
  <2>3. QED
    BY <2>1, <2>2 DEF Grown, Ops, Counter
<1>2. QED
  BY <1>1 DEF Grown, AllOps

\* An operation that takes effect changes the size by what is then uncounted.
LEMMA OperationGrows ==
  ASSUME Shape, Calling, NEW t \in Thread, Operation(t)
  PROVE  /\ Uncounted(t) = 0 /\ Uncounted(t)' \in Int
         /\ Cardinality(set') = Cardinality(set) + Uncounted(t)'
<1> DEFINE k == call[t].key
<1>1. PICK a \in {"yes", "no"} : answer' = [answer EXCEPT ![t] = a] /\ MayDo(t, k, a)
  BY OperationIs
<1>2. pc[t] = "operation" /\ pc'[t] = "result" /\ answer'[t] = a /\ otype' = otype
  BY <1>1, Facts DEF Operation, Shape, TypeOK, loop
<1>3. IsFiniteSet(set) /\ Cardinality(set) \in Nat
  BY SetFinite DEF Shape
<1>4. CASE set' = set
  <2>1. otype[t] = "CONTAINS" \/ a = "no"
    BY <1>1, <1>4 DEF MayDo
  <2>2. QED
    BY <1>2, <1>3, <1>4, <2>1 DEF Uncounted
<1>5. CASE otype[t] = "INSERT" /\ a = "yes" /\ k \notin set /\ set' = set \cup {k}
  <2>1. Cardinality(set') = Cardinality(set) + 1
    BY <1>3, <1>5, FS_AddElement
  <2>2. QED
    BY <1>2, <1>5, <2>1 DEF Uncounted
<1>6. CASE otype[t] = "DELETE" /\ a = "yes" /\ k \in set /\ set' = set \ {k}
  <2>1. Cardinality(set') = Cardinality(set) - 1
    BY <1>3, <1>6, FS_RemoveElement
  <2>2. QED
    BY <1>2, <1>3, <1>6, <2>1 DEF Uncounted
<1>7. QED
  BY <1>1, <1>4, <1>5, <1>6 DEF MayDo

\* Counting a result moves it from Uncounted to the counters.
LEMMA ResultGrows ==
  ASSUME Shape, Calling, NEW t \in Thread, Result(t)
  PROVE  Grown'[t] = Grown[t] /\ AllOps'[t] = AllOps[t] + 1
<1>1. /\ pc[t] = "result" /\ pc'[t] = "loop" /\ ares'[t] = Counted(t)
      /\ ares[t] \in [Counter -> Nat]
  BY Facts DEF Result, Shape, TypeOK
<1>2. otype[t] \in {"CONTAINS", "DELETE", "INSERT"} /\ answer[t] \in {"yes", "no"}
  BY <1>1, Facts DEF Calling, Active, Shape, TypeOK
<1>3. Uncounted(t)' = 0
  BY <1>1 DEF Uncounted
<1>4. ares'[t]["added"] - ares'[t]["removed"]
        = ares[t]["added"] - ares[t]["removed"] + Uncounted(t)
  <2>1. ares[t]["added"] \in Int /\ ares[t]["removed"] \in Int
    BY <1>1 DEF Counter
  <2>2. QED
    BY <1>1, <1>2, <2>1, CountIs DEF Uncounted
<1>5. Ops(t)' = Ops(t) + 1
  BY ResultCounts
<1>6. ares'[t]["added"] - ares'[t]["removed"] \in Int
  BY <1>1, CountIs DEF Counter
<1>7. QED
  BY <1>3, <1>4, <1>5, <1>6 DEF Grown, AllOps

\* No thread exits alone.
LEMMA AllExit ==
  ASSUME Shape, [Next]_vars, pc'[MainThread] # "exited", NEW t \in Thread, pc'[t] = "exited"
  PROVE  pc[t] = "exited"
<1> USE Facts DEF Shape, TypeOK
<1>1. ASSUME NEW p \in Parties, Arrive(p) PROVE pc[t] = "exited"
  BY <1>1, ArriveIs
<1>2. ASSUME NEW p \in Parties, SpuriousWakeup(p) PROVE pc[t] = "exited"
  BY <1>2 DEF SpuriousWakeup
<1>3. ASSUME NEW u \in Thread,
             FirstDraw(u) \/ Choose(u) \/ Operation(u) \/ Result(u) \/ LeaveLoop(u)
      PROVE  pc[t] = "exited"
  BY <1>3 DEF FirstDraw, Choose, Operation, Result, LeaveLoop
<1>4. ASSUME NEW u \in Thread, Exit(u) PROVE FALSE
  BY <1>4 DEF Exit
<1>5. CASE Stop \/ JoinNext \/ UNCHANGED vars
  BY <1>5 DEF Stop, JoinNext, vars
<1>6. QED
  BY <1>1, <1>2, <1>3, <1>4, <1>5, Steps

\* Any other step of a thread leaves both as they were, unless all exit.
LEMMA GrownStays ==
  ASSUME Shape, Calling, [Next]_vars, NEW t \in Thread, ~Operation(t), ~Result(t),
         pc'[MainThread] # "exited"
  PROVE  Grown'[t] = Grown[t] /\ AllOps'[t] = AllOps[t]
<1>1. CASE Choose(t)
  <2>1. pc[t] = "loop" /\ pc'[t] = "operation" /\ ares' = ares
    BY <1>1, Facts DEF Choose, Shape, TypeOK
  <2>2. QED
    BY <2>1 DEF Grown, AllOps, Uncounted, Ops
<1>2. CASE ~Choose(t)
  <2>1. /\ ares'[t] = ares[t] /\ otype'[t] = otype[t] /\ answer'[t] = answer[t]
        /\ pc'[t] = pc[t] \/ (~Active(t)' /\ ~Active(t)) \/ pc'[t] = "exited"
    BY <1>2, OwnIdle
  <2>2. pc'[t] = "exited" => pc[t] = "exited"
    BY AllExit
  <2>3. QED
    BY <2>1, <2>2 DEF Grown, AllOps, Uncounted, Ops, Active
<1>3. QED
  BY <1>1, <1>2

\* When one thread's terms change by d and e, so do the sums from it on.
LEMMA BothChange ==
  ASSUME Shape, Shape', NEW t \in Thread, NEW d \in Int, NEW e \in Int,
         Grown'[t] = Grown[t] + d, AllOps'[t] = AllOps[t] + e,
         \A u \in Thread \ {t} : Grown'[u] = Grown[u] /\ AllOps'[u] = AllOps[u]
  PROVE  \A n \in 0 .. NbThreads :
           /\ Sums(Grown)'[n] = Sums(Grown)[n] + (IF n >= t THEN d ELSE 0)
           /\ Sums(AllOps)'[n] = Sums(AllOps)[n] + (IF n >= t THEN e ELSE 0)
<1>1. Grown \in [Thread -> Int] /\ AllOps \in [Thread -> Int]
  BY SummandTypes
<1>2. Grown' \in [Thread -> Int] /\ AllOps' \in [Thread -> Int]
  <2>1. Shape' => (Grown \in [Thread -> Int] /\ AllOps \in [Thread -> Int])'
    BY SummandTypes, PTL
  <2>2. QED
    BY <2>1
<1>3. Sums(Grown)' = Sums(Grown') /\ Sums(AllOps)' = Sums(AllOps')
  BY DEF Sums
<1>4. \A u \in Thread : Grown'[u] = Grown[u] + (IF u = t THEN d ELSE 0)
  BY <1>1
<1>5. \A u \in Thread : AllOps'[u] = AllOps[u] + (IF u = t THEN e ELSE 0)
  BY <1>1
<1>6. \A n \in 0 .. NbThreads : Sums(Grown')[n] = Sums(Grown)[n] + (IF n >= t THEN d ELSE 0)
  <2>1. Grown \in [Thread -> Int] /\ Grown' \in [Thread -> Int]
    BY <1>1, <1>2
  <2>2. QED
    BY ONLY <2>1, <1>4, SumsChange, d \in Int, t \in Thread
<1>7. \A n \in 0 .. NbThreads : Sums(AllOps')[n] = Sums(AllOps)[n] + (IF n >= t THEN e ELSE 0)
  <2>1. AllOps \in [Thread -> Int] /\ AllOps' \in [Thread -> Int]
    BY <1>1, <1>2
  <2>2. QED
    BY ONLY <2>1, <1>5, SumsChange, e \in Int, t \in Thread
<1>8. QED
  BY <1>3, <1>6, <1>7

\* Once it has returned a thread stays there, and an exit is for good.
LEMMA ReturnedStays ==
  ASSUME Shape, [Next]_vars, pc'[MainThread] # "exited"
  PROVE  /\ pc[MainThread] # "exited"
         /\ \A t \in Thread : pc[t] = "returned" => pc'[t] = "returned"
<1> USE Facts DEF Shape, TypeOK
<1> DEFINE Goal == /\ pc[MainThread] # "exited"
                   /\ \A t \in Thread : pc[t] = "returned" => pc'[t] = "returned"
<1>1. ASSUME NEW p \in Parties, Arrive(p) PROVE Goal
  BY <1>1, ArriveIs
<1>2. ASSUME NEW p \in Parties, SpuriousWakeup(p) PROVE Goal
  BY <1>2 DEF SpuriousWakeup
<1>3. ASSUME NEW u \in Thread,
             FirstDraw(u) \/ Choose(u) \/ Operation(u) \/ Result(u) \/ LeaveLoop(u)
      PROVE  Goal
  BY <1>3 DEF FirstDraw, Choose, Operation, Result, LeaveLoop
<1>4. ASSUME NEW u \in Thread, Exit(u) PROVE FALSE
  BY <1>4 DEF Exit
<1>5. CASE Stop \/ JoinNext \/ UNCHANGED vars
  BY <1>5 DEF Stop, JoinNext, vars
<1>6. QED
  BY <1>1, <1>2, <1>3, <1>4, <1>5, Steps

\* Only main joins.
LEMMA JoinedStays == [Next]_vars /\ ~JoinNext => joined' = joined /\ sum' = sum
  BY Steps DEF Arrive, FirstDraw, Choose, Operation, Result, Exit, LeaveLoop, Stop,
     SpuriousWakeup, vars, summing

LEMMA SumTypes ==
  Shape => \A n \in 0 .. NbThreads : Sums(Grown)[n] \in Int /\ Sums(AllOps)[n] \in Int
<1> SUFFICES ASSUME Shape
             PROVE  \A n \in 0 .. NbThreads : Sums(Grown)[n] \in Int /\ Sums(AllOps)[n] \in Int
  OBVIOUS
<1>1. AreSums(Sums(Grown), Grown, NbThreads) /\ AreSums(Sums(AllOps), AllOps, NbThreads)
  BY SumsAre, SummandTypes
<1>2. QED
  BY <1>1 DEF AreSums

LEMMA BooksStep == IInv /\ [Next]_vars /\ Shape' => Books'
<1> SUFFICES ASSUME IInv, Shape, Calling, [Next]_vars, Shape', pc'[MainThread] # "exited"
             PROVE  Balanced'
  BY DEF IInv, Books
<1>1. /\ Balanced /\ start' = start
      /\ \A t \in Thread : pc[t] = "returned" => pc'[t] = "returned"
  BY ReturnedStays, ModeStays DEF IInv, Books
<1>2. /\ joined \in Nat /\ joined <= NbThreads
      /\ NbThreads \in Nat /\ NbThreads \in 0 .. NbThreads
      /\ joined \in 0 .. NbThreads /\ 1 \in Thread
  BY Facts DEF Shape, TypeOK
<1>3. /\ Cardinality(set) \in Int /\ Cardinality(start) \in Int
      /\ Sums(Grown)[NbThreads] \in Int
      /\ Sums(Grown)[joined] \in Int /\ Sums(AllOps)[joined] \in Int
  BY SetFinite, SumTypes, <1>2 DEF Shape
<1>4. ASSUME NEW t \in Thread, Operation(t) PROVE Balanced'
  <2>1. pc[t] = "operation" /\ joined' = joined /\ sum' = sum /\ ares' = ares
    BY <1>4 DEF Operation, summing, loop
  <2>2. ~(joined >= t) /\ NbThreads >= t
    BY <1>1, <1>2, <2>1, Facts DEF Balanced
  <2> DEFINE d == Uncounted(t)'
  <2>3. d \in Int /\ Uncounted(t) = 0 /\ Cardinality(set') = Cardinality(set) + d
    BY <1>4, OperationGrows
  <2>4. Grown'[t] = Grown[t] + d /\ AllOps'[t] = AllOps[t] + 0
    <3>1. ares[t]["added"] - ares[t]["removed"] \in Int /\ Ops(t) \in Int
      BY Numbers DEF Shape, TypeOK, Counter
    <3>2. QED
      BY <2>1, <2>3, <3>1 DEF Grown, AllOps, Ops
  <2>5. \A u \in Thread \ {t} : Grown'[u] = Grown[u] /\ AllOps'[u] = AllOps[u]
    BY <1>4, OneMoves, GrownStays
  <2> HIDE DEF d
  <2>6. /\ Sums(Grown)'[NbThreads] = Sums(Grown)[NbThreads] + d
        /\ Sums(Grown)'[joined] = Sums(Grown)[joined] + 0
        /\ Sums(AllOps)'[joined] = Sums(AllOps)[joined] + 0
    BY <1>2, <2>2, <2>3, <2>4, <2>5, BothChange
  <2>7. Balanced'
    <3>1. /\ Sums(Grown)'[NbThreads] = Cardinality(set') - Cardinality(start)
          /\ Sums(Grown)'[joined] = sum.size - Cardinality(start)
          /\ Sums(AllOps)'[joined] = sum.reads + sum.updates
          /\ Sums(AllOps)'[joined] = sum.effreads + sum.effupds
      BY <1>1, <1>3, <2>3, <2>6 DEF Balanced
    <3>2. \A u \in 1 .. joined : pc'[u] = "returned"
      BY <1>1, <1>2, Facts DEF Balanced
    <3>3. QED
      BY <1>1, <2>1, <3>1, <3>2 DEF Balanced
  <2>8. QED
    BY <2>7
<1>5. ASSUME NEW t \in Thread, Result(t) PROVE Balanced'
  <2>1. pc[t] = "result" /\ joined' = joined /\ sum' = sum /\ set' = set
    BY <1>5 DEF Result, summing, Data!Return
  <2>2. ~(joined >= t)
    BY <1>1, <1>2, <2>1, Facts DEF Balanced
  <2>3. Grown'[t] = Grown[t] + 0 /\ AllOps'[t] = AllOps[t] + 1
    BY <1>5, ResultGrows, SummandTypes
  <2>4. \A u \in Thread \ {t} : Grown'[u] = Grown[u] /\ AllOps'[u] = AllOps[u]
    BY <1>5, OneMoves, GrownStays
  <2>5. /\ Sums(Grown)'[NbThreads] = Sums(Grown)[NbThreads] + 0
        /\ Sums(Grown)'[joined] = Sums(Grown)[joined] + 0
        /\ Sums(AllOps)'[joined] = Sums(AllOps)[joined] + 0
    BY <1>2, <2>2, <2>3, <2>4, BothChange
  <2>6. QED
    BY <1>1, <1>2, <1>3, <2>1, <2>5, Facts DEF Balanced
<1>6. CASE \A t \in Thread : ~Operation(t) /\ ~Result(t)
  <2>1. set' = set /\ \A u \in Thread : Grown'[u] = Grown[u] + 0 /\ AllOps'[u] = AllOps[u] + 0
    BY <1>6, SetStays, GrownStays, SummandTypes
  <2>2. \A n \in 0 .. NbThreads : /\ Sums(Grown)'[n] = Sums(Grown)[n]
                                  /\ Sums(AllOps)'[n] = Sums(AllOps)[n]
    <3>1. \A u \in Thread \ {1} : Grown'[u] = Grown[u] /\ AllOps'[u] = AllOps[u]
      BY <1>6, GrownStays
    <3>2. \A n \in 0 .. NbThreads :
            /\ Sums(Grown)'[n] = Sums(Grown)[n] + (IF n >= 1 THEN 0 ELSE 0)
            /\ Sums(AllOps)'[n] = Sums(AllOps)[n] + (IF n >= 1 THEN 0 ELSE 0)
      BY <1>2, <2>1, <3>1, BothChange
    <3>3. QED
      BY <3>2, SumTypes
  <2>3. CASE ~JoinNext
    BY <1>1, <1>2, <2>1, <2>2, <2>3, JoinedStays, Facts DEF Balanced
  <2>4. CASE JoinNext
    <3> DEFINE r == ares[joined + 1]
    <3>1. /\ joined + 1 \in Thread /\ joined' = joined + 1 /\ pc[joined + 1] = "returned"
          /\ sum'.reads = sum.reads + r["contains"]
          /\ sum'.effreads = sum.effreads + r["contains"] + (r["add"] - r["added"])
                                          + (r["remove"] - r["removed"])
          /\ sum'.updates = sum.updates + r["add"] + r["remove"]
          /\ sum'.effupds = sum.effupds + r["removed"] + r["added"]
          /\ sum'.size = sum.size + r["added"] - r["removed"]
      BY <2>4, JoinIs DEF JoinNext
    <3>2. /\ r["contains"] \in Int /\ r["add"] \in Int /\ r["added"] \in Int
          /\ r["remove"] \in Int /\ r["removed"] \in Int
      BY <2>4, JoinIs DEF Counter
    <3>3. /\ sum.reads \in Int /\ sum.effreads \in Int /\ sum.updates \in Int
          /\ sum.effupds \in Int /\ sum.size \in Int
      BY DEF Shape
    <3>4. /\ Grown[joined + 1] = r["added"] - r["removed"]
          /\ AllOps[joined + 1] = r["add"] + r["remove"] + r["contains"]
      BY <3>1, <3>2 DEF Grown, AllOps, Uncounted, Ops
    <3>5. /\ Sums(Grown)[joined + 1] = Sums(Grown)[joined] + Grown[joined + 1]
          /\ Sums(AllOps)[joined + 1] = Sums(AllOps)[joined] + AllOps[joined + 1]
      <4>1. joined + 1 \in Thread
        BY <3>1
      <4>2. QED
        BY <1>2, <4>1, SumsNext, SummandTypes
    <3> HIDE DEF r
    <3>6. /\ Sums(Grown)[joined] = sum.size - Cardinality(start)
          /\ Sums(AllOps)[joined] = sum.reads + sum.updates
          /\ Sums(AllOps)[joined] = sum.effreads + sum.effupds
          /\ Sums(Grown)'[joined + 1] = Sums(Grown)[joined + 1]
          /\ Sums(AllOps)'[joined + 1] = Sums(AllOps)[joined + 1]
      BY <1>1, <2>2, <3>1, Facts DEF Balanced
    <3>7. /\ Sums(Grown)'[joined'] = sum'.size - Cardinality(start)
          /\ Sums(AllOps)'[joined'] = sum'.reads + sum'.updates
          /\ Sums(AllOps)'[joined'] = sum'.effreads + sum'.effupds
      <4>1. Sums(Grown)[joined + 1] = sum'.size - Cardinality(start)
        BY <1>3, <3>1, <3>2, <3>3, <3>4, <3>5, <3>6
      <4>2. Sums(AllOps)[joined + 1] = sum'.reads + sum'.updates
        BY <1>3, <3>1, <3>2, <3>3, <3>4, <3>5, <3>6
      <4>3. Sums(AllOps)[joined + 1] = sum'.effreads + sum'.effupds
        BY <1>3, <3>1, <3>2, <3>3, <3>4, <3>5, <3>6
      <4>4. QED
        BY <3>1, <3>6, <4>1, <4>2, <4>3
    <3>8. \A t \in 1 .. joined' : pc'[t] = "returned"
      BY <1>1, <1>2, <3>1, Facts DEF Balanced
    <3>9. QED
      BY <1>1, <1>2, <2>1, <2>2, <3>7, <3>8 DEF Balanced
  <2>5. QED
    BY <2>3, <2>4
<1>7. QED
  BY <1>4, <1>5, <1>6

-----------------------------------------------------------------------------
LEMMA SumsZero ==
  ASSUME NEW h \in [Thread -> Int], \A t \in Thread : h[t] = 0
  PROVE  \A n \in 0 .. NbThreads : Sums(h)[n] = 0
<1> USE ThreadsAssumption DEF Thread
<1> DEFINE s == Sums(h)
<1>1. AreSums(s, h, NbThreads)
  BY SumsAre
<1> HIDE DEF s
<1>2. \A n \in 0 .. NbThreads : s[n] = 0
  <2> DEFINE T == {n \in Nat : n <= NbThreads /\ s[n] # 0}
  <2> SUFFICES ASSUME T # {} PROVE FALSE
    <3>1. \A n \in 0 .. NbThreads : n \in Nat /\ n <= NbThreads
      OBVIOUS
    <3>2. QED
      BY <3>1
  <2>1. PICK m \in T : \A k \in T : m <= k
    BY Least
  <2>2. CASE m = 0
    BY <2>1, <2>2, <1>1 DEF AreSums
  <2>3. CASE m # 0
    <3>1. m - 1 \in Nat /\ m - 1 \notin T /\ m \in Thread
      BY <2>1, <2>3
    <3>2. s[m] = s[m - 1] + h[m]
      BY <3>1, <1>1 DEF AreSums
    <3>3. QED
      BY <3>1, <3>2, <2>1
  <2>4. QED
    BY <2>2, <2>3
<1>3. QED
  BY <1>2 DEF s

LEMMA InitInv == Init => IInv
<1> SUFFICES ASSUME Init PROVE IInv
  OBVIOUS
<1> USE Facts
<1>1. TypeOK
  BY KeyAssumption, BoundAssumption DEF Init, TypeOK, Counter
<1>2. Shape
  <2>1. Cardinality(set) \in Nat
    BY <1>1, SetFinite
  <2>2. QED
    BY <1>1, <2>1 DEF Init, Shape
<1>3. Calling
  BY DEF Init, Calling, Active
<1>4. Balanced
  <2>1. \A t \in Thread : Grown[t] = 0 /\ AllOps[t] = 0
    BY DEF Init, Grown, AllOps, Uncounted, Ops, Counter
  <2>2. Grown \in [Thread -> Int] /\ AllOps \in [Thread -> Int]
    BY <1>2, SummandTypes
  <2>3. \A n \in 0 .. NbThreads : Sums(Grown)[n] = 0
    BY ONLY <2>1, <2>2, SumsZero
  <2>4. \A n \in 0 .. NbThreads : Sums(AllOps)[n] = 0
    BY ONLY <2>1, <2>2, SumsZero
  <2>5. Cardinality(set) \in Nat /\ start = set /\ joined = 0
    BY <1>1, SetFinite DEF Init
  <2>6. QED
    BY <2>3, <2>4, <2>5 DEF Init, Balanced
<1>5. Own
  BY DEF Init, Own, Active, Gone, Holds, Fresh, Counter
<1>6. Paced /\ RateNotExceeded
  BY DEF Init, Paced, RateNotExceeded, Ops, Eff, Counter
<1>7. NoDeletes
  BY DEF Init, NoDeletes
<1>8. Gathering
  <2>1. Arrived = {} /\ crossing = 0
    BY DEF Init, Arrived
  <2>2. QED
    BY <2>1, FS_EmptySet DEF Init, Gathering, Arrived
<1>9. QED
  BY <1>2, <1>3, <1>4, <1>5, <1>6, <1>7, <1>8 DEF IInv, Books

LEMMA StepInv == IInv /\ [Next]_vars => IInv'
  BY ShapeStep, CallingStep, BooksStep, OwnStep, PacedStep, NoDeletesStep, GatheringStep DEF
     IInv

\* The inductive invariant holds in every reachable state.
THEOREM Invariant == Spec => []IInv
  BY InitInv, StepInv, PTL DEF Spec

\* The types of all the variables.
THEOREM TypeCorrect == Spec => []TypeOK
<1>1. IInv => TypeOK
  BY DEF IInv, Shape
<1>2. QED
  BY Invariant, <1>1, PTL

\* When main is done the size it prints is that of the list, and the two ways
\* of counting give the number of operations.
THEOREM BooksBalance == Spec => []AddsUp
<1>1. IInv => AddsUp
  <2> SUFFICES ASSUME IInv, Shape, TypeOK, pc[MainThread] = "done"
               PROVE  /\ sum.size = Cardinality(set)
                      /\ sum.reads + sum.updates = Total
                      /\ sum.effreads + sum.effupds = Total
    BY DEF IInv, Shape, AddsUp
  <2>1. Balanced /\ joined = NbThreads
    BY DEF IInv, Books, Shape
  <2>2. Cardinality(set) \in Nat /\ Cardinality(start) \in Nat /\ sum.size \in Int
    BY SetFinite DEF Shape
  <2>3. QED
    BY <2>1, <2>2 DEF Balanced, Total
<1>2. QED
  BY Invariant, <1>1, PTL

\* What each mode promises of the choice of operations, whatever the rate.
THEOREM ModesAreKept == Spec => []ModesKept
<1>1. IInv => OwnKeys
  BY Facts DEF IInv, Own, OwnKeys, Owns, Holds, Mine, Fresh, Gone
<1>2. IInv => ModesKept
  BY <1>1 DEF IInv, ModesKept
<1>3. QED
  BY Invariant, <1>2, PTL

\* No party that waits for the signal crosses the barrier before all are there.
THEOREM BarrierHolds == Spec => []CrossTogether
<1>1. IInv => CrossTogether
  BY DEF IInv, Gathering, CrossTogether
<1>2. QED
  BY Invariant, <1>1, PTL

\* Outside the alternate mode the set only grows.
THEOREM OnlyGrows == Spec => GrowsOutsideAlternate
<1>1. IInv /\ [Next]_vars => [~mode.alternate => set \subseteq set']_vars
  <2> SUFFICES ASSUME IInv, Shape, Calling, [Next]_vars, ~mode.alternate
               PROVE  set \subseteq set'
    BY DEF IInv
  <2>1. ASSUME NEW t \in Thread, Operation(t) PROVE set \subseteq set'
    <3>1. otype[t] # "DELETE"
      BY DEF IInv, NoDeletes
    <3>2. QED
      BY <2>1, <3>1, OperationIs DEF MayDo
  <2>2. QED
    BY <2>1, SetStays
<1>2. QED
  BY Invariant, <1>1, PTL DEF Spec, GrowsOutsideAlternate
=============================================================================
