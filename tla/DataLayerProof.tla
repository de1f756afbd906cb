--------------------------- MODULE DataLayerProof ---------------------------
(***************************************************************************)
(* Proofs about DataLayer for every set of threads, keys and nodes.        *)
(*                                                                         *)
(* The inductive invariant says nothing of reachability.  It keeps that    *)
(* the next node of a linked node has the least greater key among ALL      *)
(* linked nodes (Sorted), so a search that stands before a greater key has *)
(* seen that its own key is in no linked node.  What a thread knows        *)
(* between two accesses (ThreadInv) is about keys and its own private node *)
(* only, which no step of another thread changes.                          *)
(***************************************************************************)
EXTENDS DataLayer, TLAPS

\* The list, whoever changes it.
HeapInv ==
  /\ Head \in linked /\ key[Head] = 0 /\ val[Head] = NULL /\ prev[Head] = NULL
  /\ \A n \in linked \ {Head} : key[n] \in Key /\ val[n] \in {NULL, key[n]}
  /\ Sorted
  /\ PrevLeadsBack

\* A node allocated for the CAS of Link, not yet in the list.
Pending(t) ==
  /\ newNode[t] \in Node \ linked
  /\ key[newNode[t]] = call[t].key /\ val[newNode[t]] = call[t].key
  /\ next[newNode[t]] = right[t] /\ prev[newNode[t]] = at[t]
  /\ Is(t, "INSERT") /\ key[at[t]] < call[t].key
  /\ right[t] # NULL => call[t].key < key[right[t]]

\* What a thread knows at each of its accesses.
ThreadInv(t) ==
  /\ at[t] \in linked /\ right[t] \in linked \cup {NULL} /\ published[t] \subseteq linked
  /\ IF pc[t] = "idle" THEN call[t] = NoCall
                       ELSE call[t] \in Call /\ key[at[t]] <= call[t].key
  /\ (result[t] = "none") <=> pc[t] \notin {"setprev", "ret"}
  /\ pc[t] \notin {"link", "setprev", "ret"} => newNode[t] = NULL
  /\ pc[t] = "next" => seen[t] \in {NULL, key[at[t]]}
  /\ pc[t] \in {"delread", "delcas"} => Is(t, "DELETE") /\ AtKey(t)
  /\ pc[t] = "delcas" => seen[t] = key[at[t]]
  /\ pc[t] = "revive" => Is(t, "INSERT") /\ AtKey(t)
  /\ pc[t] = "link" => Pending(t)
  /\ pc[t] = "setprev" => /\ newNode[t] \in linked \ {Head} /\ right[t] \in linked
                          /\ key[newNode[t]] < key[right[t]]
  /\ pc[t] = "ret" => newNode[t] \in (linked \ {Head}) \cup {NULL}

Private ==
  \A t, u \in Thread : pc[t] = "link" /\ newNode[u] = newNode[t] => t = u

IInv == TypeOK /\ HeapInv /\ (\A t \in Thread : ThreadInv(t)) /\ Private

-----------------------------------------------------------------------------
LEMMA InitInv == Init => IInv
<1> SUFFICES ASSUME Init PROVE IInv
  OBVIOUS
<1> USE NodeAssumption, KeyAssumption DEF Init, Address
<1>1. TypeOK
  BY DEF TypeOK
<1>2. HeapInv
  BY DEF HeapInv, Sorted, PrevLeadsBack
<1>3. ASSUME NEW t \in Thread PROVE ThreadInv(t)
  BY DEF ThreadInv
<1>4. Private
  BY DEF Private
<1>5. QED
  BY <1>1, <1>2, <1>3, <1>4 DEF IInv

-----------------------------------------------------------------------------
\* Keys are natural numbers; only the sentinel has key 0.
LEMMA Keys ==
  ASSUME IInv
  PROVE  /\ linked \subseteq Address /\ Head \in Address /\ NULL \notin Address
         /\ \A n \in Address : key[n] \in Nat
         /\ \A n \in linked : key[n] = 0 <=> n = Head
         /\ \A c \in Call : c.key \in Key /\ c.key \in Nat /\ c.key > 0 /\ c.key # NULL
         /\ NoCall \notin Call
<1>1. linked \subseteq Address /\ Head \in Address /\ NULL \notin Address
  BY NodeAssumption DEF IInv, TypeOK, Address
<1>2. \A n \in Address : key[n] \in Nat
  <2>1. ASSUME NEW n \in Address PROVE key[n] \in Key \cup {0}
    BY DEF IInv, TypeOK
  <2>2. Key \cup {0} \subseteq Nat
    BY KeyAssumption
  <2>3. QED
    BY <2>1, <2>2, Zenon
<1>3. \A n \in linked : key[n] = 0 <=> n = Head
  BY KeyAssumption DEF IInv, HeapInv
<1>4. \A c \in Call : c.key \in Key /\ c.key \in Nat /\ c.key > 0 /\ c.key # NULL
  <2>1. ASSUME NEW c \in Call PROVE c.key \in Key
    BY DEF Call
  <2>2. \A k \in Key : k \in Nat /\ k > 0 /\ k # NULL
    BY KeyAssumption
  <2>3. QED
    BY <2>1, <2>2
<1>5. NoCall \notin Call
  BY CallAssumption DEF Call, Optype
<1>6. QED
  BY <1>1, <1>2, <1>3, <1>4, <1>5

\* A step keeps what the threads that do not take it know, when it adds to the
\* list and leaves the keys of the list and the private nodes alone.
LEMMA OtherThread ==
  ASSUME NEW u \in Thread, ThreadInv(u),
         pc'[u] = pc[u], call'[u] = call[u], at'[u] = at[u], seen'[u] = seen[u],
         right'[u] = right[u], newNode'[u] = newNode[u], result'[u] = result[u],
         published'[u] = published[u],
         linked \subseteq linked', \A n \in linked : key'[n] = key[n],
         pc[u] = "link" =>
           /\ newNode[u] \notin linked' /\ key'[newNode[u]] = key[newNode[u]]
           /\ val'[newNode[u]] = val[newNode[u]] /\ next'[newNode[u]] = next[newNode[u]]
           /\ prev'[newNode[u]] = prev[newNode[u]]
  PROVE  ThreadInv(u)'
  BY DEF ThreadInv, Pending, Is, AtKey

LEMMA TypeStep == IInv /\ [Next]_vars => TypeOK'
<1> SUFFICES ASSUME IInv, TypeOK, [Next]_vars PROVE TypeOK'
  BY DEF IInv
<1>0. ASSUME NEW t \in Thread
      PROVE  /\ pc[t] # "idle" => call[t] \in Call /\ call[t].key \in Key
             /\ at[t] \in Address
             /\ pc[t] = "link" => newNode[t] \in Node
             /\ pc[t] = "setprev" => newNode[t] \in Address /\ right[t] \in Address
             /\ pc[t] = "ret" => newNode[t] \in Node \cup {NULL}
  <2>1. ThreadInv(t) /\ linked \subseteq Address
    BY DEF IInv, TypeOK
  <2>2. pc[t] # "idle" => call[t] \in Call /\ call[t].key \in Key
    BY <2>1 DEF ThreadInv, Call
  <2>3. QED
    BY <2>1, <2>2 DEF ThreadInv, Pending, Address, TypeOK
<1> USE DEF heap, local
<1>1. ASSUME NEW t \in Thread, Start(t) PROVE TypeOK'
  <2>1. PICK c \in Call, entry \in published[t] \cup {Head} :
          /\ call' = [call EXCEPT ![t] = c] /\ at' = [at EXCEPT ![t] = entry]
    BY <1>1 DEF Start
  <2>2. entry \in Address
    BY <2>1 DEF TypeOK, Address
  <2>3. QED
    BY <1>1, <2>1, <2>2 DEF Start, TypeOK
<1>2. ASSUME NEW t \in Thread, ReadVal(t) PROVE TypeOK'
  BY <1>0, <1>2 DEF ReadVal, TypeOK
<1>3. ASSUME NEW t \in Thread, Advance(t) PROVE TypeOK'
  <2>1. next[at[t]] \in Address
    BY <1>0, <1>3 DEF Advance, Beyond, TypeOK
  <2>2. QED
    BY <1>3, <2>1 DEF Advance, TypeOK
<1>4. ASSUME NEW t \in Thread, Answer(t) PROVE TypeOK'
  BY <1>4 DEF Answer, TypeOK
<1>5. ASSUME NEW t \in Thread, Found(t) PROVE TypeOK'
  BY <1>0, <1>5 DEF Found, TypeOK
<1>6. ASSUME NEW t \in Thread, Allocate(t) PROVE TypeOK'
  <2>1. PICK n \in Node \ Allocated :
          /\ key' = [key EXCEPT ![n] = call[t].key] /\ val' = [val EXCEPT ![n] = call[t].key]
          /\ prev' = [prev EXCEPT ![n] = at[t]] /\ next' = [next EXCEPT ![n] = next[at[t]]]
          /\ newNode' = [newNode EXCEPT ![t] = n]
    BY <1>6 DEF Allocate
  <2>2. call[t].key \in Key /\ at[t] \in Address /\ n \in Address
        /\ next[at[t]] \in Address \cup {NULL}
    BY <1>0, <1>6 DEF Allocate, TypeOK, Address
  <2>3. QED
    BY <1>6, <2>1, <2>2 DEF Allocate, TypeOK
<1>7. ASSUME NEW t \in Thread, DelRead(t) PROVE TypeOK'
  BY <1>0, <1>7 DEF DelRead, TypeOK
<1>8. ASSUME NEW t \in Thread, DelCAS(t) PROVE TypeOK'
  BY <1>0, <1>8 DEF DelCAS, TypeOK
<1>9. ASSUME NEW t \in Thread, Revive(t) PROVE TypeOK'
  BY <1>0, <1>9 DEF Revive, TypeOK
<1>10. ASSUME NEW t \in Thread, Link(t) PROVE TypeOK'
  <2>1. newNode[t] \in Address
    BY <1>0, <1>10 DEF Link, Address
  <2>2. QED
    BY <1>10, <2>1 DEF Link, TypeOK
<1>11. ASSUME NEW t \in Thread, LinkFails(t) PROVE TypeOK'
  BY <1>11 DEF LinkFails, TypeOK
<1>12. ASSUME NEW t \in Thread, SetPrev(t) PROVE TypeOK'
  BY <1>0, <1>12 DEF SetPrev, TypeOK
<1>13. ASSUME NEW t \in Thread, Return(t) PROVE TypeOK'
  <2>1. published[t] \cup ({newNode[t]} \ {NULL}) \subseteq Node
    BY <1>0, <1>13 DEF Return, TypeOK
  <2>2. published' \in [Thread -> SUBSET Node]
    BY <1>13, <2>1 DEF Return, TypeOK
  <2>3. /\ call' \in [Thread -> Call \cup {NoCall}] /\ at' \in [Thread -> Address]
        /\ seen' \in [Thread -> Key \cup {NULL}]
        /\ right' \in [Thread -> Address \cup {NULL}]
        /\ newNode' \in [Thread -> Address \cup {NULL}]
    BY <1>13 DEF Return, TypeOK, Address
  <2>4. QED
    BY <1>13, <2>2, <2>3 DEF Return, TypeOK
<1>14. CASE UNCHANGED vars
  BY <1>14 DEF vars, TypeOK
<1>15. QED
  BY <1>1, <1>2, <1>3, <1>4, <1>5, <1>6, <1>7, <1>8, <1>9, <1>10, <1>11, <1>12, <1>13, <1>14
     DEF Next, Step

-----------------------------------------------------------------------------
\* A step of t leaves the locals of the other threads alone.
OnlyThread(t) ==
  \A u \in Thread \ {t} :
    /\ pc'[u] = pc[u] /\ call'[u] = call[u] /\ at'[u] = at[u] /\ seen'[u] = seen[u]
    /\ right'[u] = right[u] /\ newNode'[u] = newNode[u] /\ result'[u] = result[u]
    /\ published'[u] = published[u]

LEMMA OneThread ==
  ASSUME TypeOK, NEW t \in Thread, Start(t) \/ Step(t)
  PROVE  OnlyThread(t)
<1> USE DEF TypeOK, OnlyThread, heap, local
<1>1. CASE Start(t)
  BY <1>1 DEF Start
<1>2. CASE ReadVal(t)
  BY <1>2 DEF ReadVal
<1>3. CASE Advance(t)
  BY <1>3 DEF Advance
<1>4. CASE Answer(t)
  BY <1>4 DEF Answer
<1>5. CASE Found(t)
  BY <1>5 DEF Found
<1>6. CASE Allocate(t)
  BY <1>6 DEF Allocate
<1>7. CASE DelRead(t)
  BY <1>7 DEF DelRead
<1>8. CASE DelCAS(t)
  BY <1>8 DEF DelCAS
<1>9. CASE Revive(t)
  BY <1>9 DEF Revive
<1>10. CASE Link(t)
  BY <1>10 DEF Link
<1>11. CASE LinkFails(t)
  BY <1>11 DEF LinkFails
<1>12. CASE SetPrev(t)
  BY <1>12 DEF SetPrev
<1>13. CASE Return(t)
  BY <1>13 DEF Return
<1>14. QED
  BY <1>1, <1>2, <1>3, <1>4, <1>5, <1>6, <1>7, <1>8, <1>9, <1>10, <1>11, <1>12, <1>13
     DEF Step

\* What remains to show of a step that changes no shared field.
LEMMA LocalStep ==
  ASSUME IInv, NEW t \in Thread, OnlyThread(t), UNCHANGED heap, ThreadInv(t)',
         pc'[t] # "link", newNode'[t] \in {newNode[t], NULL}
  PROVE  HeapInv' /\ (\A u \in Thread : ThreadInv(u)') /\ Private'
<1> USE DEF heap
<1>1. HeapInv'
  BY DEF IInv, HeapInv, Sorted, PrevLeadsBack
<1>2. ASSUME NEW u \in Thread PROVE ThreadInv(u)'
  <2>1. CASE u # t
    BY <2>1, OtherThread DEF IInv, OnlyThread, ThreadInv, Pending
  <2>2. QED
    BY <2>1
<1>3. Private'
  <2> SUFFICES ASSUME NEW v \in Thread, NEW u \in Thread, pc'[v] = "link",
                      newNode'[u] = newNode'[v]
               PROVE  v = u
    BY DEF Private
  <2>1. v # t /\ pc[v] = "link" /\ newNode'[v] = newNode[v] /\ newNode[v] # NULL
    BY NodeAssumption DEF OnlyThread, IInv, ThreadInv, Pending
  <2>2. newNode'[u] = newNode[u]
    BY <2>1 DEF OnlyThread
  <2>3. QED
    BY <2>1, <2>2 DEF IInv, Private
<1>4. QED
  BY <1>1, <1>2, <1>3

\* The search.
LEMMA SearchStep ==
  ASSUME IInv, NEW t \in Thread,
         Start(t) \/ ReadVal(t) \/ Advance(t) \/ Answer(t) \/ Found(t)
  PROVE  HeapInv' /\ (\A u \in Thread : ThreadInv(u)') /\ Private'
<1> USE DEF heap
<1>0. TypeOK /\ HeapInv /\ ThreadInv(t) /\ OnlyThread(t) /\ at[t] \in linked
  BY OneThread DEF IInv, Step, ThreadInv
<1>1. CASE Start(t)
  <2>1. PICK c \in Call, entry \in published[t] \cup {Head} :
          /\ key[entry] <= c.key
          /\ call' = [call EXCEPT ![t] = c] /\ at' = [at EXCEPT ![t] = entry]
    BY <1>1 DEF Start
  <2>2. /\ pc[t] = "idle" /\ pc'[t] = "val" /\ call'[t] = c /\ at'[t] = entry
        /\ UNCHANGED <<heap, seen, right, newNode, result, published>>
    BY <1>0, <1>1, <2>1 DEF Start, TypeOK
  <2>3. ThreadInv(t)'
    BY <1>0, <2>1, <2>2 DEF HeapInv, ThreadInv
  <2>4. QED
    BY <1>0, <2>2, <2>3, LocalStep
<1>2. CASE ReadVal(t)
  <2>1. /\ pc[t] = "val" /\ pc'[t] = "next" /\ seen'[t] = val[at[t]]
        /\ UNCHANGED <<heap, call, at, right, newNode, result, published>>
    BY <1>0, <1>2 DEF ReadVal, TypeOK
  <2>2. val[at[t]] \in {NULL, key[at[t]]}
    BY <1>0 DEF HeapInv
  <2>3. ThreadInv(t)'
    BY <1>0, <2>1, <2>2 DEF ThreadInv
  <2>4. QED
    BY <1>0, <2>1, <2>3, LocalStep
<1>3. CASE Advance(t)
  <2>1. /\ pc[t] = "next" /\ pc'[t] = "val" /\ at'[t] = next[at[t]]
        /\ next[at[t]] # NULL /\ ~(key[next[at[t]]] > call[t].key)
        /\ UNCHANGED <<heap, call, seen, right, newNode, result, published>>
    BY <1>0, <1>3 DEF Advance, Beyond, TypeOK
  <2>2. next[at[t]] \in linked
    BY <1>0, <2>1 DEF HeapInv, Sorted
  <2>3. key[next[at[t]]] <= call[t].key
    BY <1>0, <2>1, <2>2, Keys DEF ThreadInv
  <2>4. ThreadInv(t)'
    BY <1>0, <2>1, <2>2, <2>3 DEF ThreadInv
  <2>5. QED
    BY <1>0, <2>1, <2>4, LocalStep
<1>4. CASE Answer(t)
  <2>1. /\ pc[t] = "next" /\ pc'[t] = "ret" /\ result'[t] # "none"
        /\ UNCHANGED <<heap, call, at, seen, right, newNode, published>>
    BY <1>0, <1>4 DEF Answer, TypeOK
  <2>2. ThreadInv(t)'
    BY <1>0, <2>1 DEF ThreadInv
  <2>3. QED
    BY <1>0, <2>1, <2>2, LocalStep
<1>5. CASE Found(t)
  <2>1. /\ pc[t] = "next" /\ right'[t] = next[at[t]] /\ AtKey(t) /\ ~Answers(t)
        /\ pc'[t] \in IF Is(t, "DELETE") THEN {"delread", "delcas"} ELSE {"revive"}
        /\ UNCHANGED <<heap, call, at, seen, newNode, result, published>>
    BY <1>0, <1>5 DEF Found, TypeOK
  <2>2. next[at[t]] \in linked \cup {NULL}
    BY <1>0 DEF HeapInv, Sorted
  <2>3. Is(t, "DELETE") \/ Is(t, "INSERT")
    BY <1>0, <2>1 DEF ThreadInv, Answers, Is, Call, Optype
  <2>4. Is(t, "DELETE") => seen[t] = key[at[t]]
    BY <1>0, <2>1 DEF ThreadInv, Answers
  <2>5. ThreadInv(t)'
    BY <1>0, <2>1, <2>2, <2>3, <2>4 DEF ThreadInv, Is, AtKey
  <2>6. QED
    BY <1>0, <2>1, <2>5, LocalStep
<1>6. QED
  BY <1>1, <1>2, <1>3, <1>4, <1>5

\* What remains to show, of the threads, of a step that changes shared fields.
LEMMA HeapStep ==
  ASSUME IInv, NEW t \in Thread, OnlyThread(t), ThreadInv(t)',
         linked \subseteq linked', \A n \in linked : key'[n] = key[n],
         \A u \in Thread \ {t} : pc[u] = "link" =>
           /\ newNode[u] \notin linked' /\ key'[newNode[u]] = key[newNode[u]]
           /\ val'[newNode[u]] = val[newNode[u]] /\ next'[newNode[u]] = next[newNode[u]]
           /\ prev'[newNode[u]] = prev[newNode[u]]
           /\ newNode'[t] # newNode[u],
         pc'[t] = "link" => \A u \in Thread \ {t} : newNode[u] # newNode'[t]
  PROVE  (\A u \in Thread : ThreadInv(u)') /\ Private'
<1>1. ASSUME NEW u \in Thread PROVE ThreadInv(u)'
  <2>1. CASE u # t
    BY <2>1, OtherThread DEF IInv, OnlyThread
  <2>2. QED
    BY <2>1
<1>2. Private'
  BY DEF IInv, Private, OnlyThread
<1>3. QED
  BY <1>1, <1>2

\* The node of a pending Link is no linked node, no free node and no node of
\* another thread.
LEMMA PendingApart ==
  ASSUME IInv, NEW u \in Thread, pc[u] = "link"
  PROVE  /\ newNode[u] \in Node /\ newNode[u] \notin linked /\ newNode[u] # NULL
         /\ newNode[u] \in Allocated
         /\ \A v \in Thread : newNode[v] = newNode[u] => v = u
  BY NodeAssumption DEF IInv, ThreadInv, Pending, Private, Allocated

\* node_new: the fields of a free node are written.
LEMMA AllocateStep ==
  ASSUME IInv, NEW t \in Thread, Allocate(t)
  PROVE  HeapInv' /\ (\A u \in Thread : ThreadInv(u)') /\ Private'
<1>0. TypeOK /\ HeapInv /\ ThreadInv(t) /\ OnlyThread(t) /\ at[t] \in linked
  BY OneThread DEF IInv, Step, ThreadInv
<1>1. PICK n \in Node \ Allocated :
        /\ key' = [key EXCEPT ![n] = call[t].key] /\ val' = [val EXCEPT ![n] = call[t].key]
        /\ prev' = [prev EXCEPT ![n] = at[t]] /\ next' = [next EXCEPT ![n] = next[at[t]]]
        /\ newNode' = [newNode EXCEPT ![t] = n]
  BY DEF Allocate
<1>2. /\ pc[t] = "next" /\ pc'[t] = "link" /\ right'[t] = next[at[t]] /\ newNode'[t] = n
      /\ Beyond(t) /\ ~Answers(t) /\ ~AtKey(t)
      /\ UNCHANGED <<linked, call, at, seen, result, published>>
  BY <1>0, <1>1 DEF Allocate, TypeOK
<1>3. /\ n \in Address /\ n \notin linked /\ n # NULL
      /\ \A u \in Thread : newNode[u] # n
  BY NodeAssumption DEF Allocated, Address
<1>4. \A m \in Address \ {n} : /\ key'[m] = key[m] /\ val'[m] = val[m]
                               /\ prev'[m] = prev[m] /\ next'[m] = next[m]
  BY <1>0, <1>1 DEF TypeOK
<1>5. /\ key'[n] = call[t].key /\ val'[n] = call[t].key
      /\ prev'[n] = at[t] /\ next'[n] = next[at[t]]
  BY <1>0, <1>1, <1>3 DEF TypeOK
<1>6. \A m \in linked : /\ key'[m] = key[m] /\ val'[m] = val[m]
                        /\ prev'[m] = prev[m] /\ next'[m] = next[m]
  BY <1>0, <1>3, <1>4 DEF TypeOK
<1>7. HeapInv'
  BY <1>0, <1>2, <1>6 DEF HeapInv, Sorted, PrevLeadsBack
<1>8. ThreadInv(t)'
  <2>1. next[at[t]] # NULL => next[at[t]] \in linked /\ key[next[at[t]]] > call[t].key
    BY <1>0, <1>2 DEF Beyond, HeapInv, Sorted
  <2>2. next[at[t]] # NULL => call[t].key < key[next[at[t]]]
    BY <2>1, <1>0, <1>2, Keys DEF ThreadInv
  <2>3. key[at[t]] < call[t].key
    BY <1>0, <1>2, Keys DEF ThreadInv, AtKey
  <2>4. Is(t, "INSERT")
    BY <1>0, <1>2 DEF ThreadInv, Answers, Is, Call, Optype, AtKey
  <2>5. Pending(t)'
    BY <1>1, <1>2, <1>3, <1>5, <1>6, <1>0, <2>1, <2>2, <2>3, <2>4 DEF Pending, Is
  <2>6. QED
    BY <1>0, <1>2, <1>6, <2>1, <2>5 DEF ThreadInv
<1>9. \A u \in Thread \ {t} : pc[u] = "link" =>
        newNode[u] \in Address \ {n} /\ newNode[u] \notin linked
  BY <1>3, PendingApart DEF Address
<1>10. QED
  BY <1>0, <1>2, <1>3, <1>4, <1>6, <1>7, <1>8, <1>9, HeapStep

\* The value of the node with the search key is read, swapped to NULL or back.
LEMMA ValueStep ==
  ASSUME IInv, NEW t \in Thread, DelRead(t) \/ DelCAS(t) \/ Revive(t)
  PROVE  HeapInv' /\ (\A u \in Thread : ThreadInv(u)') /\ Private'
<1>0. /\ TypeOK /\ HeapInv /\ ThreadInv(t) /\ OnlyThread(t)
      /\ at[t] \in linked \ {Head} /\ AtKey(t)
  <2>1. TypeOK /\ HeapInv /\ ThreadInv(t) /\ OnlyThread(t)
    BY OneThread DEF IInv, Step
  <2>2. AtKey(t) /\ at[t] \in linked /\ call[t] \in Call
    BY <2>1 DEF ThreadInv, DelRead, DelCAS, Revive
  <2>3. QED
    BY <2>1, <2>2, Keys DEF AtKey
<1>1. CASE DelRead(t)
  <2>1. /\ pc[t] = "delread" /\ seen'[t] = val[at[t]]
        /\ \/ val[at[t]] = NULL /\ result'[t] = "no" /\ pc'[t] = "ret"
           \/ val[at[t]] # NULL /\ result'[t] = result[t] /\ pc'[t] = "delcas"
        /\ UNCHANGED <<heap, call, at, right, newNode, published>>
    BY <1>0, <1>1 DEF DelRead, TypeOK
  <2>2. val[at[t]] \in {NULL, key[at[t]]}
    BY <1>0 DEF HeapInv
  <2>3. ThreadInv(t)'
    BY <1>0, <2>1, <2>2 DEF ThreadInv, AtKey, Is, heap
  <2>4. QED
    BY <1>0, <2>1, <2>3, LocalStep
<1>2. CASE DelCAS(t) \/ Revive(t)
  <2>1. /\ val' \in {val, [val EXCEPT ![at[t]] = NULL], [val EXCEPT ![at[t]] = call[t].key]}
        /\ UNCHANGED <<key, next, prev, linked, call, at, seen, right, published>>
        /\ pc[t] \in {"delcas", "revive"}
    BY <1>2 DEF DelCAS, Revive
  <2>2. /\ \A n \in linked \ {at[t]} : val'[n] = val[n]
        /\ \A n \in Address \ linked : val'[n] = val[n]
        /\ val'[at[t]] \in {NULL, key[at[t]]}
    BY <1>0, <2>1 DEF TypeOK, AtKey, HeapInv
  <2>3. HeapInv'
    BY <1>0, <2>1, <2>2 DEF HeapInv, Sorted, PrevLeadsBack
  <2>4. ThreadInv(t)' /\ newNode'[t] \in linked \cup {NULL} /\ pc'[t] # "link"
    <3>1. CASE DelCAS(t)
      <4>1. /\ pc[t] = "delcas" /\ newNode'[t] = newNode[t]
            /\ \/ result'[t] = "yes" /\ pc'[t] = "ret"
               \/ result'[t] = result[t] /\ pc'[t] = "delread"
        BY <1>0, <3>1 DEF DelCAS, TypeOK
      <4>2. QED
        BY <1>0, <2>1, <4>1 DEF ThreadInv, AtKey, Is
    <3>2. CASE Revive(t)
      <4>1. /\ pc[t] = "revive"
            /\ \/ result'[t] = "yes" /\ pc'[t] = "ret" /\ newNode'[t] = at[t]
               \/ result'[t] = result[t] /\ pc'[t] = "val" /\ newNode'[t] = newNode[t]
        BY <1>0, <3>2 DEF Revive, TypeOK
      <4>2. QED
        BY <1>0, <2>1, <4>1 DEF ThreadInv
    <3>3. QED
      BY <1>2, <3>1, <3>2
  <2>5. \A u \in Thread \ {t} : pc[u] = "link" =>
          /\ newNode[u] \in Address /\ newNode[u] \notin linked /\ newNode[u] # NULL
    BY PendingApart DEF Address
  <2>6. QED
    BY <1>0, <2>1, <2>2, <2>3, <2>4, <2>5, HeapStep
<1>3. QED
  BY <1>1, <1>2

\* A successful CAS puts the new node between two neighbours.
LEMMA LinkStep ==
  ASSUME IInv, NEW t \in Thread, Link(t)
  PROVE  HeapInv' /\ (\A u \in Thread : ThreadInv(u)') /\ Private'
<1> DEFINE a == at[t]  n == newNode[t]  r == right[t]
<1>0. TypeOK /\ HeapInv /\ ThreadInv(t) /\ Pending(t) /\ OnlyThread(t) /\ a \in linked
  BY OneThread DEF IInv, Step, ThreadInv, Link
<1>1. /\ pc[t] = "link" /\ next[a] = r /\ linked' = linked \cup {n}
      /\ pc'[t] = IF r = NULL THEN "ret" ELSE "setprev"
      /\ result'[t] = "yes" /\ next' = [next EXCEPT ![a] = n]
      /\ UNCHANGED <<key, val, prev, call, at, seen, right, newNode, published>>
  BY <1>0 DEF Link, TypeOK
<1>2. /\ n \in Address /\ n \notin linked /\ n # Head /\ n # NULL
      /\ key[n] \in Key /\ val[n] = key[n] /\ prev[n] = a /\ next[n] = r
      /\ key[a] < key[n] /\ (r # NULL => r \in linked /\ key[n] < key[r])
  <2>1. n \in Node /\ call[t] \in Call
    BY <1>0, <1>1 DEF Pending, ThreadInv
  <2>2. QED
    BY <1>0, <1>1, <2>1, Keys, NodeAssumption DEF Pending, ThreadInv, Address
<1>3. /\ next'[a] = n /\ next'[n] = r
      /\ \A m \in Address \ {a} : next'[m] = next[m]
  BY <1>0, <1>1, <1>2, Keys DEF TypeOK
<1>4. \A m \in linked : key[m] # key[n]
  <2> SUFFICES ASSUME NEW m \in linked, key[m] = key[n] PROVE FALSE
    OBVIOUS
  <2>1. key[a] < key[m] /\ key[m] \in Nat
    BY <1>2, Keys
  <2>2. r # NULL /\ key[r] <= key[m]
    BY <1>0, <1>1, <2>1 DEF HeapInv, Sorted
  <2>3. QED
    BY <1>2, <2>1, <2>2, Keys
<1>5. Sorted'
  <2> SUFFICES ASSUME NEW x \in linked \cup {n}
               PROVE  /\ next'[x] # NULL => next'[x] \in linked \cup {n} /\ key[x] < key[next'[x]]
                      /\ \A b \in linked \cup {n} :
                           /\ key[x] = key[b] => x = b
                           /\ key[x] < key[b] => next'[x] # NULL /\ key[next'[x]] <= key[b]
    BY <1>1 DEF Sorted
  <2>0. /\ \A m \in linked \cup {n} : key[m] \in Nat
        /\ linked \subseteq Address
        /\ \A m \in linked : /\ next[m] # NULL => next[m] \in linked /\ key[m] < key[next[m]]
                             /\ \A b \in linked :
                                  /\ key[m] = key[b] => m = b
                                  /\ key[m] < key[b] => next[m] # NULL /\ key[next[m]] <= key[b]
    BY <1>0, <1>2, Keys DEF HeapInv, Sorted
  <2>1. CASE x = n
    <3>1. ASSUME NEW b \in linked, key[n] < key[b] PROVE r # NULL /\ key[r] <= key[b]
      <4>1. key[a] < key[b]
        BY <1>0, <1>2, <2>0, <3>1
      <4>2. QED
        BY <1>0, <1>1, <2>0, <4>1
    <3>2. QED
      BY <1>2, <1>3, <1>4, <2>0, <2>1, <3>1
  <2>2. CASE x = a
    <3>1. ASSUME NEW b \in linked, key[a] < key[b] PROVE key[n] <= key[b]
      <4>1. r # NULL /\ key[r] <= key[b] /\ r \in linked /\ key[n] < key[r]
        BY <1>0, <1>1, <1>2, <2>0, <3>1
      <4>2. QED
        BY <2>0, <4>1
    <3>2. QED
      BY <1>0, <1>2, <1>3, <1>4, <2>0, <2>2, <3>1
  <2>3. CASE x \in linked \ {a}
    <3>1. next'[x] = next[x]
      BY <1>3, <2>0, <2>3
    <3>2. ASSUME key[x] < key[n] PROVE next[x] # NULL /\ key[next[x]] <= key[n]
      <4>1. CASE key[x] < key[a]
        <5>1. next[x] # NULL /\ next[x] \in linked /\ key[next[x]] <= key[a]
          BY <1>0, <2>0, <2>3, <4>1
        <5>2. QED
          BY <1>0, <1>2, <2>0, <5>1
      <4>2. CASE key[a] < key[x]
        BY <1>0, <1>1, <1>2, <2>0, <2>3, <3>2, <4>2
      <4>3. CASE key[a] = key[x]
        BY <1>0, <2>0, <2>3, <4>3
      <4>4. QED
        BY <1>0, <2>0, <2>3, <4>1, <4>2, <4>3
    <3>3. QED
      BY <1>4, <2>0, <2>3, <3>1, <3>2
  <2>4. QED
    BY <2>1, <2>2, <2>3
<1>6. HeapInv'
  BY <1>0, <1>1, <1>2, <1>5 DEF HeapInv, PrevLeadsBack
<1>7. ThreadInv(t)'
  BY <1>0, <1>1, <1>2 DEF ThreadInv
<1>8. \A u \in Thread \ {t} : pc[u] = "link" =>
        /\ newNode[u] \in Address \ {a} /\ newNode[u] \notin linked \cup {n}
  BY <1>0, PendingApart DEF Address
<1>9. QED
  BY <1>0, <1>1, <1>3, <1>6, <1>7, <1>8, HeapStep

\* A failed CAS frees the new node.
LEMMA LinkFailsStep ==
  ASSUME IInv, NEW t \in Thread, LinkFails(t)
  PROVE  HeapInv' /\ (\A u \in Thread : ThreadInv(u)') /\ Private'
<1> DEFINE n == newNode[t]
<1>0. TypeOK /\ HeapInv /\ ThreadInv(t) /\ OnlyThread(t)
  BY OneThread DEF IInv, Step
<1>1. /\ pc[t] = "link" /\ pc'[t] = "val" /\ newNode'[t] = NULL
      /\ \A m \in Address \ {n} : /\ key'[m] = key[m] /\ val'[m] = val[m]
                                  /\ next'[m] = next[m] /\ prev'[m] = prev[m]
      /\ UNCHANGED <<linked, call, at, seen, right, result, published>>
  BY <1>0 DEF LinkFails, TypeOK
<1>2. \A m \in linked : m \in Address \ {n}
  BY <1>0, <1>1, PendingApart, Keys
<1>3. HeapInv'
  BY <1>0, <1>1, <1>2 DEF HeapInv, Sorted, PrevLeadsBack
<1>4. ThreadInv(t)'
  BY <1>0, <1>1, <1>2 DEF ThreadInv
<1>5. \A u \in Thread \ {t} : pc[u] = "link" =>
        newNode[u] \in Address \ {n} /\ newNode[u] \notin linked /\ newNode[u] # NULL
  BY PendingApart DEF Address
<1>6. QED
  BY <1>0, <1>1, <1>2, <1>3, <1>4, <1>5, HeapStep

\* next->prev = newNode leads to a lesser key, however late it comes.
LEMMA SetPrevStep ==
  ASSUME IInv, NEW t \in Thread, SetPrev(t)
  PROVE  HeapInv' /\ (\A u \in Thread : ThreadInv(u)') /\ Private'
<1>0. TypeOK /\ HeapInv /\ ThreadInv(t) /\ OnlyThread(t)
  BY OneThread DEF IInv, Step
<1>1. /\ pc[t] = "setprev" /\ pc'[t] = "ret"
      /\ prev' = [prev EXCEPT ![right[t]] = newNode[t]]
      /\ UNCHANGED <<key, val, next, linked, call, at, seen, right, newNode, result, published>>
  BY <1>0 DEF SetPrev, TypeOK, local
<1>2. /\ newNode[t] \in linked \ {Head} /\ right[t] \in linked
      /\ key[newNode[t]] < key[right[t]]
  BY <1>0, <1>1 DEF ThreadInv
<1>3. /\ prev'[right[t]] = newNode[t]
      /\ \A m \in Address \ {right[t]} : prev'[m] = prev[m]
  BY <1>0, <1>1, <1>2, Keys DEF TypeOK
<1>4. PrevLeadsBack'
  BY <1>0, <1>1, <1>2, <1>3, Keys DEF HeapInv, PrevLeadsBack
<1>5. HeapInv'
  <2>1. right[t] # Head /\ Head \in Address
    BY <1>0, <1>2, Keys DEF HeapInv
  <2>2. QED
    BY <1>0, <1>1, <1>3, <1>4, <2>1 DEF HeapInv, Sorted
<1>6. ThreadInv(t)'
  BY <1>0, <1>1, <1>2 DEF ThreadInv
<1>7. \A u \in Thread \ {t} : pc[u] = "link" =>
        newNode[u] \in Address \ {right[t]} /\ newNode[u] \notin linked
  BY <1>2, PendingApart DEF Address
<1>8. QED
  BY <1>0, <1>1, <1>2, <1>3, <1>5, <1>6, <1>7, HeapStep

\* The node of a successful insert is handed on.
LEMMA ReturnStep ==
  ASSUME IInv, NEW t \in Thread, Return(t)
  PROVE  HeapInv' /\ (\A u \in Thread : ThreadInv(u)') /\ Private'
<1>0. TypeOK /\ HeapInv /\ ThreadInv(t) /\ OnlyThread(t)
  BY OneThread DEF IInv, Step
<1>1. /\ pc[t] = "ret" /\ pc'[t] = "idle" /\ call'[t] = NoCall /\ at'[t] = Head
      /\ right'[t] = NULL /\ newNode'[t] = NULL /\ result'[t] = "none"
      /\ published'[t] = published[t] \cup ({newNode[t]} \ {NULL})
      /\ UNCHANGED heap
  BY <1>0 DEF Return, TypeOK
<1>2. ThreadInv(t)'
  BY <1>0, <1>1 DEF ThreadInv, HeapInv, heap
<1>3. QED
  BY <1>0, <1>1, <1>2, LocalStep

\* Every step keeps the invariant.
LEMMA InvStep == IInv /\ [Next]_vars => IInv'
<1> SUFFICES ASSUME IInv, [Next]_vars PROVE HeapInv' /\ (\A u \in Thread : ThreadInv(u)') /\ Private'
  BY TypeStep DEF IInv
<1>1. ASSUME NEW t \in Thread, Start(t) \/ Step(t)
      PROVE  HeapInv' /\ (\A u \in Thread : ThreadInv(u)') /\ Private'
  BY <1>1, SearchStep, AllocateStep, ValueStep, LinkStep, LinkFailsStep, SetPrevStep, ReturnStep
     DEF Step
<1>2. CASE UNCHANGED vars
  <2>1. HeapInv' /\ Private'
    BY <1>2 DEF vars, heap, local, IInv, HeapInv, Sorted, PrevLeadsBack, Private
  <2>2. ASSUME NEW u \in Thread PROVE ThreadInv(u)'
    BY <1>2 DEF vars, heap, local, IInv, ThreadInv, Pending, Is, AtKey
  <2>3. QED
    BY <2>1, <2>2
<1>3. QED
  BY <1>1, <1>2 DEF Next

-----------------------------------------------------------------------------
(* The refinement of KeySet                                                *)

AllAnswers == [u \in Thread |-> EffectiveAnswer(u)]

\* One node decides for its key whether it is a member.
LEMMA Membership ==
  ASSUME IInv, NEW n \in linked \ {Head}
  PROVE  key[n] \in Members <=> val[n] # NULL
<1>1. \A m \in linked : key[m] = key[n] => m = n
  BY DEF IInv, HeapInv, Sorted
<1>2. QED
  BY <1>1 DEF Members

\* A search that has stopped before a greater key has seen that its key is in
\* no node of the list.
LEMMA Absence ==
  ASSUME IInv, NEW t \in Thread, at[t] \in linked, call[t] \in Call,
         key[at[t]] <= call[t].key, ~AtKey(t), Beyond(t)
  PROVE  call[t].key \notin Members
<1> DEFINE a == at[t]  k == call[t].key
<1> SUFFICES ASSUME NEW n \in linked, key[n] = k PROVE FALSE
  BY DEF Members
<1>1. k \in Nat /\ key[a] \in Nat /\ key[a] < k
  BY Keys DEF AtKey
<1>2. next[a] # NULL /\ key[next[a]] <= k /\ next[a] \in linked
  BY <1>1 DEF IInv, HeapInv, Sorted
<1>3. QED
  BY <1>1, <1>2, Keys DEF Beyond

\* The members change only with the values of linked nodes and with the list.
LEMMA MembersSame ==
  ASSUME IInv, linked' = linked,
         \A n \in linked : key'[n] = key[n] /\ val'[n] = val[n]
  PROVE  Members' = Members
  BY DEF Members

\* The answers of the threads that take no step stay as they are.
LEMMA AnswersStep ==
  ASSUME IInv, NEW t \in Thread, OnlyThread(t), \A n \in linked : key'[n] = key[n]
  PROVE  AllAnswers' = [AllAnswers EXCEPT ![t] = EffectiveAnswer(t)']
<1>1. ASSUME NEW u \in Thread \ {t} PROVE EffectiveAnswer(u)' = EffectiveAnswer(u)
  BY <1>1 DEF OnlyThread, EffectiveAnswer, DecidedByValue, AtKey, Is, IInv, ThreadInv
<1>2. QED
  BY <1>1 DEF AllAnswers

LEMMA Stutters ==
  ASSUME IInv, NEW t \in Thread, OnlyThread(t), \A n \in linked : key'[n] = key[n],
         Members' = Members, call' = call, EffectiveAnswer(t)' = EffectiveAnswer(t)
  PROVE  UNCHANGED <<Members, call, AllAnswers>>
<1>1. AllAnswers' = [AllAnswers EXCEPT ![t] = EffectiveAnswer(t)]
  BY AnswersStep
<1>2. QED
  BY <1>1 DEF AllAnswers

\* A step that answers for t as KeySet does, with the change of the set.
LEMMA TakesEffect ==
  ASSUME IInv, NEW t \in Thread, OnlyThread(t), \A n \in linked : key'[n] = key[n],
         call' = call, call[t] # NoCall, EffectiveAnswer(t) = "none",
         EffectiveAnswer(t)' = IF Abstract!Succeeds(call[t]) THEN "yes" ELSE "no",
         Members' = Abstract!After(call[t])
  PROVE  Abstract!TakeEffect(t)
<1>1. AllAnswers' = [AllAnswers EXCEPT ![t] = EffectiveAnswer(t)'] /\ AllAnswers[t] = "none"
  BY AnswersStep DEF AllAnswers
<1>2. QED
  BY <1>1 DEF Abstract!TakeEffect, AllAnswers

AbstractStep == Abstract!Next \/ UNCHANGED <<Members, call, AllAnswers>>

\* The search: a value read from the node with the key is the effect of the
\* operation, and so is an end of the search beyond the key.
LEMMA SearchSimulates ==
  ASSUME IInv, NEW t \in Thread,
         Start(t) \/ ReadVal(t) \/ Advance(t) \/ Answer(t) \/ Found(t) \/ Allocate(t)
  PROVE  AbstractStep
<1>0. TypeOK /\ HeapInv /\ ThreadInv(t) /\ OnlyThread(t) /\ at[t] \in linked
  BY OneThread DEF IInv, Step, ThreadInv
<1>1. /\ \A n \in linked : key'[n] = key[n] /\ val'[n] = val[n]
      /\ linked' = linked
  <2>1. CASE Allocate(t)
    <3>1. PICK n \in Node \ Allocated : /\ key' = [key EXCEPT ![n] = call[t].key]
                                        /\ val' = [val EXCEPT ![n] = call[t].key]
      BY <2>1 DEF Allocate
    <3>2. n \notin linked
      BY <3>1 DEF Allocated
    <3>3. QED
      BY <1>0, <2>1, <3>1, <3>2 DEF Allocate, TypeOK
  <2>2. QED
    BY <2>1 DEF Start, ReadVal, Advance, Answer, Found, heap
<1>2. Members' = Members
  BY <1>1, MembersSame
<1>3. CASE Start(t)
  <2>1. PICK c \in Call : call' = [call EXCEPT ![t] = c]
    BY <1>3 DEF Start
  <2>2. pc[t] = "idle" /\ pc'[t] = "val" /\ UNCHANGED result
    BY <1>0, <1>3 DEF Start, TypeOK
  <2>3. EffectiveAnswer(t)' = EffectiveAnswer(t)
    BY <2>2 DEF EffectiveAnswer, DecidedByValue
  <2>4. AllAnswers' = [AllAnswers EXCEPT ![t] = EffectiveAnswer(t)]
    BY <1>0, <1>1, <2>3, AnswersStep
  <2>5. AllAnswers' = AllAnswers
    BY <2>4 DEF AllAnswers
  <2>6. call[t] = NoCall
    BY <1>0, <2>2 DEF ThreadInv
  <2>7. Abstract!Invoke(t)
    BY <1>2, <2>1, <2>5, <2>6
       DEF Abstract!Invoke, Abstract!Call, Abstract!Optype, Call, Optype, AllAnswers
  <2>8. QED
    BY <2>7 DEF AbstractStep, Abstract!Next
<1>4. CASE ReadVal(t)
  <2>1. /\ pc[t] = "val" /\ pc'[t] = "next" /\ seen'[t] = val[at[t]]
        /\ UNCHANGED <<heap, call, at, result>>
    BY <1>0, <1>4 DEF ReadVal, TypeOK
  <2>2. EffectiveAnswer(t) = "none" /\ call[t] \in Call /\ call[t] # NoCall /\ result[t] = "none"
    BY <1>0, <2>1, Keys DEF EffectiveAnswer, DecidedByValue, ThreadInv
  <2>3. CASE DecidedByValue(t)'
    <3>1. AtKey(t)
      BY <2>1, <2>3 DEF DecidedByValue, AtKey, heap
    <3>2. at[t] # Head
      BY <1>0, <2>2, <3>1, Keys DEF AtKey
    <3>3. call[t].key \in Members <=> val[at[t]] # NULL
      BY <1>0, <3>1, <3>2, Membership DEF AtKey
    <3>4. EffectiveAnswer(t)' = IF Abstract!Succeeds(call[t]) THEN "yes" ELSE "no"
      BY <2>1, <2>3, <3>3 DEF EffectiveAnswer, DecidedByValue, Is, Abstract!Succeeds
    <3>5. Members' = Abstract!After(call[t])
      <4>1. \/ call[t].op = "CONTAINS"
            \/ call[t].op = "DELETE" /\ call[t].key \notin Members
            \/ call[t].op = "INSERT" /\ call[t].key \in Members
        BY <2>1, <2>3, <3>3 DEF DecidedByValue, Is
      <4>2. QED
        BY <1>2, <4>1 DEF Abstract!After
    <3>6. QED
      BY <1>0, <1>1, <2>1, <2>2, <3>4, <3>5, TakesEffect DEF AbstractStep, Abstract!Next
  <2>4. CASE ~DecidedByValue(t)'
    <3>1. EffectiveAnswer(t)' = EffectiveAnswer(t)
      BY <2>1, <2>2, <2>4 DEF EffectiveAnswer
    <3>2. QED
      BY <1>0, <1>1, <1>2, <2>1, <3>1, Stutters DEF AbstractStep
  <2>5. QED
    BY <2>3, <2>4
<1>5. CASE Advance(t)
  <2>1. /\ pc[t] = "next" /\ pc'[t] = "val" /\ next[at[t]] # NULL
        /\ ~(key[next[at[t]]] > call[t].key)
        /\ UNCHANGED <<call, result>>
    BY <1>0, <1>5 DEF Advance, Beyond, TypeOK
  <2>2. ~AtKey(t)
    <3>1. next[at[t]] \in linked /\ key[at[t]] < key[next[at[t]]]
      BY <1>0, <2>1 DEF HeapInv, Sorted
    <3>2. QED
      BY <1>0, <2>1, <3>1, Keys DEF AtKey
  <2>3. EffectiveAnswer(t)' = EffectiveAnswer(t)
    BY <2>1, <2>2 DEF EffectiveAnswer, DecidedByValue
  <2>4. QED
    BY <1>0, <1>1, <1>2, <2>1, <2>3, Stutters DEF AbstractStep
<1>6. CASE Answer(t)
  <2>1. /\ pc[t] = "next" /\ pc'[t] = "ret" /\ Beyond(t) /\ Answers(t)
        /\ result'[t] = IF Is(t, "CONTAINS") /\ AtKey(t) /\ seen[t] # NULL THEN "yes" ELSE "no"
        /\ UNCHANGED <<heap, call, at, seen>>
    BY <1>0, <1>6 DEF Answer, TypeOK
  <2>2. call[t] \in Call /\ call[t] # NoCall /\ result[t] = "none" /\ key[at[t]] <= call[t].key
    BY <1>0, <2>1, Keys DEF ThreadInv
  <2>3. EffectiveAnswer(t)' = result'[t]
    BY <2>1 DEF EffectiveAnswer, DecidedByValue
  <2>4. CASE DecidedByValue(t)
    <3>1. EffectiveAnswer(t)' = EffectiveAnswer(t)
      BY <2>1, <2>3, <2>4 DEF EffectiveAnswer, DecidedByValue
    <3>2. QED
      BY <1>0, <1>1, <1>2, <2>1, <3>1, Stutters DEF AbstractStep
  <2>5. CASE ~DecidedByValue(t)
    <3>1. ~AtKey(t) /\ (Is(t, "CONTAINS") \/ Is(t, "DELETE"))
      BY <2>1, <2>5 DEF DecidedByValue, Answers
    <3>2. call[t].key \notin Members
      BY <1>0, <2>1, <2>2, <3>1, Absence
    <3>3. EffectiveAnswer(t) = "none" /\ EffectiveAnswer(t)' = "no"
      BY <2>1, <2>2, <2>3, <2>5, <3>1 DEF EffectiveAnswer
    <3>4. ~Abstract!Succeeds(call[t])
      BY <3>1, <3>2 DEF Abstract!Succeeds, Is
    <3>5. Members' = Abstract!After(call[t])
      BY <1>2, <3>1, <3>2 DEF Abstract!After, Is
    <3>6. QED
      BY <1>0, <1>1, <2>1, <2>2, <3>3, <3>4, <3>5, TakesEffect DEF AbstractStep, Abstract!Next
  <2>6. QED
    BY <2>4, <2>5
<1>7. CASE Found(t) \/ Allocate(t)
  <2>1. /\ pc[t] = "next" /\ pc'[t] \in {"delread", "delcas", "revive", "link"} /\ ~Answers(t)
        /\ UNCHANGED <<call, result>>
    BY <1>0, <1>7 DEF Found, Allocate, TypeOK
  <2>2. EffectiveAnswer(t)' = EffectiveAnswer(t)
    BY <2>1 DEF EffectiveAnswer, DecidedByValue, Answers
  <2>3. QED
    BY <1>0, <1>1, <1>2, <2>1, <2>2, Stutters DEF AbstractStep
<1>8. QED
  BY <1>3, <1>4, <1>5, <1>6, <1>7

\* sl_finish_delete and the revival: the CAS, or a value found to be NULL.
LEMMA ValueSimulates ==
  ASSUME IInv, NEW t \in Thread, DelRead(t) \/ DelCAS(t) \/ Revive(t)
  PROVE  AbstractStep
<1>0. /\ TypeOK /\ HeapInv /\ ThreadInv(t) /\ OnlyThread(t) /\ at[t] \in linked
      /\ pc[t] \in {"delread", "delcas", "revive"}
  BY OneThread DEF IInv, Step, ThreadInv, DelRead, DelCAS, Revive
<1>1. call[t] \in Call /\ call[t] # NoCall /\ AtKey(t) /\ result[t] = "none"
  BY <1>0, Keys DEF ThreadInv
<1>2. at[t] # Head /\ call[t].key \in Key /\ call[t].key # NULL /\ key[at[t]] = call[t].key
  BY <1>0, <1>1, Keys DEF AtKey
<1>3. call[t].key \in Members <=> val[at[t]] # NULL
  BY <1>0, <1>2, Membership
<1>4. /\ pc'[t] # "next" /\ UNCHANGED <<key, linked, call, at>>
      /\ \A n \in linked \ {at[t]} : val'[n] = val[n]
  BY <1>0 DEF DelRead, DelCAS, Revive, TypeOK, heap
<1>5. EffectiveAnswer(t) = "none" /\ EffectiveAnswer(t)' = result'[t]
  BY <1>0, <1>1, <1>4 DEF EffectiveAnswer, DecidedByValue
<1>6. \A n \in linked : key[n] = call[t].key => n = at[t]
  BY <1>0, <1>2 DEF HeapInv, Sorted
<1>7. CASE val'[at[t]] = val[at[t]] /\ result'[t] = result[t]
  <2>1. Members' = Members
    BY <1>4, <1>7, MembersSame
  <2>2. QED
    BY <1>0, <1>1, <1>4, <1>5, <1>7, <2>1, Stutters DEF AbstractStep
<1>8. CASE DelRead(t) /\ val[at[t]] = NULL
  <2>1. result'[t] = "no" /\ val' = val /\ Is(t, "DELETE")
    BY <1>0, <1>8 DEF DelRead, TypeOK, ThreadInv, heap
  <2>2. Members' = Members
    BY <1>4, <2>1, MembersSame
  <2>3. ~Abstract!Succeeds(call[t]) /\ Members' = Abstract!After(call[t])
    BY <1>3, <1>8, <2>1, <2>2 DEF Abstract!Succeeds, Abstract!After, Is
  <2>4. QED
    BY <1>0, <1>1, <1>4, <1>5, <2>1, <2>3, TakesEffect DEF AbstractStep, Abstract!Next
<1>9. CASE DelCAS(t) /\ val[at[t]] = seen[t]
  <2>1. /\ result'[t] = "yes" /\ val'[at[t]] = NULL /\ Is(t, "DELETE")
        /\ val[at[t]] # NULL
    BY <1>0, <1>2, <1>9 DEF DelCAS, TypeOK, ThreadInv
  <2>2. Members' = Members \ {call[t].key}
    BY <1>2, <1>4, <1>6, <2>1 DEF Members
  <2>3. Abstract!Succeeds(call[t]) /\ Members' = Abstract!After(call[t])
    BY <1>3, <2>1, <2>2 DEF Abstract!Succeeds, Abstract!After, Is
  <2>4. QED
    BY <1>0, <1>1, <1>4, <1>5, <2>1, <2>3, TakesEffect DEF AbstractStep, Abstract!Next
<1>10. CASE Revive(t) /\ val[at[t]] = NULL
  <2>1. result'[t] = "yes" /\ val'[at[t]] = call[t].key /\ Is(t, "INSERT")
    BY <1>0, <1>10 DEF Revive, TypeOK, ThreadInv
  <2>2. Members' = Members \cup {call[t].key}
    BY <1>0, <1>2, <1>4, <1>6, <2>1 DEF Members
  <2>3. Abstract!Succeeds(call[t]) /\ Members' = Abstract!After(call[t])
    BY <1>3, <1>10, <2>1, <2>2 DEF Abstract!Succeeds, Abstract!After, Is
  <2>4. QED
    BY <1>0, <1>1, <1>4, <1>5, <2>1, <2>3, TakesEffect DEF AbstractStep, Abstract!Next
<1>11. QED
  BY <1>7, <1>8, <1>9, <1>10 DEF DelRead, DelCAS, Revive, heap

\* The CAS that links a node adds a key that no node had.
LEMMA LinkSimulates ==
  ASSUME IInv, NEW t \in Thread, Link(t)
  PROVE  AbstractStep
<1> DEFINE n == newNode[t]
<1>0. TypeOK /\ HeapInv /\ ThreadInv(t) /\ Pending(t) /\ OnlyThread(t) /\ at[t] \in linked
  BY OneThread DEF IInv, Step, ThreadInv, Link
<1>1. /\ pc[t] = "link" /\ next[at[t]] = right[t] /\ linked' = linked \cup {n}
      /\ pc'[t] \in {"ret", "setprev"} /\ result'[t] = "yes"
      /\ UNCHANGED <<key, val, call, at>>
  BY <1>0 DEF Link, TypeOK
<1>2. /\ call[t] \in Call /\ call[t] # NoCall /\ result[t] = "none" /\ Is(t, "INSERT")
      /\ key[n] = call[t].key /\ val[n] = call[t].key /\ call[t].key # NULL
  BY <1>0, <1>1, Keys DEF ThreadInv, Pending
<1>3. EffectiveAnswer(t) = "none" /\ EffectiveAnswer(t)' = "yes"
  BY <1>1, <1>2 DEF EffectiveAnswer, DecidedByValue
<1>4. call[t].key \notin Members
  <2>1. key[at[t]] < call[t].key /\ (right[t] # NULL => call[t].key < key[right[t]])
    BY <1>0 DEF Pending
  <2>2. /\ key[at[t]] \in Nat /\ call[t].key \in Nat
        /\ right[t] # NULL => key[right[t]] \in Nat
    BY <1>0, <1>2, Keys DEF ThreadInv
  <2>3. ~AtKey(t) /\ Beyond(t) /\ key[at[t]] <= call[t].key
    BY <1>1, <2>1, <2>2 DEF AtKey, Beyond
  <2>4. QED
    BY <1>0, <1>2, <2>3, Absence
<1>5. Members' = Members \cup {call[t].key}
  BY <1>1, <1>2 DEF Members
<1>6. Abstract!Succeeds(call[t]) /\ Members' = Abstract!After(call[t])
  BY <1>2, <1>4, <1>5 DEF Abstract!Succeeds, Abstract!After, Is
<1>7. QED
  BY <1>0, <1>1, <1>2, <1>3, <1>6, TakesEffect DEF AbstractStep, Abstract!Next

\* The steps after a CAS change neither the set nor an answer.
LEMMA AfterCASSimulates ==
  ASSUME IInv, NEW t \in Thread, LinkFails(t) \/ SetPrev(t) \/ Return(t)
  PROVE  AbstractStep
<1>0. TypeOK /\ HeapInv /\ ThreadInv(t) /\ OnlyThread(t)
  BY OneThread DEF IInv, Step
<1>1. CASE LinkFails(t) \/ SetPrev(t)
  <2>1. /\ pc[t] \in {"link", "setprev"} /\ pc'[t] # "next"
        /\ UNCHANGED <<linked, call, result>>
    BY <1>0, <1>1 DEF LinkFails, SetPrev, TypeOK, local
  <2>2. \A m \in linked : key'[m] = key[m] /\ val'[m] = val[m]
    <3>1. CASE LinkFails(t)
      <4>1. newNode[t] \notin linked
        BY <3>1, PendingApart DEF LinkFails
      <4>2. QED
        BY <1>0, <3>1, <4>1 DEF LinkFails, TypeOK
    <3>2. CASE SetPrev(t)
      BY <3>2 DEF SetPrev
    <3>3. QED
      BY <1>1, <3>1, <3>2
  <2>3. Members' = Members
    BY <2>1, <2>2, MembersSame
  <2>4. EffectiveAnswer(t)' = EffectiveAnswer(t)
    BY <2>1 DEF EffectiveAnswer, DecidedByValue
  <2>5. QED
    BY <1>0, <2>1, <2>2, <2>3, <2>4, Stutters DEF AbstractStep
<1>2. CASE Return(t)
  <2>1. /\ pc[t] = "ret" /\ pc'[t] = "idle" /\ result'[t] = "none" /\ result[t] # "none"
        /\ call' = [call EXCEPT ![t] = NoCall] /\ UNCHANGED heap
    BY <1>0, <1>2 DEF Return, TypeOK, ThreadInv
  <2>2. Members' = Members
    BY <2>1, MembersSame DEF heap
  <2>3. EffectiveAnswer(t)' = "none" /\ EffectiveAnswer(t) # "none"
    BY <2>1 DEF EffectiveAnswer, DecidedByValue
  <2>4. AllAnswers' = [AllAnswers EXCEPT ![t] = "none"]
    BY <1>0, <2>1, <2>3, AnswersStep DEF heap
  <2>5. Abstract!Return(t)
    BY <2>1, <2>2, <2>3, <2>4 DEF Abstract!Return, AllAnswers
  <2>6. QED
    BY <2>5 DEF AbstractStep, Abstract!Next
<1>3. QED
  BY <1>1, <1>2

-----------------------------------------------------------------------------
(* The theorems                                                            *)

\* Every reachable state satisfies the inductive invariant.
THEOREM Invariance == Spec => []IInv
BY InitInv, InvStep, PTL DEF Spec

\* The variables of the data layer keep their types.
THEOREM TypeCorrect == Spec => []TypeOK
<1>1. IInv => TypeOK
  BY DEF IInv
<1>2. QED
  BY Invariance, <1>1, PTL

\* The list of sl_traverse_data is sorted, with each key once, in every
\* interleaving of any number of threads.
THEOREM AlwaysSorted == Spec => []Sorted
<1>1. IInv => Sorted
  BY DEF IInv, HeapInv
<1>2. QED
  BY Invariance, <1>1, PTL

\* The racing stores to next->prev leave pointers to lesser keys only.
THEOREM PrevAlwaysLeadsBack == Spec => []PrevLeadsBack
<1>1. IInv => PrevLeadsBack
  BY DEF IInv, HeapInv
<1>2. QED
  BY Invariance, <1>1, PTL

\* No thread, no node and no helper holds the address of a freed node.
THEOREM NeverDangling == Spec => []NoDangling
<1>1. IInv => NoDangling
  <2> SUFFICES ASSUME IInv PROVE NoDangling
    OBVIOUS
  <2>1. ASSUME NEW t \in Thread
        PROVE  ({at[t], right[t]} \cup published[t]) \ {NULL} \subseteq linked
    BY DEF IInv, ThreadInv
  <2>2. ASSUME NEW n \in linked PROVE {next[n], prev[n]} \ {NULL} \subseteq linked
    <3>1. CASE n = Head
      BY <3>1 DEF IInv, HeapInv, Sorted
    <3>2. CASE n # Head
      BY <3>2 DEF IInv, HeapInv, Sorted, PrevLeadsBack
    <3>3. QED
      BY <3>1, <3>2
  <2>3. ASSUME NEW t \in Thread, NEW u \in Thread, pc[t] = "link"
        PROVE  newNode[t] \notin linked /\ (newNode[u] = newNode[t] => t = u)
    BY <2>3, PendingApart
  <2>4. QED
    BY <2>1, <2>2, <2>3 DEF NoDangling
<1>2. QED
  BY Invariance, <1>1, PTL

\* Every operation takes effect at one instant between its call and its return:
\* the data layer implements KeySet for any threads, keys and nodes.
THEOREM AlwaysLinearizable == Spec => Linearizable
<1>1. Init => Abstract!Init
  <2> SUFFICES ASSUME Init PROVE Abstract!Init
    OBVIOUS
  <2>1. Members = {}
    BY DEF Init, Members, Address
  <2>2. \A t \in Thread : EffectiveAnswer(t) = "none"
    BY DEF Init, EffectiveAnswer, DecidedByValue
  <2>3. QED
    BY <2>1, <2>2 DEF Init, Abstract!Init
<1>2. IInv /\ [Next]_vars => AbstractStep
  <2> SUFFICES ASSUME IInv, [Next]_vars PROVE AbstractStep
    OBVIOUS
  <2>1. ASSUME NEW t \in Thread, Start(t) \/ Step(t) PROVE AbstractStep
    BY <2>1, SearchSimulates, ValueSimulates, LinkSimulates, AfterCASSimulates DEF Step
  <2>2. CASE UNCHANGED vars
    BY <2>2 DEF AbstractStep, vars, heap, local, Members, AllAnswers, EffectiveAnswer,
                DecidedByValue, AtKey, Is
  <2>3. QED
    BY <2>1, <2>2 DEF Next
<1>3. AbstractStep => [Abstract!Next]_<<Members, call, [t \in Thread |-> EffectiveAnswer(t)]>>
  BY DEF AbstractStep, AllAnswers
<1>4. QED
  BY Invariance, <1>1, <1>2, <1>3, PTL DEF Spec, Linearizable, Abstract!Spec
=============================================================================
