--------------------------- MODULE OpBufferProof ---------------------------
(***************************************************************************)
(* Proofs about OpBuffer for every buffer size, key set and node set.      *)
(*                                                                         *)
(* The inductive invariant rests on one observation: opbuffer_remove       *)
(* starts only when app_idx is at least three slots ahead of hlp_idx       *)
(* WITHOUT wrapping, so hlp_idx never passes buf_size - 3 and no removal   *)
(* starts once app_idx has wrapped.  All index arithmetic is then linear   *)
(* in the lengths of the two histories.                                    *)
(***************************************************************************)
EXTENDS OpBuffer, SequenceTheorems, TLAPS

Published == Len(inserted)
Received  == Len(removed)
Fields    == {"key", "node"}

\* Operation number i (from 0) is in the array, wholly stored.
Stored(i) == i < Published /\ ~(i = Published - 1 /\ storing # {} /\ "idx" \notin storing)

\* Where the two indices stand relative to the histories.
IndexInv ==
  /\ Received <= BufSize - 3
  /\ hlp_idx = IF loading # {} /\ "idx" \notin loading THEN Received + 1 ELSE Received
  /\ loading # {} => /\ hlp_at = Received
                     /\ Received + 3 <= Published
                     /\ Received < BufSize - 3
  /\ hlp_idx = 0 \/ hlp_idx + 2 <= Published
  /\ app_idx = IF Published < BufSize THEN Published ELSE Published - BufSize
  /\ Published >= BufSize => Published - BufSize < hlp_idx
  /\ "idx" \in storing => app_at = app_idx /\ ~Full
  /\ storing # {} /\ "idx" \notin storing =>
       /\ Published > 0
       /\ app_at = IF Published <= BufSize THEN Published - 1 ELSE Published - BufSize - 1

\* What the slots and the copies under way hold.
DataInv ==
  /\ calling \/ storing # {} => newop \in Op
  /\ ~(calling /\ storing # {})
  /\ \A f \in Fields : storing # {} /\ f \notin storing => opbuffer[app_at][f] = newop[f]
  /\ storing # {} /\ "idx" \notin storing => inserted[Published] = newop
  /\ \A i \in Slots : Received <= i /\ Stored(i) => opbuffer[i] = inserted[i + 1]
  /\ \A f \in Fields : loading # {} /\ f \notin loading => job[f] = inserted[Received + 1][f]
  /\ \A i \in 1 .. Received : removed[i] = inserted[i]

IInv == TypeOK /\ IndexInv /\ DataInv

-----------------------------------------------------------------------------
\* The modulus of the index arithmetic, unfolded.
LEMMA NextIdxValue ==
  \A i \in Slots : /\ NextIdx(i) = IF i = BufSize - 1 THEN 0 ELSE i + 1
                   /\ NextIdx(i) \in Slots
  BY BufSizeAssumption DEF Slots, NextIdx

LEMMA NoOpType == NoOp \in [key : Key \cup {0}, node : Node \cup {NULL}]
  BY DEF NoOp

LEMMA InitInv == Init => IInv
<1> SUFFICES ASSUME Init PROVE IInv
  OBVIOUS
<1>0. inserted = << >> /\ removed = << >> /\ Len(inserted) = 0 /\ Len(removed) = 0
  BY DEF Init
<1>1. TypeOK
  BY <1>0, NoOpType, BufSizeAssumption DEF Init, TypeOK, Slots
<1>2. IndexInv
  BY <1>0, BufSizeAssumption DEF Init, IndexInv, Published, Received
<1>3. DataInv
  BY <1>0 DEF Init, DataInv, Published, Received, Stored, Fields
<1>4. QED
  BY <1>1, <1>2, <1>3 DEF IInv

\* The accesses of opbuffer_remove collect the fields of the oldest waiting
\* operation, in whatever order they are made.
LEMMA Delivery ==
  ASSUME IInv, NEW f \in Access, LoadField(f) \/ (f = "idx" /\ AdvanceIdx)
  PROVE  /\ job' \in [key : Key \cup {0}, node : Node \cup {NULL}]
         /\ \A g \in Fields : g \notin loading' => job'[g] = inserted[Received + 1][g]
         /\ loading # {} /\ loading' = loading \ {f}
         /\ loading' = {} => job' = inserted[Received + 1] /\ job' \in Op
<1> USE DEF IInv
<1>1. loading # {} /\ loading' = loading \ {f}
  BY DEF LoadField, AdvanceIdx, Loaded
<1>2. /\ hlp_at = Received /\ Received \in Nat /\ Published \in Nat
      /\ Received + 3 <= Published /\ Received \in Slots
  BY <1>1, LenProperties, BufSizeAssumption DEF IndexInv, TypeOK, Received, Published, Slots
<1>3. opbuffer[Received] = inserted[Received + 1] /\ inserted[Received + 1] \in Op
  <2>1. Stored(Received)
    BY <1>2 DEF Stored
  <2>2. Received + 1 \in 1 .. Len(inserted)
    BY <1>2 DEF Published
  <2>3. inserted[Received + 1] \in Op
    BY <2>2, ElementOfSeq DEF TypeOK
  <2>4. QED
    BY <2>1, <2>3, <1>2 DEF DataInv
<1>4. job' \in [key : Key \cup {0}, node : Node \cup {NULL}]
  <2>1. CASE LoadField(f)
    <3>1. f \in Fields /\ hlp_at \in Slots
      BY <2>1 DEF LoadField, Access, Fields, TypeOK
    <3>2. QED
      BY <2>1, <3>1 DEF LoadField, TypeOK, Fields
  <2>2. CASE AdvanceIdx
    BY <2>2 DEF AdvanceIdx, TypeOK
  <2>3. QED
    BY <2>1, <2>2
<1>5. ASSUME NEW g \in Fields, g \notin loading' PROVE job'[g] = inserted[Received + 1][g]
  <2>1. CASE LoadField(f)
    <3>1. CASE g = f
      BY <2>1, <3>1, <1>2, <1>3 DEF LoadField, TypeOK, Fields
    <3>2. CASE g # f
      BY <2>1, <3>2, <1>1, <1>5 DEF LoadField, TypeOK, DataInv, Fields
    <3>3. QED
      BY <3>1, <3>2
  <2>2. CASE f = "idx" /\ AdvanceIdx
    BY <2>2, <1>1, <1>5 DEF AdvanceIdx, DataInv, Fields
  <2>3. QED
    BY <2>1, <2>2
<1>6. ASSUME loading' = {} PROVE job' = inserted[Received + 1]
  <2>1. job'["key"] = inserted[Received + 1]["key"] /\ job'["node"] = inserted[Received + 1]["node"]
    BY <1>5, <1>6 DEF Fields
  <2>2. QED
    BY <2>1, <1>3, <1>4 DEF Op
<1>7. QED
  BY <1>1, <1>3, <1>4, <1>5, <1>6

LEMMA TypeStep == IInv /\ [Next]_vars => TypeOK'
<1> SUFFICES ASSUME TypeOK, DataInv, IInv, [Next]_vars PROVE TypeOK'
  BY DEF IInv
<1> USE DEF TypeOK, appVars, hlpVars
<1>1. ASSUME NEW op \in Op, CallInsert(op) PROVE TypeOK'
  BY <1>1 DEF CallInsert
<1>2. CASE Accept
  BY <1>2 DEF Accept
<1>3. CASE RefuseAndExit
  BY <1>3 DEF RefuseAndExit
<1>4. ASSUME NEW f \in Access, StoreField(f) PROVE TypeOK'
  <2>1. newop \in Op /\ f \in Fields /\ app_at \in Slots
    BY <1>4 DEF StoreField, DataInv, Access, Fields
  <2>2. opbuffer' \in [Slots -> [key : Key \cup {0}, node : Node \cup {NULL}]]
    BY <1>4, <2>1 DEF StoreField, Op, Fields
  <2>3. QED
    BY <1>4, <2>2 DEF StoreField
<1>5. CASE StoreIdx
  BY <1>5, NextIdxValue DEF StoreIdx, DataInv
<1>6. CASE StartApplication
  BY <1>6 DEF StartApplication
<1>7. CASE CallRemove
  BY <1>7 DEF CallRemove
<1>8. ASSUME NEW f \in Access, LoadField(f) PROVE TypeOK'
  <2>1. /\ job' \in [key : Key \cup {0}, node : Node \cup {NULL}]
        /\ loading' = {} => job' \in Op
    BY ONLY <1>8, IInv, Delivery
  <2>2. removed' \in Seq(Op)
    BY <1>8, <2>1 DEF LoadField, Loaded
  <2>3. QED
    BY <1>8, <2>1, <2>2 DEF LoadField, Loaded
<1>9. CASE AdvanceIdx
  <2>1. "idx" \in Access /\ hlp_at \in Slots
    BY DEF Access
  <2>2. /\ job' \in [key : Key \cup {0}, node : Node \cup {NULL}]
        /\ loading' = {} => job' \in Op
    BY ONLY <1>9, <2>1, IInv, Delivery
  <2>3. removed' \in Seq(Op)
    BY <1>9, <2>2 DEF AdvanceIdx, Loaded
  <2>4. QED
    BY <1>9, <2>1, <2>2, <2>3, NextIdxValue DEF AdvanceIdx, Loaded
<1>10. CASE UNCHANGED vars
  BY <1>10 DEF vars
<1>11. QED
  BY <1>1, <1>2, <1>3, <1>4, <1>5, <1>6, <1>7, <1>8, <1>9, <1>10 DEF Next, Store, Drain

LEMMA IndexStep == IInv /\ [Next]_vars => IndexInv'
<1> SUFFICES ASSUME IInv, [Next]_vars PROVE IndexInv'
  OBVIOUS
<1> USE BufSizeAssumption DEF IInv, appVars, hlpVars
<1>0. /\ Published \in Nat /\ Received \in Nat
      /\ app_idx \in Slots /\ hlp_idx \in Slots /\ app_at \in Slots /\ hlp_at \in Slots
  BY LenProperties DEF TypeOK, Published, Received
<1>1. ASSUME NEW op \in Op, CallInsert(op) PROVE IndexInv'
  BY <1>1 DEF CallInsert, IndexInv, Full, Published, Received
<1>2. CASE Accept
  BY <1>2 DEF Accept, IndexInv, Full, DataInv, Access, Published, Received
<1>3. CASE RefuseAndExit
  BY <1>3 DEF RefuseAndExit, IndexInv, Full, Published, Received
<1>4. ASSUME NEW f \in Access, StoreField(f) PROVE IndexInv'
  BY <1>4 DEF StoreField, IndexInv, Full, Published, Received
<1>5. CASE StoreIdx
  <2>1. /\ Published' = Published + 1 /\ Received' = Received
        /\ app_idx' = NextIdx(app_idx) /\ NextIdx(app_idx) # hlp_idx
        /\ UNCHANGED <<hlp_idx, hlp_at, loading, app_at>>
        /\ "idx" \notin storing' /\ app_at = app_idx
    BY <1>5 DEF StoreIdx, IndexInv, Full, DataInv, TypeOK, Published, Received
  <2>2. NextIdx(app_idx) = IF app_idx = BufSize - 1 THEN 0 ELSE app_idx + 1
    BY <1>0, NextIdxValue
  <2>3. QED
    BY <1>0, <2>1, <2>2 DEF IndexInv, Slots
<1>6. CASE StartApplication
  BY <1>6 DEF StartApplication, IndexInv, Full, Published, Received
<1>7. CASE CallRemove
  <2>1. NextIdx(hlp_idx) = hlp_idx + 1 /\ app_idx - (hlp_idx + 1) > 1
    <3>1. hlp_idx = Received /\ hlp_idx <= BufSize - 3 /\ app_idx - NextIdx(hlp_idx) > 1
      BY <1>0, <1>7 DEF CallRemove, Removable, IndexInv
    <3>2. QED
      BY <1>0, <3>1, NextIdxValue DEF Slots
  <2>2. /\ loading = {} /\ loading' = Access /\ hlp_at' = hlp_idx
        /\ Published' = Published /\ Received' = Received
        /\ UNCHANGED <<hlp_idx, appVars>>
    BY <1>7 DEF CallRemove, Published, Received
  <2>3. Received + 3 <= Published /\ Received < BufSize - 3
    BY <1>0, <2>1, <2>2 DEF IndexInv, Slots
  <2>4. QED
    BY <1>0, <2>2, <2>3 DEF IndexInv, Full, Access
<1>8. ASSUME NEW f \in Access, LoadField(f) PROVE IndexInv'
  <2>1. /\ loading # {} /\ loading' = loading \ {f} /\ f # "idx"
        /\ Received' = IF loading' = {} THEN Received + 1 ELSE Received
        /\ UNCHANGED <<hlp_idx, hlp_at, appVars>>
    BY <1>8 DEF LoadField, Loaded, TypeOK, Published, Received
  <2>2. Published' = Published
    BY <2>1 DEF Published
  <2>3. QED
    BY <1>0, <2>1, <2>2 DEF IndexInv, Full
<1>9. CASE AdvanceIdx
  <2>1. /\ loading # {} /\ loading' = loading \ {"idx"} /\ "idx" \in loading
        /\ Received' = IF loading' = {} THEN Received + 1 ELSE Received
        /\ hlp_idx' = NextIdx(hlp_at) /\ UNCHANGED <<hlp_at, appVars>>
    BY <1>9 DEF AdvanceIdx, Loaded, TypeOK, Published, Received
  <2>2. hlp_idx = Received /\ hlp_idx' = hlp_idx + 1
    <3>1. hlp_idx = Received /\ hlp_at = Received /\ Received < BufSize - 3
      BY <2>1 DEF IndexInv
    <3>2. QED
      BY <1>0, <2>1, <3>1, NextIdxValue DEF Slots
  <2>3. Published' = Published /\ NextIdx(app_idx)' = NextIdx(app_idx)
    BY <2>1 DEF Published
  <2>4. "idx" \in storing => NextIdx(app_idx) # hlp_idx'
    <3>1. NextIdx(app_idx) = IF app_idx = BufSize - 1 THEN 0 ELSE app_idx + 1
      BY <1>0, NextIdxValue
    <3>2. QED
      BY <1>0, <2>1, <2>2, <3>1 DEF IndexInv, Slots, Full
  <2>5. QED
    BY <1>0, <2>1, <2>2, <2>3, <2>4 DEF IndexInv, Full
<1>10. CASE UNCHANGED vars
  BY <1>10 DEF vars, IndexInv, Full, Published, Received
<1>11. QED
  BY <1>1, <1>2, <1>3, <1>4, <1>5, <1>6, <1>7, <1>8, <1>9, <1>10 DEF Next, Store, Drain

\* The slot being written is none of those the helper may still load from.
LEMMA WriterApart ==
  ASSUME IInv, storing # {}, NEW i \in Slots, Received <= i, Stored(i)
  PROVE  app_at # i
<1> USE BufSizeAssumption DEF IInv
<1>1. /\ Published \in Nat /\ Received \in Nat
      /\ app_idx \in Slots /\ hlp_idx \in Slots /\ app_at \in Slots
  BY LenProperties DEF TypeOK, Published, Received
<1>2. CASE "idx" \in storing
  <2>1. app_at = app_idx /\ NextIdx(app_idx) # hlp_idx
    BY <1>2 DEF IndexInv, Full
  <2>2. NextIdx(app_idx) = IF app_idx = BufSize - 1 THEN 0 ELSE app_idx + 1
    BY <1>1, NextIdxValue
  <2>3. QED
    BY <1>1, <2>1, <2>2 DEF IndexInv, Slots, Stored
<1>3. CASE "idx" \notin storing
  BY <1>1, <1>3 DEF IndexInv, Slots, Stored
<1>4. QED
  BY <1>2, <1>3

\* The producer's stores keep the slots and the history in step.
LEMMA DataStoreField ==
  ASSUME IInv, NEW f \in Access, StoreField(f)
  PROVE  DataInv'
<1> USE DEF IInv
<1>1. /\ f \in storing /\ f \in Fields /\ app_at \in Slots /\ newop \in Op
      /\ opbuffer' = [opbuffer EXCEPT ![app_at][f] = newop[f]]
      /\ storing' = storing \ {f}
      /\ UNCHANGED <<app_idx, calling, newop, app_at, phase, inserted, hlpVars>>
  BY DEF StoreField, Access, Fields, TypeOK, DataInv
<1>2. Published' = Published /\ Received' = Received /\ Published \in Nat
  BY <1>1, LenProperties DEF TypeOK, Published, Received, hlpVars
<1>3. \A i \in Slots : i # app_at => opbuffer'[i] = opbuffer[i]
  BY <1>1 DEF TypeOK
<1>4. \A g \in Fields : g \notin storing' => opbuffer'[app_at][g] = newop[g]
  BY <1>1 DEF TypeOK, DataInv, Fields
<1>5. ASSUME NEW i \in Slots, Received <= i, Stored(i)'
      PROVE  opbuffer'[i] = inserted[i + 1]
  <2>1. CASE Stored(i)
    <3>1. app_at # i
      BY <1>1, <1>5, <2>1, WriterApart
    <3>2. opbuffer[i] = inserted[i + 1]
      BY <1>5, <2>1 DEF DataInv
    <3>3. QED
      BY <1>3, <3>1, <3>2
  <2>2. CASE ~Stored(i)
    <3>1. i = Published - 1 /\ "idx" \notin storing /\ storing' = {}
      BY <1>1, <1>2, <1>5, <2>2 DEF Stored
    <3>2. app_at = i /\ inserted[i + 1] = newop
      BY <1>1, <1>2, <3>1, BufSizeAssumption DEF IndexInv, DataInv, Slots
    <3>3. /\ opbuffer'[i]["key"] = newop["key"] /\ opbuffer'[i]["node"] = newop["node"]
          /\ opbuffer'[i] \in [key : Key \cup {0}, node : Node \cup {NULL}]
      BY <1>1, <1>4, <3>1, <3>2 DEF TypeOK, Fields, Op
    <3>4. QED
      BY <1>1, <3>2, <3>3 DEF Op
  <2>3. QED
    BY <2>1, <2>2
<1>6. QED
  BY <1>1, <1>2, <1>4, <1>5 DEF DataInv, hlpVars, Fields

LEMMA DataStoreIdx == IInv /\ StoreIdx => DataInv'
<1> SUFFICES ASSUME IInv, StoreIdx PROVE DataInv'
  OBVIOUS
<1> USE DEF IInv
<1>1. /\ "idx" \in storing /\ newop \in Op
      /\ inserted' = Append(inserted, newop) /\ storing' = storing \ {"idx"}
      /\ UNCHANGED <<opbuffer, calling, newop, app_at, phase, hlpVars>>
  BY DEF StoreIdx, DataInv
<1>2. /\ Published' = Published + 1 /\ Received' = Received
      /\ Published \in Nat /\ Received \in Nat /\ Received <= Published
      /\ inserted'[Published + 1] = newop
      /\ \A i \in 1 .. Published : inserted'[i] = inserted[i]
    <2>1. Len(inserted) \in Nat /\ Len(removed) \in Nat
      BY LenProperties DEF TypeOK
    <2>2. Received <= Published
      BY <2>1, BufSizeAssumption DEF IndexInv, Published, Received, TypeOK, Slots
    <2>3. /\ Len(inserted') = Len(inserted) + 1 /\ inserted'[Len(inserted) + 1] = newop
          /\ \A i \in 1 .. Len(inserted) : inserted'[i] = inserted[i]
      BY <1>1, AppendProperties DEF TypeOK
    <2>4. QED
      BY <1>1, <2>1, <2>2, <2>3 DEF Published, Received, hlpVars
<1>3. ASSUME NEW i \in Slots, Received <= i, Stored(i)'
      PROVE  opbuffer[i] = inserted'[i + 1]
  <2>1. CASE i < Published
    <3>1. Stored(i)
      BY <1>1, <2>1 DEF Stored
    <3>2. i + 1 \in 1 .. Published
      BY <1>2, <2>1, BufSizeAssumption DEF Slots
    <3>3. opbuffer[i] = inserted[i + 1]
      BY <1>3, <3>1 DEF DataInv
    <3>4. QED
      BY <1>2, <3>2, <3>3
  <2>2. CASE ~(i < Published)
    <3>1. i = Published /\ storing = {"idx"}
      BY <1>1, <1>2, <1>3, <2>2, BufSizeAssumption DEF Stored, Slots
    <3>2. app_at = i
      BY <1>1, <1>2, <3>1, BufSizeAssumption DEF IndexInv, Slots
    <3>3. /\ opbuffer[i]["key"] = newop["key"] /\ opbuffer[i]["node"] = newop["node"]
          /\ opbuffer[i] \in [key : Key \cup {0}, node : Node \cup {NULL}]
      BY <3>1, <3>2 DEF TypeOK, DataInv, Fields
    <3>4. opbuffer[i] = newop
      BY <1>1, <3>3 DEF Op
    <3>5. QED
      BY <1>2, <3>1, <3>4
  <2>3. QED
    BY <2>1, <2>2
<1>4. \A f \in Fields : loading # {} /\ f \notin loading => job[f] = inserted'[Received + 1][f]
  <2>1. loading # {} => Received + 1 \in 1 .. Published
    BY <1>2 DEF IndexInv
  <2>2. QED
    BY <1>2, <2>1 DEF DataInv
<1>5. \A i \in 1 .. Received : removed[i] = inserted'[i]
  BY <1>2 DEF DataInv
<1>6. (storing' # {} /\ "idx" \notin storing') => inserted'[Published'] = newop
  BY <1>2
<1>7. QED
  BY <1>1, <1>2, <1>3, <1>4, <1>5, <1>6 DEF DataInv, Fields, hlpVars

\* The consumer's accesses deliver the next operation of the history.
LEMMA DataLoad ==
  ASSUME IInv, NEW f \in Access, LoadField(f) \/ (f = "idx" /\ AdvanceIdx)
  PROVE  DataInv'
<1>1. /\ \A g \in Fields : g \notin loading' => job'[g] = inserted[Received + 1][g]
      /\ loading' = {} => job' = inserted[Received + 1] /\ job' \in Op
  BY Delivery
<1> USE DEF IInv
<1>2. /\ removed' = IF loading' = {} THEN Append(removed, job') ELSE removed
      /\ UNCHANGED <<opbuffer, appVars>>
  BY DEF LoadField, AdvanceIdx, Loaded
<1>3. Published' = Published /\ Received \in Nat /\ Published \in Nat
  BY <1>2, LenProperties DEF TypeOK, Published, Received, appVars
<1>4. CASE loading' = {}
  <2>1. /\ Received' = Received + 1 /\ removed'[Received + 1] = job'
        /\ \A i \in 1 .. Received : removed'[i] = removed[i]
    BY <1>1, <1>2, <1>4, AppendProperties DEF TypeOK, Received
  <2>2. \A i \in 1 .. Received' : removed'[i] = inserted[i]
    BY <1>1, <1>3, <1>4, <2>1 DEF DataInv
  <2>3. \A i \in Slots : Received' <= i => Received <= i
    BY <1>3, <2>1, BufSizeAssumption DEF Slots
  <2>4. QED
    BY <1>2, <1>3, <1>4, <2>2, <2>3 DEF DataInv, Stored, appVars
<1>5. CASE loading' # {}
  <2>1. removed' = removed /\ Received' = Received
    BY <1>2, <1>5 DEF Received
  <2>2. QED
    BY <1>1, <1>2, <1>3, <2>1 DEF DataInv, Stored, appVars
<1>6. QED
  BY <1>4, <1>5

LEMMA DataStep == IInv /\ [Next]_vars => DataInv'
<1> SUFFICES ASSUME IInv, [Next]_vars PROVE DataInv'
  OBVIOUS
<1>1. ASSUME NEW op \in Op, CallInsert(op) PROVE DataInv'
  BY <1>1 DEF IInv, CallInsert, DataInv, Stored, Published, Received, Fields, hlpVars
<1>2. CASE Accept
  BY <1>2 DEF IInv, Accept, DataInv, Stored, Published, Received, Fields, hlpVars, Access
<1>3. CASE RefuseAndExit
  BY <1>3 DEF IInv, RefuseAndExit, DataInv, Stored, Published, Received, Fields, hlpVars
<1>4. ASSUME NEW f \in Access, StoreField(f) PROVE DataInv'
  BY <1>4, DataStoreField
<1>5. CASE StoreIdx
  BY <1>5, DataStoreIdx
<1>6. CASE StartApplication
  BY <1>6 DEF IInv, StartApplication, DataInv, Stored, Published, Received, Fields, hlpVars
<1>7. CASE CallRemove
  BY <1>7 DEF IInv, CallRemove, DataInv, Stored, Published, Received, Fields, appVars, Access
<1>8. ASSUME NEW f \in Access, LoadField(f) PROVE DataInv'
  BY <1>8, DataLoad
<1>9. CASE AdvanceIdx
  <2>1. "idx" \in Access
    BY DEF Access
  <2>2. QED
    BY <1>9, <2>1, DataLoad
<1>10. CASE UNCHANGED vars
  BY <1>10 DEF IInv, vars, appVars, hlpVars, DataInv, Stored, Published, Received, Fields
<1>11. QED
  BY <1>1, <1>2, <1>3, <1>4, <1>5, <1>6, <1>7, <1>8, <1>9, <1>10 DEF Next, Store, Drain

-----------------------------------------------------------------------------
(* The theorems                                                            *)

\* Every reachable state satisfies the inductive invariant.
THEOREM Invariance == Spec => []IInv
<1>1. IInv /\ [Next]_vars => IInv'
  BY TypeStep, IndexStep, DataStep DEF IInv
<1>2. QED
  BY InitInv, <1>1, PTL DEF Spec

\* The variables of the buffer keep their types, whatever its size.
THEOREM TypeCorrect == Spec => []TypeOK
<1>1. IInv => TypeOK
  BY DEF IInv
<1>2. QED
  BY Invariance, <1>1, PTL

\* One array never carries more than 2 * buf_size - 4 operations
\* (opbuffer_insert, opbuffer_remove).
THEOREM LifetimeBounded == Spec => []LifetimeBound
<1>1. IInv => LifetimeBound
  BY LenProperties, BufSizeAssumption
     DEF IInv, TypeOK, IndexInv, LifetimeBound, Published, Received, Slots
<1>2. QED
  BY Invariance, <1>1, PTL

\* Once app_idx has come back to slot 0, opbuffer_remove never again returns
\* an operation it had not begun to load.
THEOREM Frozen == Spec => FrozenAfterWrap
<1>1. IInv /\ [Next]_vars => [Wrapped => ~(loading = {} /\ loading' # {})]_vars
  <2> SUFFICES ASSUME IInv, Next, Wrapped, loading = {}, loading' # {} PROVE FALSE
    BY DEF vars, hlpVars
  <2>1. CallRemove
    BY DEF Next, Store, Drain, CallInsert, Accept, RefuseAndExit, StoreField, StoreIdx,
           StartApplication, LoadField, AdvanceIdx, hlpVars
  <2>2. /\ hlp_idx \in Slots /\ app_idx \in Slots /\ app_idx < hlp_idx
        /\ hlp_idx <= BufSize - 3
    BY LenProperties, BufSizeAssumption
       DEF IInv, TypeOK, IndexInv, Wrapped, Published, Received, Slots
  <2>3. NextIdx(hlp_idx) = hlp_idx + 1
    BY <2>2, NextIdxValue, BufSizeAssumption DEF Slots
  <2>4. QED
    BY <2>1, <2>2, <2>3, BufSizeAssumption DEF CallRemove, Removable, Slots
<1>2. QED
  BY Invariance, <1>1, PTL DEF Spec, FrozenAfterWrap

\* The array implements the queue of OpQueue: every order of the unordered
\* accesses of the two threads hands over whole operations, in order and once.
THEOREM ImplementsOpQueue == Spec => Fifo
<1>1. Init => Queue!Init
  BY DEF Init, Queue!Init
<1>2. IInv /\ [Next]_vars => [Queue!Next]_<<inserted, removed>>
  <2> SUFFICES ASSUME IInv, [Next]_vars, <<inserted, removed>>' # <<inserted, removed>>
               PROVE  Queue!Next
    OBVIOUS
  <2>1. CASE StoreIdx
    <3>1. newop \in Op
      BY <2>1 DEF StoreIdx, IInv, DataInv
    <3>2. QED
      BY <2>1, <3>1 DEF StoreIdx, hlpVars, Queue!Next, Queue!Insert
  <2>2. ASSUME NEW f \in Access, LoadField(f) \/ (f = "idx" /\ AdvanceIdx)
        PROVE  Queue!Next
    <3>1. loading # {} /\ (loading' = {} => job' = inserted[Received + 1])
      BY <2>2, Delivery
    <3>2. /\ removed' = IF loading' = {} THEN Append(removed, job') ELSE removed
          /\ UNCHANGED inserted
      BY <2>2 DEF LoadField, AdvanceIdx, Loaded, appVars
    <3>3. removed' = Append(removed, inserted[Len(removed) + 1])
      BY <3>1, <3>2 DEF Received
    <3>4. Len(removed) < Len(inserted)
      BY <3>1, LenProperties DEF IInv, TypeOK, IndexInv, Received, Published
    <3>5. QED
      BY <3>2, <3>3, <3>4 DEF Queue!Next, Queue!Remove
  <2>3. StoreIdx \/ AdvanceIdx \/ \E f \in Access : LoadField(f)
    BY DEF Next, Store, Drain, CallInsert, Accept, RefuseAndExit, StoreField,
           StartApplication, CallRemove, hlpVars, appVars, vars
  <2>4. "idx" \in Access
    BY DEF Access
  <2>5. QED
    BY <2>1, <2>2, <2>3, <2>4
<1>3. QED
  BY Invariance, <1>1, <1>2, PTL DEF Spec, Fifo, Queue!Spec
=============================================================================
