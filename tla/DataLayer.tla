----------------------------- MODULE DataLayer ------------------------------
(***************************************************************************)
(* The data layer: one lock-free sorted list of nodes that the application *)
(* threads of all the enclaves search and update (application.cpp,         *)
(* sl_traverse_data and the sl_finish functions).                          *)
(*                                                                         *)
(* One action is one access to a shared node, so that the value, the next  *)
(* pointer and the CASes of different threads interleave as in the code.   *)
(* Keys never change once a node is allocated and are read with the access *)
(* that leads to them.                                                     *)
(*                                                                         *)
(* The value of a node is its key, or NULL when it is logically deleted.   *)
(* The code also tests values for being the node itself, the mark of a     *)
(* node under physical removal; no store in the source ever sets it on a   *)
(* node of the list, so the branches behind it (the walk along prev and    *)
(* node_remove) are never taken and no node leaves the list.               *)
(***************************************************************************)
EXTENDS Naturals, FiniteSets

CONSTANTS Thread,   \* the application threads, one for each enclave
          Key,      \* the keys operations are called with
          Node,     \* the addresses of nodes
          Head,     \* the address of the sentinel node, with key 0
          NULL,
          NoCall    \* the call of a thread between two operations

ASSUME KeyAssumption  == Key \subseteq Nat \ {0} /\ NULL \notin Nat
ASSUME NodeAssumption == Head \notin Node /\ NULL \notin Node \cup {Head}
ASSUME CallAssumption == NoCall \notin [op : {"CONTAINS", "DELETE", "INSERT"}, key : Key]

Address == Node \cup {Head}
Optype  == {"CONTAINS", "DELETE", "INSERT"}
Call    == [op : Optype, key : Key]

VARIABLES key, val, next, prev,   \* the fields of the nodes
          linked,    \* the nodes that a CAS has put in the list
          pc,        \* the next shared access of each thread
          call,      \* the operation it executes
          at,        \* its local node, the left node of the search
          seen,      \* its local node_val
          right,     \* its local next, the right node
          newNode,   \* the node it allocated, links or revived (*pnode)
          result,    \* "none", then "yes" for 1 and "no" for 0
          published  \* the nodes it has handed to its helper thread

heap  == <<key, val, next, prev, linked>>
local == <<call, at, seen, right, newNode, result, published>>
vars  == <<heap, pc, local>>

Init ==
  /\ key = [n \in Address |-> 0]
  /\ val = [n \in Address |-> NULL]
  /\ next = [n \in Address |-> NULL]
  /\ prev = [n \in Address |-> NULL]
  /\ linked = {Head}
  /\ pc = [t \in Thread |-> "idle"]
  /\ call = [t \in Thread |-> NoCall]
  /\ at = [t \in Thread |-> Head]
  /\ seen = [t \in Thread |-> NULL]
  /\ right = [t \in Thread |-> NULL]
  /\ newNode = [t \in Thread |-> NULL]
  /\ result = [t \in Thread |-> "none"]
  /\ published = [t \in Thread |-> {}]

Allocated == linked \cup ({newNode[t] : t \in Thread} \ {NULL})
-----------------------------------------------------------------------------
\* sl_do_operation: the index of the enclave gives an entry point, the sentinel
\* or a node this enclave has published, never beyond the search key.
Start(t) ==
  /\ pc[t] = "idle"
  /\ \E c \in Call, entry \in published[t] \cup {Head} :
       /\ key[entry] <= c.key
       /\ call' = [call EXCEPT ![t] = c]
       /\ at' = [at EXCEPT ![t] = entry]
  /\ pc' = [pc EXCEPT ![t] = "val"]
  /\ UNCHANGED <<heap, seen, right, newNode, result, published>>

\* node_val = node->val
ReadVal(t) ==
  /\ pc[t] = "val"
  /\ seen' = [seen EXCEPT ![t] = val[at[t]]]
  /\ pc' = [pc EXCEPT ![t] = "next"]
  /\ UNCHANGED <<heap, call, at, right, newNode, result, published>>

AtKey(t)    == key[at[t]] = call[t].key
Beyond(t)   == next[at[t]] # NULL => key[next[at[t]]] > call[t].key
Is(t, o)    == call[t].op = o

\* next = node->next is not beyond the search key: go on from it.
Advance(t) ==
  /\ pc[t] = "next" /\ ~Beyond(t)
  /\ at' = [at EXCEPT ![t] = next[at[t]]]
  /\ pc' = [pc EXCEPT ![t] = "val"]
  /\ UNCHANGED <<heap, call, seen, right, newNode, result, published>>

\* The search ends between node and next with no further access: an answer
\* follows from the key and the value read (sl_finish_contains, the early
\* results 0 of sl_finish_delete and sl_finish_insert).
Answers(t) ==
  \/ Is(t, "CONTAINS")
  \/ Is(t, "DELETE") /\ (~AtKey(t) \/ seen[t] = NULL)
  \/ Is(t, "INSERT") /\ AtKey(t) /\ seen[t] # NULL

\* Faulty variant: contains retries on a logically deleted node.
AnswerRetrying(t) ==
  /\ pc[t] = "next" /\ Beyond(t) /\ Answers(t)
  /\ LET again == Is(t, "CONTAINS") /\ AtKey(t) /\ seen[t] = NULL IN
     /\ pc' = [pc EXCEPT ![t] = IF again THEN "val" ELSE "ret"]
     /\ result' = [result EXCEPT ![t] = IF again THEN "none" ELSE "no"]
  /\ UNCHANGED <<heap, call, at, seen, right, newNode, published>>

Answer(t) ==
  /\ pc[t] = "next" /\ Beyond(t) /\ Answers(t)
  /\ result' = [result EXCEPT ![t] =
                  IF Is(t, "CONTAINS") /\ AtKey(t) /\ seen[t] # NULL THEN "yes" ELSE "no"]
  /\ pc' = [pc EXCEPT ![t] = "ret"]
  /\ UNCHANGED <<heap, call, at, seen, right, newNode, published>>

\* The search ends at the node to delete or to revive.  The fields are not
\* volatile: the first node->val of sl_finish_delete is either loaded again or
\* is the node_val the compiler still has.
Found(t) ==
  /\ pc[t] = "next" /\ Beyond(t) /\ ~Answers(t) /\ AtKey(t)
  /\ right' = [right EXCEPT ![t] = next[at[t]]]
  /\ \E p \in IF Is(t, "DELETE") THEN {"delread", "delcas"} ELSE {"revive"} :
       pc' = [pc EXCEPT ![t] = p]
  /\ UNCHANGED <<heap, call, at, seen, newNode, result, published>>

\* The search ends between two keys: node_new, still private to the thread.
Allocate(t) ==
  /\ pc[t] = "next" /\ Beyond(t) /\ ~Answers(t) /\ ~AtKey(t)
  /\ right' = [right EXCEPT ![t] = next[at[t]]]
  /\ \E n \in Node \ Allocated :
       /\ key'  = [key EXCEPT ![n] = call[t].key]
       /\ val'  = [val EXCEPT ![n] = call[t].key]
       /\ prev' = [prev EXCEPT ![n] = at[t]]
       /\ next' = [next EXCEPT ![n] = next[at[t]]]
       /\ newNode' = [newNode EXCEPT ![t] = n]
  /\ pc' = [pc EXCEPT ![t] = "link"]
  /\ UNCHANGED <<linked, call, at, seen, result, published>>
-----------------------------------------------------------------------------
(* sl_finish_delete                                                        *)

DelRead(t) ==
  /\ pc[t] = "delread"
  /\ seen' = [seen EXCEPT ![t] = val[at[t]]]
  /\ IF val[at[t]] = NULL
     THEN /\ result' = [result EXCEPT ![t] = "no"]
          /\ pc' = [pc EXCEPT ![t] = "ret"]
     ELSE /\ pc' = [pc EXCEPT ![t] = "delcas"]
          /\ UNCHANGED result
  /\ UNCHANGED <<heap, call, at, right, newNode, published>>

\* Faulty variants: the mark of physical removal stored for a logical deletion,
\* and a plain store for the CAS.
DelMarks(t) ==
  /\ pc[t] = "delcas"
  /\ val' = [val EXCEPT ![at[t]] = at[t]]
  /\ result' = [result EXCEPT ![t] = "yes"]
  /\ pc' = [pc EXCEPT ![t] = "ret"]
  /\ UNCHANGED <<key, next, prev, linked, call, at, seen, right, newNode, published>>
DelStores(t) ==
  /\ pc[t] = "delcas"
  /\ val' = [val EXCEPT ![at[t]] = NULL]
  /\ result' = [result EXCEPT ![t] = "yes"]
  /\ pc' = [pc EXCEPT ![t] = "ret"]
  /\ UNCHANGED <<key, next, prev, linked, call, at, seen, right, newNode, published>>

DelCAS(t) ==
  /\ pc[t] = "delcas"
  /\ IF val[at[t]] = seen[t]
     THEN /\ val' = [val EXCEPT ![at[t]] = NULL]
          /\ result' = [result EXCEPT ![t] = "yes"]
          /\ pc' = [pc EXCEPT ![t] = "ret"]
     ELSE /\ pc' = [pc EXCEPT ![t] = "delread"]
          /\ UNCHANGED <<val, result>>
  /\ UNCHANGED <<key, next, prev, linked, call, at, seen, right, newNode, published>>

(* sl_finish_insert; a failed CAS is the result -1, for which              *)
(* sl_traverse_data goes on from the same node.                            *)

Revive(t) ==
  /\ pc[t] = "revive"
  /\ IF val[at[t]] = NULL
     THEN /\ val' = [val EXCEPT ![at[t]] = call[t].key]
          /\ result' = [result EXCEPT ![t] = "yes"]
          /\ newNode' = [newNode EXCEPT ![t] = at[t]]
          /\ pc' = [pc EXCEPT ![t] = "ret"]
     ELSE /\ pc' = [pc EXCEPT ![t] = "val"]
          /\ UNCHANGED <<val, result, newNode>>
  /\ UNCHANGED <<key, next, prev, linked, call, at, seen, right, published>>

\* Faulty variant: a plain store for the CAS.
LinkStores(t) ==
  /\ pc[t] = "link"
  /\ next' = [next EXCEPT ![at[t]] = newNode[t]]
  /\ linked' = linked \cup {newNode[t]}
  /\ result' = [result EXCEPT ![t] = "yes"]
  /\ pc' = [pc EXCEPT ![t] = IF right[t] = NULL THEN "ret" ELSE "setprev"]
  /\ UNCHANGED <<key, val, prev, call, at, seen, right, newNode, published>>

Link(t) ==
  /\ pc[t] = "link" /\ next[at[t]] = right[t]
  /\ next' = [next EXCEPT ![at[t]] = newNode[t]]
  /\ linked' = linked \cup {newNode[t]}
  /\ result' = [result EXCEPT ![t] = "yes"]
  /\ pc' = [pc EXCEPT ![t] = IF right[t] = NULL THEN "ret" ELSE "setprev"]
  /\ UNCHANGED <<key, val, prev, call, at, seen, right, newNode, published>>

\* Faulty variants: *pnode keeps the freed node, and the CAS is tried again
\* without a new search.
LinkFailsKeeping(t) ==
  /\ pc[t] = "link" /\ next[at[t]] # right[t]
  /\ pc' = [pc EXCEPT ![t] = "val"]
  /\ UNCHANGED <<heap, local>>
LinkFailsForever(t) ==
  /\ pc[t] = "link" /\ next[at[t]] # right[t]
  /\ UNCHANGED vars

\* node_delete: nobody can tell what a freed node holds.
LinkFails(t) ==
  /\ pc[t] = "link" /\ next[at[t]] # right[t]
  /\ key'  = [key EXCEPT ![newNode[t]] = 0]
  /\ val'  = [val EXCEPT ![newNode[t]] = NULL]
  /\ next' = [next EXCEPT ![newNode[t]] = NULL]
  /\ prev' = [prev EXCEPT ![newNode[t]] = NULL]
  /\ newNode' = [newNode EXCEPT ![t] = NULL]
  /\ pc' = [pc EXCEPT ![t] = "val"]
  /\ UNCHANGED <<linked, call, at, seen, right, result, published>>

\* Faulty variant: the pointer is stored in the new node.
SetPrevSwapped(t) ==
  /\ pc[t] = "setprev"
  /\ prev' = [prev EXCEPT ![newNode[t]] = right[t]]
  /\ pc' = [pc EXCEPT ![t] = "ret"]
  /\ UNCHANGED <<key, val, next, linked, local>>

\* next->prev = newNode, a plain store after the CAS.
SetPrev(t) ==
  /\ pc[t] = "setprev"
  /\ prev' = [prev EXCEPT ![right[t]] = newNode[t]]
  /\ pc' = [pc EXCEPT ![t] = "ret"]
  /\ UNCHANGED <<key, val, next, linked, local>>

\* The caller hands the node of a successful insert to its helper.
Return(t) ==
  /\ pc[t] = "ret"
  /\ published' = [published EXCEPT ![t] = @ \cup ({newNode[t]} \ {NULL})]
  /\ call' = [call EXCEPT ![t] = NoCall]
  /\ at' = [at EXCEPT ![t] = Head]
  /\ seen' = [seen EXCEPT ![t] = NULL]
  /\ right' = [right EXCEPT ![t] = NULL]
  /\ newNode' = [newNode EXCEPT ![t] = NULL]
  /\ result' = [result EXCEPT ![t] = "none"]
  /\ pc' = [pc EXCEPT ![t] = "idle"]
  /\ UNCHANGED heap
-----------------------------------------------------------------------------
Step(t) ==
  \/ ReadVal(t) \/ Advance(t) \/ Answer(t) \/ Found(t) \/ Allocate(t)
  \/ DelRead(t) \/ DelCAS(t) \/ Revive(t)
  \/ Link(t) \/ LinkFails(t) \/ SetPrev(t) \/ Return(t)

Next == \E t \in Thread : Start(t) \/ Step(t)

Spec == Init /\ [][Next]_vars

\* Some thread that has begun an operation runs, whichever it is.
LockFreeSpec == Spec /\ WF_vars(\E t \in Thread : Step(t))
-----------------------------------------------------------------------------
(* Properties                                                              *)

\* The types of all the variables.
TypeOK ==
  /\ key \in [Address -> Key \cup {0}]
  /\ val \in [Address -> Key \cup {NULL}]
  /\ next \in [Address -> Address \cup {NULL}]
  /\ prev \in [Address -> Address \cup {NULL}]
  /\ linked \subseteq Address
  /\ pc \in [Thread -> {"idle", "val", "next", "delread", "delcas", "revive", "link",
                        "setprev", "ret"}]
  /\ call \in [Thread -> Call \cup {NoCall}]
  /\ at \in [Thread -> Address]
  /\ seen \in [Thread -> Key \cup {NULL}]
  /\ right \in [Thread -> Address \cup {NULL}]
  /\ newNode \in [Thread -> Address \cup {NULL}]
  /\ result \in [Thread -> {"none", "yes", "no"}]
  /\ published \in [Thread -> SUBSET Node]

\* The list holds every linked node, in the order of the keys and each key
\* once, whatever CASes interleave: from a node the next one is the node with
\* the least greater key, so no insert hides a node another one has linked.
Sorted ==
  \A a \in linked :
    /\ next[a] # NULL => next[a] \in linked /\ key[a] < key[next[a]]
    /\ \A b \in linked :
         /\ key[a] = key[b] => a = b
         /\ key[a] < key[b] => next[a] # NULL /\ key[next[a]] <= key[b]

\* A prev pointer, stored after the CAS and in any order by racing inserts,
\* may be out of date but leads to a node of the list with a lesser key: a
\* walk back along prev ends at the sentinel.
PrevLeadsBack ==
  \A n \in linked \ {Head} : prev[n] \in linked /\ key[prev[n]] < key[n]

\* A node is handed to the helper only when it is in the list, and a node
\* freed after a failed CAS was never reachable: not from the list and not
\* from a pointer another thread holds.
NoDangling ==
  LET Held(t) == {at[t], right[t]} \cup published[t] IN
  /\ \A t \in Thread : Held(t) \ {NULL} \subseteq linked
  /\ \A n \in linked : {next[n], prev[n]} \ {NULL} \subseteq linked
  /\ \A t, u \in Thread : pc[t] = "link" =>
       newNode[t] \notin linked /\ (newNode[u] = newNode[t] => t = u)

\* The operation has taken effect with the value it has read, before it returns.
DecidedByValue(t) ==
  /\ pc[t] = "next" /\ AtKey(t)
  /\ \/ Is(t, "CONTAINS")
     \/ Is(t, "DELETE") /\ seen[t] = NULL
     \/ Is(t, "INSERT") /\ seen[t] # NULL

EffectiveAnswer(t) ==
  IF DecidedByValue(t)
  THEN IF Is(t, "CONTAINS") /\ seen[t] # NULL THEN "yes" ELSE "no"
  ELSE result[t]

\* The keys in the list that are not logically deleted.
Members == {key[n] : n \in {m \in linked : val[m] # NULL}}

\* Every operation of every thread takes effect at one instant between its
\* call and its return on one set of keys, with the result it returns.
Abstract == INSTANCE KeySet WITH
  set <- Members,
  answer <- [t \in Thread |-> EffectiveAnswer(t)]
Linearizable == Abstract!Spec

\* As long as any thread inside an operation is scheduled, some operation
\* finishes: the retries of one CAS are the progress of another.
LockFree == (\E t \in Thread : pc[t] # "idle") ~> (\E t \in Thread : pc[t] = "ret")

\* A lookup never retries: it finishes if its own thread is scheduled, whatever
\* the other threads do and whether they run or not.
ContainsFinishes ==
  \A t \in Thread : WF_vars(Step(t)) =>
    ((call[t] # NoCall /\ Is(t, "CONTAINS")) ~> (pc[t] = "ret"))
=============================================================================
