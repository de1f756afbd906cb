------------------------------- MODULE KeySet -------------------------------
(***************************************************************************)
(* What the data layer promises to the application threads: each contains, *)
(* insert and delete takes effect at one instant between its call and its  *)
(* return, on a set of keys shared by all the enclaves.                    *)
(***************************************************************************)
CONSTANTS Thread, Key, NoCall

Optype == {"CONTAINS", "DELETE", "INSERT"}
Call   == [op : Optype, key : Key]

VARIABLES set,      \* the keys in the skip list
          call,     \* the operation a thread is executing, or NoCall
          answer    \* "none" until it has taken effect, then "yes" or "no"

Init ==
  /\ set = {}
  /\ call = [t \in Thread |-> NoCall]
  /\ answer = [t \in Thread |-> "none"]

Invoke(t) ==
  /\ call[t] = NoCall
  /\ \E c \in Call : call' = [call EXCEPT ![t] = c]
  /\ UNCHANGED <<set, answer>>

\* The result of c, and the set it leaves.
Succeeds(c) == (c.key \in set) = (c.op # "INSERT")
After(c) ==
  CASE c.op = "CONTAINS" -> set
    [] c.op = "DELETE"   -> set \ {c.key}
    [] c.op = "INSERT"   -> set \cup {c.key}

TakeEffect(t) ==
  /\ call[t] # NoCall /\ answer[t] = "none"
  /\ answer' = [answer EXCEPT ![t] = IF Succeeds(call[t]) THEN "yes" ELSE "no"]
  /\ set' = After(call[t])
  /\ UNCHANGED call

Return(t) ==
  /\ answer[t] # "none"
  /\ call' = [call EXCEPT ![t] = NoCall]
  /\ answer' = [answer EXCEPT ![t] = "none"]
  /\ UNCHANGED set

Next == \E t \in Thread : Invoke(t) \/ TakeEffect(t) \/ Return(t)

Spec == Init /\ [][Next]_<<set, call, answer>>
=============================================================================
