---------------------------- MODULE RedBlackTree ----------------------------
(***************************************************************************)
(* The red-black tree of the E-STM benchmarks (lf-rbtree/rbtree.c), one    *)
(* pass of a loop per action. The file holds every function twice, with    *)
(* plain and with transactional accesses; the two do the same, and a       *)
(* transaction makes the second atomic, so one definition stands for both. *)
(*                                                                         *)
(* tree holds the root and the six fields of every node that is linked:    *)
(* k, v, p, l, r and c. One operation runs at a time; op is its name, its  *)
(* arguments and its local variables.                                      *)
(***************************************************************************)
EXTENDS Integers, FiniteSets, TLC

\* clients: the keys and values each uses, and whether it loads the tree in order
CONSTANT Settings

ASSUME SettingsAssumption ==
    \A s \in Settings : s.keys \subseteq Int /\ IsFiniteSet(s.keys) /\ s.loading \in BOOLEAN

VARIABLES
    setting,    \* the keys and values in use and what the client calls
    tree,       \* the nodes and the root
    allocated,  \* the nodes that malloc handed out and free has not taken back
    op,         \* the operation in progress
    dict        \* what the operations called so far should have stored

vars == <<setting, tree, allocated, op, dict>>

None == 0
RED == "red"
BLACK == "black"
Word(b) == IF b THEN 1 ELSE 0       \* bool_t
Nodes == 1..(Cardinality(setting.keys) + 1)

Empty == [root |-> None, k |-> <<>>, v |-> <<>>, p |-> <<>>, l |-> <<>>, r |-> <<>>, c |-> <<>>]
Other(s) == IF s = "l" THEN "r" ELSE "l"

\* the accessors that take NULL: parentOf, leftOf and rightOf, then colorOf, setColor
Of(t, f, n) == IF n = None THEN None ELSE t[f][n]
ParentOf(t, n) == Of(t, "p", n)
LeftOf(t, n) == Of(t, "l", n)
RightOf(t, n) == Of(t, "r", n)
ColorOf(t, n) == IF n = None THEN BLACK ELSE t.c[n]
SetColor(t, n, c) == IF n = None THEN t ELSE [t EXCEPT !.c[n] = c]
ParentOfParent(t, n) == ParentOf(t, ParentOf(t, n))

\* the parent of x, or the root, points to y instead of x; looks at side s first
Relink(t, x, y, s) ==
    LET xp == t.p[x]
        up == IF xp # None /\ t[s][xp] = x THEN s ELSE Other(s)
    IN IF xp = None THEN [t EXCEPT !.root = y] ELSE [t EXCEPT ![up][xp] = y]

\* x goes down on side s, its child on the other side comes up
Rotate(t, x, s) ==
    LET y == t[Other(s)][x]
        between == t[s][y]
        moved == (x :> y) @@ (y :> t.p[x]) @@ (IF between = None THEN <<>> ELSE between :> x)
    IN [Relink(t, x, y, s) EXCEPT ![Other(s)][x] = between, ![s][y] = x, !.p = moved @@ @]

RotateLeft(t, x) == Rotate(t, x, "l")
RotateRight(t, x) == Rotate(t, x, "r")
RotateTo(t, x, s) == IF s = "l" THEN RotateLeft(t, x) ELSE RotateRight(t, x)

Leftmost(t, n) ==
    LET down[m \in DOMAIN t.l] == IF t.l[m] = None THEN m ELSE down[t.l[m]] IN down[n]

Successor(t, n) ==
    LET up[m \in DOMAIN t.p] ==
            IF t.p[m] # None /\ m = t.r[t.p[m]] THEN up[t.p[m]] ELSE t.p[m]
    IN IF t.r[n] # None THEN Leftmost(t, t.r[n]) ELSE up[n]

Reachable(t) ==
    LET below[n \in DOMAIN t.l \cup {None}] ==
            IF n = None THEN {} ELSE {n} \cup below[t.l[n]] \cup below[t.r[n]]
    IN below[t.root]

--------------------------------------------------------------------------------
Idle == [pc |-> "idle"]
Running(pc) == op.pc = pc

\* rbtree_alloc
Init ==
    /\ setting \in Settings
    /\ tree = Empty
    /\ allocated = {}
    /\ op = Idle
    /\ dict = <<>>

\* malloc: which free node it returns makes no difference
GetNode(k) ==
    LET free == Nodes \ allocated
    IN IF k \in free THEN k ELSE CHOOSE n \in free : \A m \in free : n <= m

Return(result) == op' = [pc |-> "return", result |-> result, due |-> op.due]

\* the caller gets its result and may call again
Finish ==
    /\ Running("return")
    /\ op' = Idle
    /\ UNCHANGED <<setting, tree, allocated, dict>>

\* due, the result that a dictionary would give, is there for the properties only
Call(name, k, v, n) ==
    op' = [name |-> name, key |-> k, val |-> v, pc |-> IF n = None THEN "lookup" ELSE "insert",
           at |-> tree.root, node |-> n,
           due |-> CASE name = "insert" -> Word(k \notin DOMAIN dict)
                     [] name = "get" -> IF k \in DOMAIN dict THEN dict[k] ELSE None
                     [] OTHER -> Word(k \in DOMAIN dict)]

\* rbtree_insert keeps the value of a key that is there, rbtree_update replaces it
Put(name, k, v) ==
    /\ op = Idle
    /\ LET n == GetNode(k)
       IN /\ allocated' = allocated \cup {n}
          /\ Call(name, k, v, n)
    /\ dict' = IF name = "insert" /\ k \in DOMAIN dict THEN dict ELSE (k :> v) @@ dict
    /\ UNCHANGED <<setting, tree>>

Insert(k, v) == Put("insert", k, v)
Update(k, v) == Put("update", k, v)

Delete(k) ==
    /\ op = Idle
    /\ Call("delete", k, None, None)
    /\ dict' = [x \in DOMAIN dict \ {k} |-> dict[x]]
    /\ UNCHANGED <<setting, tree, allocated>>

Find(name, k) ==
    /\ op = Idle
    /\ Call(name, k, None, None)
    /\ UNCHANGED <<setting, tree, allocated, dict>>

Get(k) == Find("get", k)
Contains(k) == Find("contains", k)

\* rbtree_free and then rbtree_alloc
FreeAll ==
    /\ op = Idle
    /\ allocated' = allocated \ Reachable(tree)
    /\ tree' = Empty
    /\ dict' = <<>>
    /\ UNCHANGED <<setting, op>>

--------------------------------------------------------------------------------
(* insert                                                                      *)

Side == IF op.key < tree.k[op.at] THEN "l" ELSE "r"
Found == op.at # None /\ op.key = tree.k[op.at]

Link(t, n, parent, color) ==
    [t EXCEPT !.k = (n :> op.key) @@ @, !.v = (n :> op.val) @@ @, !.p = (n :> parent) @@ @,
              !.l = (n :> None) @@ @, !.r = (n :> None) @@ @, !.c = (n :> color) @@ @]

InsertFirst ==
    /\ Running("insert")
    /\ op.at = None
    /\ tree' = [Link(tree, op.node, None, BLACK) EXCEPT !.root = op.node]
    /\ Return(Word(op.name = "insert"))
    /\ UNCHANGED <<setting, allocated, dict>>

\* mutated: the new node is forgotten
InsertFoundLeaking ==
    /\ Running("insert")
    /\ Found
    /\ tree' = IF op.name = "update" THEN [tree EXCEPT !.v[op.at] = op.val] ELSE tree
    /\ Return(Word(op.name = "update"))
    /\ UNCHANGED <<setting, allocated, dict>>

\* the key is there: the new node is released
InsertFound ==
    /\ Running("insert")
    /\ Found
    /\ tree' = IF op.name = "update" THEN [tree EXCEPT !.v[op.at] = op.val] ELSE tree
    /\ allocated' = allocated \ {op.node}
    /\ Return(Word(op.name = "update"))
    /\ UNCHANGED <<setting, dict>>

InsertDescend ==
    /\ Running("insert")
    /\ op.at # None
    /\ ~Found
    /\ tree[Side][op.at] # None
    /\ op' = [op EXCEPT !.at = tree[Side][op.at]]
    /\ UNCHANGED <<setting, tree, allocated, dict>>

InsertLeaf ==
    /\ Running("insert")
    /\ op.at # None
    /\ ~Found
    /\ tree[Side][op.at] = None
    /\ tree' = [Link(tree, op.node, op.at, RED) EXCEPT ![Side][op.at] = op.node]
    /\ op' = [op EXCEPT !.pc = "fixAfterInsertion", !.at = op.node]
    /\ UNCHANGED <<setting, allocated, dict>>

Unfixed == op.at \notin {None, tree.root} /\ tree.c[tree.p[op.at]] = RED

\* the uncle is red too: the colours move up
RecolorUp(x, xp, y) ==
    /\ ColorOf(tree, y) = RED
    /\ tree' = SetColor(SetColor(SetColor(tree, xp, BLACK), y, BLACK),
                        ParentOf(tree, xp), RED)
    /\ op' = [op EXCEPT !.at = ParentOf(tree, xp)]

\* the uncle is black: one rotation, or two when x is on the inner side
RotateUp(x, xp, y, s) ==
    /\ ColorOf(tree, y) # RED
    /\ LET inner == x = tree[Other(s)][xp]
           t == IF inner THEN RotateTo(tree, xp, s) ELSE tree
           x1 == IF inner THEN xp ELSE x
           g == ParentOfParent(t, x1)
           painted == SetColor(SetColor(t, ParentOf(t, x1), BLACK), g, RED)
       IN /\ tree' = IF g = None THEN painted ELSE RotateTo(painted, g, Other(s))
          /\ op' = [op EXCEPT !.at = x1]

FixAfterInsertion ==
    /\ Running("fixAfterInsertion")
    /\ Unfixed
    /\ LET x == op.at
           xp == tree.p[x]
           g == ParentOf(tree, xp)
           s == IF xp = LeftOf(tree, g) THEN "l" ELSE "r"
           y == Of(tree, Other(s), g)
       IN RecolorUp(x, xp, y) \/ RotateUp(x, xp, y, s)
    /\ UNCHANGED <<setting, allocated, dict>>

FixedInsertion ==
    /\ Running("fixAfterInsertion")
    /\ ~Unfixed
    /\ tree' = SetColor(tree, tree.root, BLACK)
    /\ Return(Word(op.name = "insert"))
    /\ UNCHANGED <<setting, allocated, dict>>

--------------------------------------------------------------------------------
(* lookup and delete                                                           *)

LookupDescend ==
    /\ Running("lookup")
    /\ op.at # None
    /\ ~Found
    /\ op' = [op EXCEPT !.at = tree[Side][op.at]]
    /\ UNCHANGED <<setting, tree, allocated, dict>>

LookupEnd ==
    /\ Running("lookup")
    /\ op.at = None \/ (Found /\ op.name # "delete")
    /\ Return(IF op.name # "get" THEN Word(Found) ELSE IF Found THEN tree.v[op.at] ELSE None)
    /\ UNCHANGED <<setting, tree, allocated, dict>>

\* delete_node up to the repair: the node to unlink has at most one child, and
\* the child takes its place
DeleteNode ==
    /\ Running("lookup")
    /\ Found
    /\ op.name = "delete"
    /\ LET n == op.at
           internal == tree.l[n] # None /\ tree.r[n] # None
           p == IF internal THEN Successor(tree, n) ELSE n
           t == IF internal
                THEN [tree EXCEPT !.k[n] = tree.k[p], !.v[n] = tree.v[p]]
                ELSE tree
           child == IF t.l[p] # None THEN t.l[p] ELSE t.r[p]
           spliced == [Relink(t, p, child, "l") EXCEPT
                         !.p = (p :> None) @@ (child :> t.p[p]) @@ @,
                         !.l[p] = None, !.r[p] = None]
       IN /\ tree' = IF child # None THEN spliced
                     ELSE IF t.p[p] = None THEN [t EXCEPT !.root = None] ELSE t
          /\ op' = [op EXCEPT !.node = p,
                              !.at = IF child # None THEN child ELSE p,
                              !.pc = IF t.c[p] = BLACK /\ (child # None \/ t.p[p] # None)
                                     THEN "fixAfterDeletion" ELSE "unlink"]
    /\ UNCHANGED <<setting, allocated, dict>>

Short == op.at # tree.root /\ ColorOf(tree, op.at) = BLACK

\* t and the sibling of x once the sibling is black, x on side s
BlackSibling(t, x, s) ==
    LET xp == ParentOf(t, x)
        sib == Of(t, Other(s), xp)
    IN IF ColorOf(t, sib) = RED
       THEN RotateTo(SetColor(SetColor(t, sib, BLACK), xp, RED), xp, s)
       ELSE t

\* both children of the sibling are black: it turns red, and the parent is short
PaintSibling(t, x, sib, s) ==
    /\ ColorOf(t, LeftOf(t, sib)) = BLACK
    /\ ColorOf(t, RightOf(t, sib)) = BLACK
    /\ tree' = SetColor(t, sib, RED)
    /\ op' = [op EXCEPT !.at = ParentOf(t, x)]

\* mutated: the sibling does not take the colour of the parent it replaces
RotateSiblingBlack(t, x, sib, s) ==
    /\ ColorOf(t, LeftOf(t, sib)) = RED \/ ColorOf(t, RightOf(t, sib)) = RED
    /\ LET far == ColorOf(t, Of(t, Other(s), sib)) = RED
           t1 == IF far THEN t
                 ELSE RotateTo(SetColor(SetColor(t, Of(t, s, sib), BLACK), sib, RED), sib, Other(s))
           xp == ParentOf(t1, x)
           sib1 == Of(t1, Other(s), xp)
           t2 == SetColor(SetColor(t1, xp, BLACK), Of(t1, Other(s), sib1), BLACK)
       IN /\ tree' = RotateTo(t2, xp, s)
          /\ op' = [op EXCEPT !.at = tree'.root]

\* a red child of the sibling fills the gap
RotateSibling(t, x, sib, s) ==
    /\ ColorOf(t, LeftOf(t, sib)) = RED \/ ColorOf(t, RightOf(t, sib)) = RED
    /\ LET far == ColorOf(t, Of(t, Other(s), sib)) = RED
           t1 == IF far THEN t
                 ELSE RotateTo(SetColor(SetColor(t, Of(t, s, sib), BLACK), sib, RED), sib, Other(s))
           xp == ParentOf(t1, x)
           sib1 == Of(t1, Other(s), xp)
           t2 == SetColor(SetColor(SetColor(t1, sib1, ColorOf(t1, xp)), xp, BLACK),
                          Of(t1, Other(s), sib1), BLACK)
       IN /\ tree' = RotateTo(t2, xp, s)
          /\ op' = [op EXCEPT !.at = tree'.root]

FixAfterDeletion ==
    /\ Running("fixAfterDeletion")
    /\ Short
    /\ LET x == op.at
           s == IF x = LeftOf(tree, ParentOf(tree, x)) THEN "l" ELSE "r"
           t == BlackSibling(tree, x, s)
           sib == Of(t, Other(s), ParentOf(t, x))
       IN PaintSibling(t, x, sib, s) \/ RotateSibling(t, x, sib, s)
    /\ UNCHANGED <<setting, allocated, dict>>

FixedDeletion ==
    /\ Running("fixAfterDeletion")
    /\ ~Short
    /\ tree' = SetColor(tree, op.at, BLACK)
    /\ op' = [op EXCEPT !.pc = "unlink"]
    /\ UNCHANGED <<setting, allocated, dict>>

\* a node without a child stood for its replacement and is unlinked only now;
\* then the node is released
UnlinkAndRelease ==
    /\ Running("unlink")
    /\ LET p == op.node
           pp == tree.p[p]
           cut == IF pp = None THEN tree
                  ELSE IF p = tree.l[pp] THEN [tree EXCEPT !.l[pp] = None]
                  ELSE IF p = tree.r[pp] THEN [tree EXCEPT !.r[pp] = None] ELSE tree
           Keep(f) == [n \in DOMAIN f \ {p} |-> f[n]]
       IN /\ tree' = [root |-> cut.root, k |-> Keep(cut.k), v |-> Keep(cut.v), p |-> Keep(cut.p),
                      l |-> Keep(cut.l), r |-> Keep(cut.r), c |-> Keep(cut.c)]
          /\ allocated' = allocated \ {p}
    /\ Return(Word(TRUE))
    /\ UNCHANGED <<setting, dict>>

--------------------------------------------------------------------------------
\* a loading client, like the test of the tree, inserts its keys in ascending order
\* and deletes them in any order; another one makes any call
Begin ==
    \E k \in setting.keys, v \in setting.values :
        \/ Delete(k)
        \/ (setting.loading => DOMAIN dict = {j \in setting.keys : j < k}) /\ Insert(k, v)
        \/ ~setting.loading /\ (Update(k, v) \/ Get(k) \/ Contains(k))

Work ==
    \/ InsertFirst \/ InsertFound \/ InsertDescend \/ InsertLeaf
    \/ FixAfterInsertion \/ FixedInsertion
    \/ LookupDescend \/ LookupEnd
    \/ DeleteNode \/ FixAfterDeletion \/ FixedDeletion \/ UnlinkAndRelease
    \/ Finish

Next == Begin \/ FreeAll \/ Work

Spec == Init /\ [][Next]_vars

--------------------------------------------------------------------------------
\* The links of the tree stay among its nodes, and these among the allocated ones.
TypeOK ==
    /\ setting \in Settings
    /\ allocated \subseteq Nodes
    /\ DOMAIN tree.k \subseteq allocated
    /\ tree.root \in DOMAIN tree.k \cup {None}
    /\ \A f \in {"p", "l", "r"} : tree[f] \in [DOMAIN tree.k -> DOMAIN tree.k \cup {None}]
    /\ tree.c \in [DOMAIN tree.k -> {RED, BLACK}]

\* verifyRedBlack: the black height of the tree below a node, 0 if it found a fault
\* in the colours; a difference between the two sides is only printed
VerifyRedBlack(t) ==
    LET height[n \in DOMAIN t.l \cup {None}] ==
            IF n = None THEN 1
            ELSE LET hl == height[t.l[n]]
                     hr == height[t.r[n]]
                 IN IF \/ hl = 0
                       \/ hr = 0
                       \/ t.c[n] = RED /\ RED \in {ColorOf(t, t.l[n]), ColorOf(t, t.r[n])}
                    THEN 0
                    ELSE IF t.c[n] = RED THEN hl ELSE hl + 1
    IN height[t.root]

\* rbtree_verify: the keys in the order of successor, then the colours
Verify(t) ==
    LET inOrder[n \in DOMAIN t.l] ==
            LET next == Successor(t, n) IN next = None \/ (t.k[n] < t.k[next] /\ inOrder[next])
    IN IF t.root = None THEN 1
       ELSE IF t.p[t.root] # None THEN -1
       ELSE IF ~inOrder[Leftmost(t, t.root)] THEN -3
       ELSE VerifyRedBlack(t)

AtRest == op.pc \in {"idle", "return"}

\* every path from the root down meets the same number of black nodes, or verifyRedBlack
\* prints "Imbalance"
Balanced(t) ==
    LET heights[n \in DOMAIN t.l \cup {None}] ==
            IF n = None THEN {0}
            ELSE {h + (IF t.c[n] = BLACK THEN 1 ELSE 0) : h \in heights[t.l[n]] \cup heights[t.r[n]]}
    IN Cardinality(heights[t.root]) = 1

\* After every operation rbtree_verify returns more than 0, as the test of the tree
\* asserts (rbtree.c:1607), and prints nothing: the keys are in order, no red node has a
\* red child or is the root, and the tree is balanced, whatever was inserted and
\* deleted before. A wrong case of one of the two repairs breaks it some operations later.
RedBlack ==
    /\ TypeOK
    /\ AtRest => Verify(tree) > 0 /\ Balanced(tree) /\ ColorOf(tree, tree.root) = BLACK

\* After every operation the tree stores what a dictionary would, the operation has
\* returned what a dictionary would, and malloc's nodes are exactly the linked ones:
\* deleting a node with two children moves another element, and an insertion that finds
\* its key gives its new node back.
KeepsDictionary ==
    AtRest =>
        LET linked == Reachable(tree)
        IN /\ Cardinality(linked) = Cardinality(DOMAIN dict)
           /\ \A n \in linked : tree.k[n] \in DOMAIN dict /\ tree.v[n] = dict[tree.k[n]]
           /\ allocated = linked
           /\ Running("return") => op.result = op.due

=============================================================================
