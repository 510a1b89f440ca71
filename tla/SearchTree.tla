----------------------------- MODULE SearchTree -----------------------------
(***************************************************************************)
(* tree/searchTree.cpp: CBinarySearchTree as it is written, on a heap of   *)
(* nodes.  insert follows left links only and hangs a larger key on the    *)
(* left, so the trees it builds are not search trees; the other functions  *)
(* work on what it built.                                                  *)
(*                                                                         *)
(* The header uses STSearchTreeNode before its typedef and does not        *)
(* compile; the name is taken for the structure it is in.  createNode ends *)
(* without a return: its caller gets the node or a null pointer.           *)
(***************************************************************************)
EXTENDS Integers, SequencesExt, FiniteSets

CONSTANTS
    Nodes,      \* the memory there is for nodes
    Keys        \* keys that callers insert, delete and look for

NoNode == 0

ASSUME NodesAssumption == Nodes \subseteq Nat \ {NoNode}
ASSUME KeysAssumption  == Keys \subseteq Int /\ Keys # {}

VARIABLES
    node,       \* STSearchTreeNode of every address
    used,       \* addresses that are allocated
    m_pRoot,
    m_nLen,
    status      \* "ok", "null": a null pointer was read, "overrun": the walk
                \* wrote past its array, or "gone": the tree was destroyed

treeVars == <<node, used, m_pRoot, m_nLen, status>>

Blank(key) == [key |-> key, parent |-> NoNode, left |-> NoNode, right |-> NoNode]

TreeInit ==
    /\ node = [n \in Nodes |-> Blank(CHOOSE k \in Keys : TRUE)]
    /\ used = {} /\ m_pRoot = NoNode /\ m_nLen = 0 /\ status = "ok"

-----------------------------------------------------------------------------
(* Where the walks end.                                                     *)

LeftEnd(n) ==
    LET go[m \in Nodes] == IF node[m].left = NoNode THEN m ELSE go[node[m].left] IN go[n]
RightEnd(n) ==
    LET go[m \in Nodes] == IF node[m].right = NoNode THEN m ELSE go[node[m].right] IN go[n]

search(key) ==
    LET go[n \in Nodes \cup {NoNode}] ==
          IF n = NoNode THEN NoNode
          ELSE IF node[n].key = key THEN n
          ELSE go[IF node[n].key > key THEN node[n].left ELSE node[n].right]
    IN  go[m_pRoot]

\* The lowest ancestor of n that n is not on the right (left) side of.
UpFromRight(n) ==
    LET go[m \in Nodes] ==
          LET y == node[m].parent IN IF y # NoNode /\ node[y].right = m THEN go[y] ELSE y
    IN  go[n]
UpFromLeft(n) ==
    LET go[m \in Nodes] ==
          LET y == node[m].parent IN IF y # NoNode /\ node[y].left = m THEN go[y] ELSE y
    IN  go[n]

treeSuccessor(key) ==
    LET n == search(key) IN
    IF n = NoNode THEN NoNode
    ELSE IF node[n].right # NoNode THEN LeftEnd(node[n].right) ELSE UpFromRight(n)

\* Slip: the left child itself, not the right end of its subtree.
PreDecessorIsChild(key) ==
    LET n == search(key) IN
    IF n = NoNode THEN NoNode
    ELSE IF node[n].left # NoNode THEN node[n].left ELSE UpFromLeft(n)

treePreDecessor(key) ==
    LET n == search(key) IN
    IF n = NoNode THEN NoNode
    ELSE IF node[n].left # NoNode THEN RightEnd(node[n].left) ELSE UpFromLeft(n)

\* The order in which inorder_tree_walk writes the nodes below n: n first.
WalkFrom(n) ==
    LET go[m \in Nodes \cup {NoNode}] ==
          IF m = NoNode THEN <<>> ELSE <<m>> \o go[node[m].left] \o go[node[m].right]
    IN  go[n]

-----------------------------------------------------------------------------
(* Changes.                                                                 *)

Room == Nodes \ used
FreshNode == CHOOSE n \in Room : \A m \in Room : n <= m

\* Where a new key hangs under p.
Side(p, key) == IF node[p].key < key THEN "left" ELSE "right"

insert(n, key) ==
    IF m_pRoot = NoNode
    THEN /\ m_pRoot' = n /\ m_nLen' = m_nLen + 1
         /\ node' = [node EXCEPT ![n] = Blank(key)]
    ELSE LET p == LeftEnd(m_pRoot) IN
         /\ node' = [node EXCEPT ![n] = [Blank(key) EXCEPT !.parent = p],
                                 ![p] = [@ EXCEPT ![Side(p, key)] = n]]
         /\ UNCHANGED <<m_pRoot, m_nLen>>

\* createNode's node, or the null pointer that leaves it to nobody.
insertNode(key) ==
    /\ status = "ok" /\ Room # {}
    /\ used' = used \cup {FreshNode}
    /\ \/ insert(FreshNode, key)
       \/ node' = [node EXCEPT ![FreshNode] = Blank(key)] /\ UNCHANGED <<m_pRoot, m_nLen>>
    /\ UNCHANGED status

\* Slip: v keeps its old parent.
TransplantHalf(t, u, v) ==
    LET p    == t.node[u].parent
        side == IF t.node[p].left = u THEN "left" ELSE "right"
    IN  IF p = NoNode THEN [t EXCEPT !.root = v]
        ELSE [t EXCEPT !.node[p] = [@ EXCEPT ![side] = v]]

\* The heap t = [node, root] after transplant(u, v).
transplant(t, u, v) ==
    LET p    == t.node[u].parent
        side == IF t.node[p].left = u THEN "left" ELSE "right"
        hung == IF p = NoNode THEN [t EXCEPT !.root = v]
                ELSE [t EXCEPT !.node[p] = [@ EXCEPT ![side] = v]]
    IN  IF v = NoNode THEN hung ELSE [hung EXCEPT !.node[v].parent = p]

\* y takes the children of x on one side.
Adopt(t, y, x, side) ==
    LET c == t.node[x][side] IN
    [t EXCEPT !.node[y] = [@ EXCEPT ![side] = c], !.node[c].parent = y]

\* Slip: the left subtree of x is forgotten.
RemovedLosesLeft(x) ==
    transplant([node |-> node, root |-> m_pRoot], x,
               IF node[x].right = NoNode THEN node[x].left ELSE node[x].right)

Removed(x) ==
    LET t == [node |-> node, root |-> m_pRoot]
        y == treeSuccessor(node[x].key)
        u == IF node[y].parent = x THEN t
             ELSE Adopt(transplant(t, y, node[y].right), y, x, "right")
    IN  IF node[x].left = NoNode THEN transplant(t, x, node[x].right)
        ELSE IF node[x].right = NoNode THEN transplant(t, x, node[x].left)
        ELSE Adopt(transplant(u, x, y), y, x, "left")

\* The node is neither freed nor taken off m_nLen.
deleteNode(key) ==
    /\ status = "ok" /\ search(key) # NoNode
    /\ LET t == Removed(search(key)) IN node' = t.node /\ m_pRoot' = t.root
    /\ UNCHANGED <<used, m_nLen, status>>

Fails(how) == status' = how /\ UNCHANGED <<node, used, m_pRoot, m_nLen>>

\* key = pNode->left->key, where pNode->left is what ended the loop.
minKey == status = "ok" /\ m_pRoot # NoNode /\ Fails("null")
maxKey == status = "ok" /\ m_pRoot # NoNode /\ Fails("null")

\* An array of m_nLen keys is made and every node written to it.
inorder_tree_walk ==
    /\ status = "ok" /\ Len(WalkFrom(m_pRoot)) > m_nLen
    /\ Fails("overrun")

\* The destructor frees the root alone.
Destroy ==
    /\ status = "ok"
    /\ used' = used \ {m_pRoot} /\ m_pRoot' = NoNode /\ m_nLen' = 0 /\ status' = "gone"
    /\ UNCHANGED node

TreeNext ==
    \/ \E key \in Keys : insertNode(key) \/ deleteNode(key)
    \/ minKey \/ maxKey \/ inorder_tree_walk \/ Destroy

TreeSpec == TreeInit /\ [][TreeNext]_treeVars

-----------------------------------------------------------------------------

TreeTypeOK ==
    /\ node \in [Nodes -> [key : Keys, parent : Nodes \cup {NoNode},
                           left : Nodes \cup {NoNode}, right : Nodes \cup {NoNode}]]
    /\ used \subseteq Nodes /\ m_pRoot \in used \cup {NoNode} /\ m_nLen \in Nat
    /\ status \in {"ok", "null", "overrun", "gone"}

\* The nodes of the tree from left to right.
InOrder ==
    LET go[m \in Nodes \cup {NoNode}] ==
          IF m = NoNode THEN <<>> ELSE go[node[m].left] \o <<m>> \o go[node[m].right]
    IN  go[m_pRoot]

(* The links make a tree: no node is met twice, every child's parent link   *)
(* leads back to its parent, the root has none, and no node of it is free.  *)
(* Through every order of insertions, which overwrite children and lose     *)
(* nodes, and of deletions, which leave links in the nodes they take out.   *)
LinksExact ==
    /\ TreeTypeOK
    /\ LET s == WalkFrom(m_pRoot) IN
         /\ IsInjective(s) /\ Range(s) \subseteq used
         /\ \A n \in Range(s) :
              /\ n = m_pRoot <=> node[n].parent = NoNode
              /\ \A c \in {node[n].left, node[n].right} \ {NoNode} : node[c].parent = n

(* A call changes the tree in one place: insertNode adds one node, or puts  *)
(* it where one node was (which is lost); deleteNode takes out the node it  *)
(* found and no other.  All else stays, in its order.                       *)
ChangesOnce ==
    [][LET a == InOrder
           b == InOrder'
       IN  status' = "ok" /\ a # b =>
             IF used' = used
             THEN \E k \in 1 .. Len(a) : a[k] = m_pRoot /\ b = RemoveAt(a, k)
             ELSE \E k \in 1 .. Len(b) :
                    \/ a = RemoveAt(b, k)
                    \/ Len(a) = Len(b) /\ RemoveAt(a, k) = RemoveAt(b, k)]_treeVars

(* The successor and the predecessor of a key that search finds are the    *)
(* nodes next to it from left to right, or none at the ends of the tree,    *)
(* after every order of insertions and deletions.                           *)
Neighbours ==
    \A key \in Keys : search(key) # NoNode =>
        \E k \in 1 .. Len(InOrder) :
            LET at(j) == IF j \in 1 .. Len(InOrder) THEN InOrder[j] ELSE NoNode IN
            /\ InOrder[k] = search(key)
            /\ treeSuccessor(key) = at(k + 1) /\ treePreDecessor(key) = at(k - 1)

(* search finds the key of every node of the tree, as searchTree.h says of  *)
(* it.  The code does not keep this: insert goes left whatever the key is,  *)
(* and hangs the larger key on the left, where search does not go for it.   *)
Findable ==
    \A n \in Range(WalkFrom(m_pRoot)) : search(node[n].key) # NoNode
=============================================================================
