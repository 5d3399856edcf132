------------------------------- MODULE RbTree -------------------------------
(***************************************************************************)
(* xtyRbTree, the tree inside xtyMap.  A node is named by its key; the     *)
(* one sentinel, which stands for every leaf and for the parent of the     *)
(* root, is a node too, and Delete uses its m_pParent to remember where a  *)
(* leaf is to be fixed.  A step is a round of a fix-up loop, or what comes *)
(* before or after the loop; the callers hold their lock throughout.       *)
(*                                                                         *)
(* Whatever the code writes twice, once for each side, is written once     *)
(* here with the side as a parameter: Rotate(T, x, "left") is LeftRotate.  *)
(***************************************************************************)
EXTENDS Integers, Sequences, FiniteSets, SequencesExt

CONSTANT Keys

ASSUME KeysAssumption == Keys \subseteq Nat \ {0} /\ IsFiniteSet(Keys)

VARIABLES tree,         \* m_pRoot, and the fields of the nodes
          m_NodeCount,
          pc,           \* "idle", or which fix-up loop runs
          at            \* pNode of that loop

vars == <<tree, m_NodeCount, pc, at>>

Sentinel == 0
Null == -1
Nodes == Keys \union {Sentinel}
Sides == {"left", "right"}
Other(s) == IF s = "left" THEN "right" ELSE "left"

Kids(l, r) == [left |-> l, right |-> r]

\* The constructor, and what Clear leaves; the memory of dead nodes is not read.
Empty == [root   |-> Sentinel,
          kid    |-> [n \in Nodes |-> IF n = Sentinel THEN Kids(Sentinel, Sentinel)
                                                      ELSE Kids(Null, Null)],
          parent |-> [n \in Nodes |-> IF n = Sentinel THEN Sentinel ELSE Null],
          color  |-> [n \in Nodes |-> "black"]]

Init == tree = Empty /\ m_NodeCount = 0 /\ pc = "idle" /\ at = Sentinel

-----------------------------------------------------------------------------
(***************************************************************************)
(* Pointers                                                                *)
(***************************************************************************)
Toward(k, n) == IF n > k THEN "left" ELSE "right"

\* The nodes that are allocated.
Live(T) == {k \in Keys : T.parent[k] # Null}
Members(T) == Live(T) \union {Sentinel}

\* The node of k, or the sentinel where Search returns NULL.
Search(T, k) ==
    LET Find[n \in Members(T)] ==
          IF n \in {Sentinel, k} THEN n ELSE Find[T.kid[n][Toward(k, n)]]
    IN  Find[T.root]

\* From n down, at each node m to the side way[m], as far as there are nodes.
Down(T, n, way) ==
    LET End[m \in Members(T)] ==
          IF T.kid[m][way[m]] = Sentinel THEN m ELSE End[T.kid[m][way[m]]]
    IN  End[n]

\* Under which node Insert hangs a key that Search has not found.
Position(T, k) == Down(T, T.root, [n \in Nodes |-> Toward(k, n)])

\* LeftMost and RightMost.
Outermost(T, n, s) == Down(T, n, [m \in Nodes |-> s])

SideOf(T, n) == IF n = T.kid[T.parent[n]].left THEN "left" ELSE "right"

\* Mutant: a leaf forgets where it hangs.
TransPlantKey(T, old, new) ==
    LET p == T.parent[old]
        hung == IF p = Sentinel THEN [T EXCEPT !.root = new]
                                ELSE [T EXCEPT !.kid[p][SideOf(T, old)] = new]
    IN  IF new = Sentinel THEN hung ELSE [hung EXCEPT !.parent[new] = p]

\* new takes the place of old; a sentinel too gets a parent.
TransPlant(T, old, new) ==
    LET p == T.parent[old]
        hung == IF p = Sentinel THEN [T EXCEPT !.root = new]
                                ELSE [T EXCEPT !.kid[p][SideOf(T, old)] = new]
    IN  [hung EXCEPT !.parent[new] = p]

\* Mutant: the inner grandchild is dropped.
RotateDrops(T, x, s) ==
    LET y == T.kid[x][Other(s)]
        lower == [T EXCEPT !.kid[x][Other(s)] = Sentinel]
        upper == TransPlant(lower, x, y)
    IN  [upper EXCEPT !.kid[y][s] = x, !.parent[x] = y]

\* x goes down on side s, its child y on the other side comes up; the sentinel's
\* parent is left alone.
Rotate(T, x, s) ==
    LET y == T.kid[x][Other(s)]
        inner == T.kid[y][s]
        lower == [T EXCEPT !.kid[x][Other(s)] = inner,
                           !.parent = IF inner = Sentinel THEN @ ELSE [@ EXCEPT ![inner] = x]]
        upper == TransPlant(lower, x, y)
    IN  [upper EXCEPT !.kid[y][s] = x, !.parent[x] = y]

Dye(T, n, c) == [T EXCEPT !.color[n] = c]

-----------------------------------------------------------------------------
(***************************************************************************)
(* Insert                                                                  *)
(***************************************************************************)
\* A red leaf.  Insert of a key that is there returns its node, and changes
\* nothing.
Insert(k) ==
    LET p == Position(tree, k)
        leaf == [tree EXCEPT !.parent[k] = p, !.color[k] = "red",
                             !.kid[k] = Kids(Sentinel, Sentinel)]
    IN  /\ pc = "idle" /\ Search(tree, k) = Sentinel
        /\ tree' = IF p = Sentinel THEN [leaf EXCEPT !.root = k]
                                   ELSE [leaf EXCEPT !.kid[p][Toward(k, p)] = k]
        /\ pc' = "insert" /\ at' = k
        /\ UNCHANGED m_NodeCount

Parent == tree.parent[at]
Grand == tree.parent[Parent]
Uncle == tree.kid[Grand][Other(SideOf(tree, Parent))]
RedParent == pc = "insert" /\ tree.color[Parent] = "red"

\* Case 1: the grandparent gives its black to both its children.
InsertRecolor ==
    /\ RedParent /\ tree.color[Uncle] = "red"
    /\ tree' = Dye(Dye(Dye(tree, Parent, "black"), Uncle, "black"), Grand, "red")
    /\ at' = Grand
    /\ UNCHANGED <<m_NodeCount, pc>>

\* Case 3, after case 2 where pNode is the inner child.
InsertRotate ==
    LET s == SideOf(tree, Parent)
        inner == SideOf(tree, at) = Other(s)
        n == IF inner THEN Parent ELSE at
        T == IF inner THEN Rotate(tree, n, s) ELSE tree
        p == T.parent[n]
        g == T.parent[p]
    IN  /\ RedParent /\ tree.color[Uncle] = "black"
        /\ tree' = Rotate(Dye(Dye(T, p, "black"), g, "red"), g, Other(s))
        /\ at' = n
        /\ UNCHANGED <<m_NodeCount, pc>>

InsertEnd ==
    /\ pc = "insert" /\ ~RedParent
    /\ tree' = Dye(tree, tree.root, "black")
    /\ m_NodeCount' = m_NodeCount + 1
    /\ pc' = "idle" /\ at' = Sentinel

-----------------------------------------------------------------------------
(***************************************************************************)
(* Delete                                                                  *)
(***************************************************************************)
\* Mutant: the successor is taken for the right child.
SucceedShallow(d, r) ==
    LET fix == tree.kid[r].right
        freed == [tree EXCEPT !.parent[fix] = r]
        moved == TransPlant(freed, d, r)
        left == moved.kid[d].left
    IN  [moved EXCEPT !.kid[r].left = left, !.parent[left] = r,
                      !.color[r] = moved.color[d]]

\* Mutant: the left child keeps its parent.
SucceedHalf(d, r) ==
    LET fix == tree.kid[r].right
        out == TransPlant(tree, r, fix)
        right == tree.kid[d].right
        freed == IF tree.parent[r] = d
                 THEN [tree EXCEPT !.parent[fix] = r]
                 ELSE [out EXCEPT !.kid[r].right = right, !.parent[right] = r]
        moved == TransPlant(freed, d, r)
    IN  [moved EXCEPT !.kid[r].left = moved.kid[d].left, !.color[r] = moved.color[d]]

\* The tree without d, whose place goes to r, its successor (case 3); the node
\* whose black is lost is r's right child, or stands where r stood.
Succeed(d, r) ==
    LET fix == tree.kid[r].right
        out == TransPlant(tree, r, fix)
        right == tree.kid[d].right
        freed == IF tree.parent[r] = d
                 THEN [tree EXCEPT !.parent[fix] = r]
                 ELSE [out EXCEPT !.kid[r].right = right, !.parent[right] = r]
        moved == TransPlant(freed, d, r)
        left == moved.kid[d].left
    IN  [moved EXCEPT !.kid[r].left = left, !.parent[left] = r,
                      !.color[r] = moved.color[d]]

Forget(T, d) == [T EXCEPT !.kid[d] = Kids(Null, Null), !.parent[d] = Null, !.color[d] = "black"]

\* Delete of a key that is not there changes nothing.
Delete(k) ==
    LET kids == tree.kid[k]
        two == kids.left # Sentinel /\ kids.right # Sentinel
        r == IF two THEN Outermost(tree, kids.right, "left") ELSE k
        fix == IF kids.left # Sentinel /\ ~two THEN kids.left ELSE tree.kid[r].right
        T == IF two THEN Succeed(k, r) ELSE TransPlant(tree, k, fix)
        black == tree.color[r] = "black"
    IN  /\ pc = "idle" /\ Search(tree, k) = k
        /\ tree' = Forget(T, k)
        /\ pc' = IF black THEN "delete" ELSE "idle"
        /\ at' = IF black THEN fix ELSE Sentinel
        /\ m_NodeCount' = IF black THEN m_NodeCount ELSE m_NodeCount - 1

DoublyBlack == pc = "delete" /\ at # tree.root /\ tree.color[at] = "black"

Side == SideOf(tree, at)

\* Case 1: a red sibling is rotated up, so that the sibling is black.
WithBlackSibling ==
    LET b == tree.kid[Parent][Other(Side)] IN
    IF tree.color[b] = "red"
    THEN Rotate(Dye(Dye(tree, b, "black"), Parent, "red"), Parent, Side)
    ELSE tree

BlackKids(T, n) == \A s \in Sides : T.color[T.kid[n][s]] = "black"

\* Mutant: pNode stays where it is.
DeletePushStays ==
    LET T == WithBlackSibling
        b == T.kid[T.parent[at]][Other(Side)]
    IN  /\ DoublyBlack /\ BlackKids(T, b)
        /\ tree' = Dye(T, b, "red")
        /\ UNCHANGED <<at, m_NodeCount, pc>>

\* Case 2: a black is taken off both children and goes to the parent.
DeletePush ==
    LET T == WithBlackSibling
        b == T.kid[T.parent[at]][Other(Side)]
    IN  /\ DoublyBlack /\ BlackKids(T, b)
        /\ tree' = Dye(T, b, "red")
        /\ at' = T.parent[at]
        /\ UNCHANGED <<m_NodeCount, pc>>

\* Mutant: case 4 without case 3.
DeleteRotateOnce ==
    LET s == Side
        o == Other(s)
        T == WithBlackSibling
        p == T.parent[at]
        b == T.kid[p][o]
        dyed == Dye(Dye(Dye(T, b, T.color[p]), p, "black"), T.kid[b][o], "black")
    IN  /\ DoublyBlack /\ ~BlackKids(T, b)
        /\ tree' = Rotate(dyed, p, s)
        /\ at' = tree'.root
        /\ UNCHANGED <<m_NodeCount, pc>>

\* Case 4, after case 3 where the outer child of the sibling is black.
DeleteRotate ==
    LET s == Side
        o == Other(s)
        T == WithBlackSibling
        p == T.parent[at]
        b == T.kid[p][o]
        turned == Rotate(Dye(Dye(T, T.kid[b][s], "black"), b, "red"), b, o)
        T2 == IF T.color[T.kid[b][o]] = "black" THEN turned ELSE T
        c == T2.kid[p][o]
        dyed == Dye(Dye(Dye(T2, c, T2.color[p]), p, "black"), T2.kid[c][o], "black")
    IN  /\ DoublyBlack /\ ~BlackKids(T, b)
        /\ tree' = Rotate(dyed, p, s)
        /\ at' = tree'.root
        /\ UNCHANGED <<m_NodeCount, pc>>

DeleteEnd ==
    /\ pc = "delete" /\ ~DoublyBlack
    /\ tree' = [Dye(tree, at, "black") EXCEPT !.parent[Sentinel] = Sentinel]
    /\ m_NodeCount' = m_NodeCount - 1
    /\ pc' = "idle" /\ at' = Sentinel

Clear ==
    /\ pc = "idle"
    /\ tree' = Empty /\ m_NodeCount' = 0
    /\ UNCHANGED <<pc, at>>

-----------------------------------------------------------------------------
\* The two loops, each for both sides.
InsertFixUp == InsertRecolor \/ InsertRotate \/ InsertEnd
DeleteFixUp == DeletePush \/ DeleteRotate \/ DeleteEnd

FixUp == InsertFixUp \/ DeleteFixUp

Next == FixUp \/ Clear \/ \E k \in Keys : Insert(k) \/ Delete(k)

Spec == Init /\ [][Next]_vars

-----------------------------------------------------------------------------
(***************************************************************************)
(* Iterators                                                               *)
(***************************************************************************)
\* ++ is s = "right", -- is s = "left".
Advance(T, n, s) ==
    LET Climb[m \in Live(T)] ==
          LET p == T.parent[m] IN
          IF p # Sentinel /\ m = T.kid[p][s] THEN Climb[p] ELSE m
        top == Climb[n]
        p == T.parent[top]
    IN  IF T.kid[n][s] # Sentinel THEN Outermost(T, T.kid[n][s], Other(s))
        ELSE IF p # Sentinel /\ top # T.kid[p][Other(s)] THEN top
        ELSE p

\* From Begin, or ReverseBegin, to End.
Visited(s) ==
    LET From[n \in Members(tree)] ==
          IF n = Sentinel THEN << >> ELSE <<n>> \o From[Advance(tree, n, s)]
    IN  From[Outermost(tree, tree.root, Other(s))]

\* NonRecursiveVisit: the nodes it shows, layer by layer.
Layers ==
    LET Below(layer) == {tree.kid[n][s] : n \in layer, s \in Sides} \ {Sentinel}
        From[layer \in SUBSET Live(tree)] ==
          IF layer = {} THEN << >> ELSE <<layer>> \o From[Below(layer)]
    IN  From[{tree.root} \ {Sentinel}]

-----------------------------------------------------------------------------
(***************************************************************************)
(* Properties                                                              *)
(***************************************************************************)
\* The nodes that are in the tree.
Elements ==
    LET Under[n \in Members(tree)] ==
          IF n = Sentinel THEN {}
          ELSE {n} \union Under[tree.kid[n].left] \union Under[tree.kid[n].right]
    IN  Under[tree.root]

Pointers == Nodes \union {Null}

Trees == [root : Nodes, kid : [Nodes -> [left : Pointers, right : Pointers]],
          parent : [Nodes -> Pointers], color : [Nodes -> {"red", "black"}]]

\* The tree reaches the allocated nodes and no others, and nothing in it points to
\* a node that has been deleted; parents and children agree about each other.
TypeOK ==
    /\ tree \in Trees
    /\ pc \in {"idle", "insert", "delete"} /\ at \in Nodes
    /\ m_NodeCount \in 0 .. Cardinality(Keys)
    /\ Elements = Live(tree)
    /\ tree.root # Sentinel => tree.parent[tree.root] = Sentinel
    /\ \A n \in Elements, s \in Sides :
          tree.kid[n][s] # Sentinel => tree.parent[tree.kid[n][s]] = n

\* The black that a node that is being fixed counts for twice: at is a child of p
\* on side s.
Extra(p, s) ==
    IF pc = "delete" /\ tree.kid[p][s] = at /\ tree.parent[at] = p /\ Side = s THEN 1 ELSE 0

\* How many blacks the paths from a node have.
BlackCounts ==
    LET Count[n \in Members(tree)] ==
          IF n = Sentinel THEN {0}
          ELSE {c + (IF tree.color[n] = "black" THEN 1 ELSE 0) :
                  c \in UNION {{b + Extra(n, s) : b \in Count[tree.kid[n][s]]} : s \in Sides}}
    IN  Count[tree.root]

\* Between calls no red node has a red parent, the root is black, and every path
\* has as many blacks as any other.  In the loops only pNode may be at odds.
RedBlack ==
    /\ \A n \in Elements :
          tree.color[n] = "red" /\ (n = tree.root \/ tree.color[tree.parent[n]] = "red") =>
              \/ pc # "idle" /\ n = at
              \/ pc = "delete" /\ tree.parent[n] = at
    /\ Cardinality(BlackCounts) = 1

\* The sentinel stays a black leaf, and its m_pParent, which Delete does not
\* always reset, is between calls never a node that has been deleted; in the loop
\* of DeleteFixUp it is the node under which the missing leaf hangs.
SentinelIsSound ==
    /\ tree.color[Sentinel] = "black"
    /\ tree.kid[Sentinel] = Kids(Sentinel, Sentinel)
    /\ pc # "delete" => tree.parent[Sentinel] \in Elements \union {Sentinel}
    /\ DoublyBlack /\ at = Sentinel =>
          Parent # Sentinel /\ \E s \in Sides : tree.kid[Parent][s] = Sentinel

IteratorsVisitAll ==
    LET up == Visited("right") IN
    /\ ToSet(up) = Elements
    /\ \A i \in 1 .. Len(up) - 1 : up[i] < up[i + 1]
    /\ Visited("left") = Reverse(up)
    /\ pc = "idle" => Len(up) = m_NodeCount

LayersShowAll ==
    LET shown == Layers IN
    /\ UNION ToSet(shown) = Live(tree)
    /\ \A i, j \in DOMAIN shown : i # j => shown[i] \intersect shown[j] = {}

\* Iterators visit all keys in order, forwards and backwards, also in between the
\* rounds of a fix-up, and the layered visit each of them once; between calls they
\* are as many as Size says, in at most 2 * log2(Size + 1) layers.
VisitsAreComplete ==
    /\ IteratorsVisitAll /\ LayersShowAll
    /\ pc = "idle" => 2 ^ Len(Layers) <= (m_NodeCount + 1) ^ 2

\* How far a node is below the root.
Depth(n) ==
    LET Up[m \in Members(tree)] == IF tree.parent[m] = Sentinel THEN 0 ELSE 1 + Up[tree.parent[m]]
    IN  Up[n]

\* Both fix-up loops end: a round brings pNode nearer to the root, or is the last.
FixUpClimbs ==
    [][pc # "idle" /\ pc' = pc => Depth(at)' < Depth(at) \/ ~(RedParent \/ DoublyBlack)']_vars
=============================================================================
