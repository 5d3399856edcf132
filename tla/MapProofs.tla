----------------------------- MODULE MapProofs ------------------------------
(***************************************************************************)
(* The red-black tree and the map over it, for any finite set of keys: in  *)
(* every round of the fix-ups the nodes are linked as a tree, in order,    *)
(* with the blacks balanced; and the map does what a dictionary does.      *)
(*                                                                         *)
(* What is recursive in the tree is turned into what can be said of each   *)
(* node by itself: u[n] stands for the set of the nodes from n down, b[n]  *)
(* for the number of blacks on each path from n down.                      *)
(***************************************************************************)
EXTENDS Map, SequenceTheorems, FiniteSetTheorems, WellFoundedInduction, TLAPS

\* The fields of the nodes of T.
Kid(T, n, s) == T.kid[n][s]
Par(T, n) == T.parent[n]
Root(T) == T.root

-----------------------------------------------------------------------------
(***************************************************************************)
(* The links                                                               *)
(***************************************************************************)
\* How a node hangs together with its parent and its children.
LinksOf(T, n) ==
    /\ Par(T, n) \in Members(T)
    /\ Par(T, n) = Sentinel => n = Root(T)
    /\ Par(T, n) # Sentinel => Kid(T, Par(T, n), SideOf(T, n)) = n
    /\ \A s \in Sides :
          /\ Kid(T, n, s) \in Members(T)
          /\ Kid(T, n, s) # Sentinel => Par(T, Kid(T, n, s)) = n

\* What is under a node, and in which order.
OrderOf(T, u, n) ==
    /\ u[n] = {n} \union u[Kid(T, n, "left")] \union u[Kid(T, n, "right")]
    /\ \A s \in Sides : \A m \in u[Kid(T, n, s)] : m # n /\ Toward(m, n) = s

\* u[n] is n and all that is under n, and nothing is elsewhere.
Shape(T, u) ==
    /\ T \in Trees
    /\ u \in [Nodes -> SUBSET Live(T)] /\ u[Sentinel] = {}
    /\ Root(T) \in Members(T) /\ u[Root(T)] = Live(T)
    /\ Root(T) # Sentinel => Par(T, Root(T)) = Sentinel
    /\ Par(T, Sentinel) \in Nodes
    /\ \A s \in Sides : Kid(T, Sentinel, s) = Sentinel
    /\ \A n \in Live(T) : LinksOf(T, n) /\ OrderOf(T, u, n)

LEMMA Names ==
    /\ Sentinel \notin Keys /\ Null \notin Nodes /\ Sentinel \in Nodes
    /\ Keys \subseteq Nat /\ IsFiniteSet(Keys) /\ Nodes = Keys \union {Sentinel}
    /\ \A n \in Keys : n \in Nat /\ n \in Nodes /\ n # Sentinel
BY KeysAssumption DEF Sentinel, Null, Nodes

LEMMA SidesAre ==
    /\ "left" \in Sides /\ "right" \in Sides /\ "left" # "right"
    /\ \A s \in Sides : s = "left" \/ s = "right"
    /\ \A s \in Sides : Other(s) \in Sides /\ Other(s) # s /\ Other(Other(s)) = s
    /\ \A s, t \in Sides : t = s \/ t = Other(s)
BY DEF Sides, Other

LEMMA LiveAre ==
    ASSUME NEW T
    PROVE  /\ Live(T) \subseteq Keys /\ Sentinel \notin Live(T)
           /\ Members(T) = Live(T) \union {Sentinel} /\ Members(T) \subseteq Nodes
           /\ \A n \in Keys : n \in Live(T) <=> Par(T, n) # Null
           /\ \A n \in Members(T) : n \in Live(T) <=> n # Sentinel
BY Names DEF Live, Members, Par

LEMMA TowardIs ==
    ASSUME NEW m \in Keys, NEW n \in Keys
    PROVE  /\ Toward(m, n) \in Sides
           /\ m # n => Toward(n, m) = Other(Toward(m, n))
BY Names DEF Toward, Sides, Other

\* The sides are an order: what lies on a side of a node lies there, too, for all nodes
\* on the other side of it.
LEMMA TowardTransitive ==
    ASSUME NEW a \in Keys, NEW x \in Keys, NEW y \in Keys, NEW s \in Sides,
           a # x, Toward(a, x) = s, x # y, Toward(x, y) = s
    PROVE  a # y /\ Toward(a, y) = s
BY Names DEF Toward, Sides

\* Of the nodes that have something, one has no child that has it too.
LEMMA Lowest ==
    ASSUME NEW T, NEW u, Shape(T, u), NEW B \in SUBSET Live(T), B # {}
    PROVE  \E n \in B : \A s \in Sides : Kid(T, n, s) \notin B
<1> DEFINE size(n) == Cardinality(u[n])
           Z == {size(n) : n \in B}
<1>0. \A n \in Live(T) : n \in Nodes /\ n \in Keys
  BY LiveAre, Names
<1>1. \A n \in Nodes : IsFiniteSet(u[n]) /\ size(n) \in Nat
  <2>1. IsFiniteSet(Live(T))
    BY Names, LiveAre, FS_Subset
  <2>2. \A n \in Nodes : IsFiniteSet(u[n])
    BY <2>1, FS_Subset DEF Shape
  <2> QED BY <2>2, FS_CardinalityType
<1>2. Z \subseteq Nat /\ Z # {}
  BY <1>0, <1>1
<1>3. PICK x \in Z : \A y \in Z : ~(<<y, x>> \in OpToRel(<, Nat))
  BY <1>2, NatLessThanWellFounded, WFMin
<1>4. PICK n \in B : x = size(n)
  OBVIOUS
<1>5. ASSUME NEW s \in Sides, Kid(T, n, s) \in B PROVE FALSE
  <2> DEFINE c == Kid(T, n, s)
  <2>1. n \in Live(T) /\ c \in Live(T) /\ OrderOf(T, u, n)
    BY <1>5 DEF Shape
  <2>2. u[c] \subseteq u[n] /\ n \in u[n] /\ n \notin u[c]
    BY <2>1, SidesAre DEF OrderOf
  <2>3. size(c) <= size(n) /\ size(c) # size(n)
    BY <1>0, <1>1, <2>1, <2>2, FS_Subset
  <2>4. ~(size(c) < size(n))
    <3>1. size(c) \in Z /\ size(n) \in Z
      BY <1>5
    <3> QED BY <1>2, <1>3, <1>4, <3>1 DEF OpToRel
  <2> QED BY <1>0, <1>1, <2>1, <2>3, <2>4
<1> QED BY <1>5

\* A node and what is under it.
LEMMA Under ==
    ASSUME NEW T, NEW u, Shape(T, u), NEW n \in Live(T)
    PROVE  /\ n \in u[n] /\ u[n] \subseteq Live(T)
           /\ \A s \in Sides : /\ Kid(T, n, s) \in Members(T)
                               /\ u[Kid(T, n, s)] \subseteq u[n] /\ n \notin u[Kid(T, n, s)]
                               /\ \A m \in u[Kid(T, n, s)] :
                                     m \in Live(T) /\ Toward(m, n) = s
                                     /\ m \notin u[Kid(T, n, Other(s))]
           /\ \A m \in u[n] : m # n => m \in u[Kid(T, n, Toward(m, n))]
           /\ \A s \in Sides : Kid(T, n, s) = Sentinel => u[Kid(T, n, s)] = {}
           /\ \A s \in Sides : Kid(T, n, s) # Sentinel =>
                 Kid(T, n, s) \in Live(T) /\ Kid(T, n, s) \in u[Kid(T, n, s)]
<1>1. LinksOf(T, n) /\ OrderOf(T, u, n)
  BY DEF Shape
<1>2. \A m \in Nodes : u[m] \subseteq Live(T)
  BY DEF Shape
<1>3. \A s \in Sides : Kid(T, n, s) \in Members(T)
  BY <1>1 DEF LinksOf
<1>4. \A s \in Sides : Kid(T, n, s) # Sentinel => Kid(T, n, s) \in Live(T) /\ OrderOf(T, u, Kid(T, n, s))
  BY <1>3, LiveAre DEF Shape
<1>5. n \in Nodes /\ \A s \in Sides : Kid(T, n, s) \in Nodes
  BY <1>3, LiveAre, Names
<1>6. \A s \in Sides : Kid(T, n, s) = Sentinel => u[Kid(T, n, s)] = {}
  BY DEF Shape
<1>7. \A s \in Sides : Kid(T, n, s) # Sentinel => Kid(T, n, s) \in u[Kid(T, n, s)]
  BY <1>4 DEF OrderOf
<1>8. \A s \in Sides : Other(s) \in Sides /\ Other(s) # s
  BY SidesAre
<1>9. \A m \in u[n] : m # n => m \in u[Kid(T, n, Toward(m, n))]
  BY <1>1, SidesAre DEF OrderOf
<1>10. n \in u[n] /\ \A s \in Sides : u[Kid(T, n, s)] \subseteq u[n]
  BY <1>1, SidesAre DEF OrderOf
<1> QED BY <1>1, <1>2, <1>3, <1>4, <1>5, <1>6, <1>7, <1>8, <1>9, <1>10 DEF OrderOf

LEMMA Nested ==
    ASSUME NEW T, NEW u, Shape(T, u), NEW n \in Live(T), NEW m \in u[n]
    PROVE  /\ u[m] \subseteq u[n]
           /\ m # n => Par(T, m) \in u[n]
<1> DEFINE Good(k, l) == u[l] \subseteq u[k] /\ (l # k => Par(T, l) \in u[k])
           B == {k \in Live(T) : \E l \in u[k] : ~Good(k, l)}
<1>1. ASSUME NEW k \in B, \A s \in Sides : Kid(T, k, s) \notin B PROVE FALSE
  <2>1. PICK l \in u[k] : ~Good(k, l)
    OBVIOUS
  <2>2. k \in Live(T) /\ l # k
    BY <2>1
  <2> DEFINE s == Toward(l, k)
             c == Kid(T, k, s)
  <2>3. l \in Live(T) /\ l \in u[c]
    BY <2>1, <2>2, Under
  <2>4. s \in Sides
    BY <2>2, <2>3, TowardIs, LiveAre
  <2>5. c # Sentinel /\ c \in Live(T) /\ u[c] \subseteq u[k] /\ k \in u[k]
    BY <2>2, <2>3, <2>4, Under
  <2>6. Good(c, l)
    BY <1>1, <2>3, <2>4, <2>5
  <2>7. Par(T, c) = k
    BY <2>2, <2>4, <2>5 DEF Shape, LinksOf
  <2> HIDE DEF s, c
  <2> QED BY <2>1, <2>5, <2>6, <2>7
<1>2. B = {}
  <2>1. B \in SUBSET Live(T)
    OBVIOUS
  <2> HIDE DEF B
  <2> QED BY <1>1, <2>1, Lowest
<1> QED BY <1>2

-----------------------------------------------------------------------------
(***************************************************************************)
(* The walks                                                               *)
(***************************************************************************)
\* Search finds the node of a key, whenever there is one.
LEMMA SearchFinds ==
    ASSUME NEW T, NEW u, Shape(T, u), NEW k \in Keys
    PROVE  Search(T, k) = IF k \in Live(T) THEN k ELSE Sentinel
<1> DEFINE Onward(n) == Kid(T, n, Toward(k, n))
           IsFound(f) == f = [n \in Members(T) |-> IF n \in {Sentinel, k} THEN n ELSE f[Onward(n)]]
           F == CHOOSE f : IsFound(f)
           g == [n \in Members(T) |-> IF n # Sentinel /\ k \in u[n] THEN k ELSE Sentinel]
<1>1. ASSUME NEW n \in Live(T), n # k
      PROVE  Onward(n) \in Members(T) /\ (k \in u[n] <=> k \in u[Onward(n)])
  BY <1>1, Under, TowardIs, LiveAre
<1>2. k \in Live(T) => k \in u[k]
  BY Under
<1>3. \A n \in Members(T) : n = Sentinel \/ n \in Live(T)
  BY LiveAre
<1>4. k # Sentinel /\ u[Sentinel] = {}
  BY Names DEF Shape
<1>5. ASSUME NEW n \in Members(T), n \notin {Sentinel, k} PROVE g[n] = g[Onward(n)]
  BY <1>1, <1>3, <1>4, <1>5
<1>6. \A n \in Members(T) : n \in {Sentinel, k} => g[n] = n
  BY <1>2, <1>3, <1>4
<1>7. IsFound(g)
  BY <1>5, <1>6
<1>8. IsFound(F)
  BY <1>7
<1>9. Search(T, k) = F[Root(T)]
  BY Zenon DEF Search, Kid, Root
<1>10. \A n \in Members(T) : F[n] = IF n \in {Sentinel, k} THEN n ELSE F[Onward(n)]
  BY <1>8
<1>11. ASSUME NEW n \in Members(T), n \in {Sentinel, k} PROVE F[n] = g[n]
  BY <1>6, <1>10, <1>11
<1> DEFINE B == {n \in Live(T) : F[n] # g[n]}
<1>12. ASSUME NEW n \in B, \A s \in Sides : Kid(T, n, s) \notin B PROVE FALSE
  <2>1. n \in Members(T) /\ n \notin {Sentinel, k} /\ n \in Live(T)
    BY <1>11, LiveAre
  <2>2. Onward(n) \in Members(T) /\ Onward(n) \notin B
    BY <1>1, <1>12, <2>1, TowardIs, LiveAre
  <2>3. F[Onward(n)] = g[Onward(n)]
    BY <1>3, <1>11, <2>2
  <2>4. F[n] = g[n]
    BY <1>5, <1>10, <2>1, <2>3
  <2> QED BY <2>4
<1>13. B = {}
  <2>1. B \in SUBSET Live(T)
    OBVIOUS
  <2> HIDE DEF B
  <2> QED BY <1>12, <2>1, Lowest
<1>14. F[Root(T)] = g[Root(T)]
  BY <1>3, <1>11, <1>13 DEF Shape
<1>15. g[Root(T)] = IF k \in Live(T) THEN k ELSE Sentinel
  BY <1>3, <1>4 DEF Shape
<1> QED BY <1>9, <1>14, <1>15

\* Where the walk down from n ends: under n, where there is nothing on its side, having
\* gone from each node on its way to the side it was to go to.
Ends(T, u, n, way, p) ==
    /\ p \in u[n] /\ Kid(T, p, way[p]) = Sentinel
    /\ \A m \in u[n], s \in Sides : p \in u[Kid(T, m, s)] => s = way[m]

LEMMA DownEnds ==
    ASSUME NEW T, NEW u, Shape(T, u), NEW n \in Live(T), NEW way \in [Nodes -> Sides]
    PROVE  Ends(T, u, n, way, Down(T, n, way))
<1> DEFINE Onward(m) == Kid(T, m, way[m])
           IsDown(f) == f = [m \in Members(T) |-> IF Onward(m) = Sentinel THEN m ELSE f[Onward(m)]]
           F == CHOOSE f : IsDown(f)
           E(m, p) == Ends(T, u, m, way, p)
<1>0. \A m \in Members(T) : way[m] \in Sides
  BY LiveAre
<1>1. ASSUME NEW m \in Live(T), Onward(m) = Sentinel, NEW p PROVE E(m, p) <=> p = m
  <2>1. p \in u[m] /\ p # m => p \in u[Kid(T, m, Toward(p, m))] /\ Toward(p, m) \in Sides
    BY Under, TowardIs, LiveAre
  <2>2. p \in u[m] /\ p # m /\ E(m, p) => Toward(p, m) = way[m]
    BY <2>1, Under DEF Ends
  <2>3. u[Onward(m)] = {}
    BY <1>0, <1>1, Under, LiveAre
  <2>4. E(m, p) => p = m
    BY <2>1, <2>2, <2>3 DEF Ends
  <2>5. ASSUME NEW k \in u[m], NEW s \in Sides, m \in u[Kid(T, k, s)] PROVE FALSE
    <3>1. k \in Live(T) /\ u[k] \subseteq u[m] /\ k # m
      BY <2>5, Under, Nested
    <3>2. m \in u[k] /\ u[m] \subseteq u[k]
      BY <2>5, <3>1, Under, Nested
    <3>3. k \in u[Kid(T, k, s)]
      <4>1. Kid(T, k, s) \in Live(T)
        BY <2>5, <3>1, Under
      <4>2. u[m] \subseteq u[Kid(T, k, s)]
        BY <2>5, <4>1, Nested
      <4> QED BY <4>2
    <3> QED BY <3>1, <3>3, Under
  <2>6. E(m, m)
    BY <1>1, <2>5, Under DEF Ends
  <2> QED BY <2>4, <2>6
<1>2. ASSUME NEW m \in Live(T), Onward(m) # Sentinel, NEW p PROVE E(m, p) <=> E(Onward(m), p)
  <2> DEFINE c == Onward(m)
  <2>1. c \in Live(T) /\ u[c] \subseteq u[m] /\ way[m] \in Sides
    BY <1>0, <1>2, Under, LiveAre
  <2>2. ASSUME E(m, p) PROVE p \in u[c]
    <3>1. p \in u[m] /\ p # m
      BY <1>2, <2>2 DEF Ends
    <3>2. p \in u[Kid(T, m, Toward(p, m))] /\ Toward(p, m) \in Sides
      BY <3>1, Under, TowardIs, LiveAre
    <3>3. Toward(p, m) = way[m]
      BY <2>2, <3>2, Under DEF Ends
    <3> QED BY <3>2, <3>3
  <2>3. E(m, p) => E(c, p)
    BY <2>1, <2>2 DEF Ends
  <2>4. ASSUME E(c, p), NEW k \in u[m], NEW s \in Sides, p \in u[Kid(T, k, s)] PROVE s = way[k]
    <3>1. CASE k = m
      <4>1. p \in u[c]
        BY <2>4 DEF Ends
      <4> QED BY <2>1, <2>4, <3>1, <4>1, Under, SidesAre
    <3>2. CASE k # m
      <4> DEFINE t == Toward(k, m)
      <4>1. k \in Live(T) /\ t \in Sides /\ k \in u[Kid(T, m, t)] /\ Kid(T, m, t) \in Live(T)
        BY <3>2, Under, TowardIs, LiveAre
      <4>2. p \in u[k] /\ u[k] \subseteq u[Kid(T, m, t)]
        BY <2>4, <4>1, Under, Nested
      <4>3. p \in u[c]
        BY <2>4 DEF Ends
      <4>4. t = way[m]
        BY <2>1, <4>1, <4>2, <4>3, Under, SidesAre
      <4> QED BY <2>4, <4>1, <4>4 DEF Ends
    <3> QED BY <3>1, <3>2
  <2>5. E(c, p) => E(m, p)
    BY <2>1, <2>4 DEF Ends
  <2> QED BY <2>3, <2>5
<1> HIDE DEF E
<1>3. ASSUME NEW m \in Live(T) PROVE \E p : E(m, p)
  <2> DEFINE B == {k \in Live(T) : ~\E p : E(k, p)}
  <2>1. ASSUME NEW k \in B, \A s \in Sides : Kid(T, k, s) \notin B PROVE FALSE
    <3>1. k \in Live(T) /\ way[k] \in Sides /\ ~\E p : E(k, p)
      BY <1>0, LiveAre
    <3>2. Onward(k) # Sentinel
      BY <1>1, <3>1
    <3>3. Onward(k) \in Live(T) /\ Onward(k) \notin B
      BY <2>1, <3>1, <3>2, Under
    <3> QED BY <1>2, <3>1, <3>2, <3>3
  <2>2. B = {}
    <3>1. B \in SUBSET Live(T)
      OBVIOUS
    <3> HIDE DEF B
    <3> QED BY <2>1, <3>1, Lowest
  <2> QED BY <2>2
<1> DEFINE g == [m \in Members(T) |-> IF m = Sentinel THEN Sentinel ELSE CHOOSE p : E(m, p)]
<1>4. \A m \in Members(T) : m = Sentinel \/ m \in Live(T)
  BY LiveAre
<1>5. Onward(Sentinel) = Sentinel /\ Sentinel \in Members(T)
  BY <1>0, LiveAre DEF Shape
<1>6. ASSUME NEW m \in Live(T), NEW f, f[m] = CHOOSE p : E(m, p) PROVE E(m, f[m])
  BY <1>3, <1>6
<1>7. \A m \in Live(T) : g[m] = (CHOOSE p : E(m, p)) /\ m # Sentinel
  BY LiveAre
<1>8. ASSUME NEW m \in Live(T), Onward(m) # Sentinel PROVE g[m] = g[Onward(m)]
  <2>1. Onward(m) \in Live(T)
    BY <1>0, <1>8, Under, LiveAre
  <2>2. \A p : E(m, p) <=> E(Onward(m), p)
    BY <1>2, <1>8
  <2>3. (CHOOSE p : E(m, p)) = (CHOOSE p : E(Onward(m), p))
    BY <2>2
  <2> QED BY <1>7, <2>1, <2>3
<1>9. ASSUME NEW m \in Live(T), Onward(m) = Sentinel PROVE g[m] = m
  BY <1>1, <1>6, <1>7, <1>9
<1>10. g[Sentinel] = Sentinel
  BY <1>5
<1>10a. g = [m \in Members(T) |-> g[m]]
  OBVIOUS
<1> HIDE DEF g
<1>11. \A m \in Members(T) : g[m] = IF Onward(m) = Sentinel THEN m ELSE g[Onward(m)]
  BY <1>4, <1>5, <1>8, <1>9, <1>10
<1>12. IsDown(g)
  BY <1>10a, <1>11
<1>13. IsDown(F)
  BY <1>12
<1>14. Down(T, n, way) = F[n]
  BY Zenon DEF Down, Kid
<1>15. \A m \in Members(T) : F[m] = IF Onward(m) = Sentinel THEN m ELSE F[Onward(m)]
  BY <1>13
<1> HIDE DEF F
<1> DEFINE B == {m \in Live(T) : ~E(m, F[m])}
<1>16. ASSUME NEW m \in B, \A s \in Sides : Kid(T, m, s) \notin B PROVE FALSE
  <2>1. m \in Live(T) /\ way[m] \in Sides /\ m \in Members(T)
    BY <1>0, LiveAre
  <2>2. CASE Onward(m) = Sentinel
    BY <1>1, <1>15, <2>1, <2>2
  <2>3. CASE Onward(m) # Sentinel
    <3>1. Onward(m) \in Live(T) /\ Onward(m) \notin B
      BY <1>16, <2>1, <2>3, Under
    <3> QED BY <1>2, <1>15, <2>1, <2>3, <3>1
  <2> QED BY <2>2, <2>3
<1>17. B = {}
  <2>1. B \in SUBSET Live(T)
    OBVIOUS
  <2> HIDE DEF B
  <2> QED BY <1>16, <2>1, Lowest
<1> QED BY <1>14, <1>17 DEF E

\* The tree reaches the allocated nodes and no others.
LEMMA ElementsAre ==
    ASSUME NEW u, Shape(tree, u)
    PROVE  Elements = Live(tree)
<1> DEFINE L(n) == Kid(tree, n, "left")
           R(n) == Kid(tree, n, "right")
           IsUnder(f) == f = [n \in Members(tree) |->
                                IF n = Sentinel THEN {} ELSE {n} \union f[L(n)] \union f[R(n)]]
           F == CHOOSE f : IsUnder(f)
           g == [n \in Members(tree) |-> u[n]]
<1>1. \A n \in Members(tree) : n = Sentinel \/ n \in Live(tree)
  BY LiveAre
<1>2. \A n \in Live(tree) : /\ L(n) \in Members(tree) /\ R(n) \in Members(tree)
                            /\ u[n] = {n} \union u[L(n)] \union u[R(n)] /\ n # Sentinel
  BY SidesAre, LiveAre DEF Shape, LinksOf, OrderOf
<1>3. u[Sentinel] = {}
  BY DEF Shape
<1>4. \A n \in Members(tree) : g[n] = IF n = Sentinel THEN {} ELSE {n} \union g[L(n)] \union g[R(n)]
  BY <1>1, <1>2, <1>3
<1>5. IsUnder(g)
  <2>1. g = [n \in Members(tree) |-> g[n]]
    OBVIOUS
  <2> HIDE DEF g
  <2> QED BY <1>4, <2>1
<1>6. IsUnder(F)
  BY <1>5
<1>7. Elements = F[Root(tree)]
  BY Zenon DEF Elements, Kid, Root
<1>8. \A n \in Members(tree) : F[n] = IF n = Sentinel THEN {} ELSE {n} \union F[L(n)] \union F[R(n)]
  BY <1>6
<1> HIDE DEF F
<1> DEFINE B == {n \in Live(tree) : F[n] # u[n]}
<1>9. ASSUME NEW n \in B, \A s \in Sides : Kid(tree, n, s) \notin B PROVE FALSE
  <2>1. L(n) \notin B /\ R(n) \notin B
    BY <1>9, SidesAre
  <2>2. n \in Members(tree) /\ L(n) \in Members(tree) /\ R(n) \in Members(tree)
    BY <1>2, LiveAre
  <2>3. F[L(n)] = u[L(n)] /\ F[R(n)] = u[R(n)]
    BY <1>1, <1>3, <1>8, <2>1, <2>2
  <2>4. n \in Live(tree) /\ n # Sentinel
    BY LiveAre
  <2> HIDE DEF L, R, B
  <2>5. F[n] = {n} \union F[L(n)] \union F[R(n)]
    BY <1>8, <2>2, <2>4
  <2>6. F[n] = u[n]
    BY <1>2, <2>3, <2>4, <2>5
  <2> QED BY <2>6 DEF B
<1>10. B = {}
  <2>1. B \in SUBSET Live(tree)
    OBVIOUS
  <2> HIDE DEF B
  <2> QED BY <1>9, <2>1, Lowest
<1>11. F[Root(tree)] = u[Root(tree)]
  BY <1>1, <1>3, <1>8, <1>10 DEF Shape
<1> QED BY <1>7, <1>11 DEF Shape

-----------------------------------------------------------------------------
(***************************************************************************)
(* The blacks                                                              *)
(***************************************************************************)
Color(T, n) == T.color[n]
Black(T, n) == IF Color(T, n) = "black" THEN 1 ELSE 0

\* Every path from n down has b[n] blacks, if one more is counted on side t of p.
Balanced(T, b, p, t) ==
    /\ b \in [Nodes -> Nat] /\ b[Sentinel] = 0 /\ Color(T, Sentinel) = "black"
    /\ \A n \in Live(T), s \in Sides :
          b[n] = Black(T, n) + b[Kid(T, n, s)] + (IF n = p /\ s = t THEN 1 ELSE 0)

LEMMA BlackCountsAre ==
    ASSUME NEW u, Shape(tree, u), NEW b, NEW p, NEW t, Balanced(tree, b, p, t),
           \A n \in Live(tree), s \in Sides : Extra(n, s) = IF n = p /\ s = t THEN 1 ELSE 0
    PROVE  BlackCounts = {b[Root(tree)]}
<1> DEFINE Of(n, f) == {c + Black(tree, n) :
                          c \in UNION {{d + Extra(n, s) : d \in f[Kid(tree, n, s)]} : s \in Sides}}
           IsCount(f) == f = [n \in Members(tree) |-> IF n = Sentinel THEN {0} ELSE Of(n, f)]
           F == CHOOSE f : IsCount(f)
           g == [n \in Members(tree) |-> {b[n]}]
<1>1. \A n \in Members(tree) : n = Sentinel \/ n \in Live(tree)
  BY LiveAre
<1>2. \A n \in Live(tree), s \in Sides :
         /\ Kid(tree, n, s) \in Members(tree)
         /\ b[n] = Black(tree, n) + b[Kid(tree, n, s)] + Extra(n, s)
         /\ b[n] \in Nat /\ b[Kid(tree, n, s)] \in Nat /\ Extra(n, s) \in Nat /\ Black(tree, n) \in Nat
  <2>1. \A n \in Live(tree), s \in Sides : Kid(tree, n, s) \in Members(tree)
    BY DEF Shape, LinksOf
  <2>2. \A n \in Members(tree) : b[n] \in Nat
    BY LiveAre DEF Balanced
  <2>3. \A n \in Live(tree) : n \in Members(tree) /\ Black(tree, n) \in Nat
    BY LiveAre DEF Black
  <2>4. \A n \in Live(tree), s \in Sides :
           b[n] = Black(tree, n) + b[Kid(tree, n, s)] + (IF n = p /\ s = t THEN 1 ELSE 0)
    BY DEF Balanced
  <2>5. \A n \in Live(tree), s \in Sides : Extra(n, s) \in Nat
    OBVIOUS
  <2>6. \A n \in Live(tree), s \in Sides : b[n] = Black(tree, n) + b[Kid(tree, n, s)] + Extra(n, s)
    BY <2>4
  <2> QED BY <2>1, <2>2, <2>3, <2>5, <2>6
<1>3. ASSUME NEW f, NEW n \in Live(tree), \A s \in Sides : f[Kid(tree, n, s)] = {b[Kid(tree, n, s)]}
      PROVE  Of(n, f) = {b[n]}
  <2> DEFINE X(s) == {d + Extra(n, s) : d \in f[Kid(tree, n, s)]}
             e == b[Kid(tree, n, "left")] + Extra(n, "left")
  <2>1. \A s \in Sides : X(s) = {b[Kid(tree, n, s)] + Extra(n, s)}
    BY <1>3
  <2>2. \A s \in Sides : b[Kid(tree, n, s)] + Extra(n, s) = e
    BY <1>2, SidesAre
  <2>3. \A s \in Sides : X(s) = {e}
    BY <2>1, <2>2
  <2>4. UNION {X(s) : s \in Sides} = {e}
    <3> HIDE DEF X, e
    <3> QED BY <2>3, SidesAre
  <2>5. Of(n, f) = {e + Black(tree, n)}
    BY <2>4
  <2>6. e + Black(tree, n) = b[n]
    BY <1>2, SidesAre
  <2> QED BY <2>5, <2>6
<1> HIDE DEF Of
<1>4. b[Sentinel] = 0
  BY DEF Balanced
<1>5. \A n \in Members(tree) : g[n] = IF n = Sentinel THEN {0} ELSE Of(n, g)
  BY <1>1, <1>2, <1>3, <1>4
<1>6. IsCount(g)
  <2>1. g = [n \in Members(tree) |-> g[n]]
    OBVIOUS
  <2> HIDE DEF g
  <2> QED BY <1>5, <2>1
<1>7. IsCount(F)
  BY <1>6
<1>8. BlackCounts = F[Root(tree)]
  BY Zenon DEF BlackCounts, Kid, Root, Black, Color, Of
<1>9. \A n \in Members(tree) : F[n] = IF n = Sentinel THEN {0} ELSE Of(n, F)
  BY <1>7
<1> HIDE DEF F
<1> DEFINE B == {n \in Live(tree) : F[n] # {b[n]}}
<1>10. ASSUME NEW n \in B, \A s \in Sides : Kid(tree, n, s) \notin B PROVE FALSE
  <2>1. n \in Live(tree) /\ n \in Members(tree) /\ n # Sentinel
    BY LiveAre
  <2>2. \A s \in Sides : F[Kid(tree, n, s)] = {b[Kid(tree, n, s)]}
    BY <1>1, <1>2, <1>4, <1>9, <1>10
  <2>3. F[n] = {b[n]}
    BY <1>3, <1>9, <2>1, <2>2
  <2> QED BY <2>3
<1>11. B = {}
  <2>1. B \in SUBSET Live(tree)
    OBVIOUS
  <2> HIDE DEF B
  <2> QED BY <1>10, <2>1, Lowest
<1>12. F[Root(tree)] = {b[Root(tree)]}
  BY <1>1, <1>4, <1>9, <1>11 DEF Shape
<1> QED BY <1>8, <1>12

-----------------------------------------------------------------------------
(***************************************************************************)
(* What TransPlant and the rotations do to the links                       *)
(***************************************************************************)
LEMMA SideIs ==
    ASSUME NEW T, NEW n
    PROVE  /\ SideOf(T, n) \in Sides
           /\ \A s \in Sides : Kid(T, Par(T, n), s) = n => Kid(T, Par(T, n), SideOf(T, n)) = n
BY DEF SideOf, Sides, Kid, Par

LEMMA SideOfChild ==
    ASSUME NEW T, NEW u, Shape(T, u), NEW n \in Live(T), NEW s \in Sides, Kid(T, n, s) # Sentinel
    PROVE  Par(T, Kid(T, n, s)) = n /\ SideOf(T, Kid(T, n, s)) = s
<1> DEFINE c == Kid(T, n, s)
<1>1. Par(T, c) = n
  BY DEF Shape, LinksOf
<1>2. Kid(T, n, SideOf(T, c)) = c /\ SideOf(T, c) \in Sides
  BY <1>1, SideIs
<1>3. c \in u[c] /\ u[c] \subseteq Live(T) /\ c \notin u[Kid(T, n, Other(s))]
  BY Under
<1>4. Kid(T, n, Other(s)) # c
  BY <1>3
<1> QED BY <1>1, <1>2, <1>4, SidesAre

LEMMA TreeIs ==
    ASSUME NEW T \in Trees
    PROVE  T = [root |-> T.root, kid |-> T.kid, parent |-> T.parent, color |-> T.color]
BY DEF Trees

LEMMA TreeParts ==
    ASSUME NEW T \in Trees
    PROVE  /\ T.root \in Nodes /\ T.kid \in [Nodes -> [left : Pointers, right : Pointers]]
           /\ T.parent \in [Nodes -> Pointers] /\ T.color \in [Nodes -> {"red", "black"}]
           /\ \A n \in Nodes, s \in Sides : Kid(T, n, s) \in Pointers
           /\ \A n \in Nodes : Par(T, n) \in Pointers /\ Color(T, n) \in {"red", "black"}
           /\ Nodes \subseteq Pointers
BY DEF Trees, Pointers, Sides, Kid, Par, Color

\* One field is written.
SetRoot(T, c) == [T EXCEPT !.root = c]
SetKid(T, n, s, c) == [T EXCEPT !.kid[n][s] = c]
SetKids(T, n, l, r) == [T EXCEPT !.kid[n] = Kids(l, r)]
SetPar(T, n, c) == [T EXCEPT !.parent[n] = c]
SetColor(T, n, c) == [T EXCEPT !.color[n] = c]

LEMMA WriteRoot ==
    ASSUME NEW T \in Trees, NEW c \in Nodes
    PROVE  LET R == SetRoot(T, c)
           IN  /\ R \in Trees /\ Root(R) = c
               /\ \A m \in Nodes : /\ Par(R, m) = Par(T, m) /\ Color(R, m) = Color(T, m)
                                   /\ \A t \in Sides : Kid(R, m, t) = Kid(T, m, t)
<1> DEFINE R == SetRoot(T, c)
<1>1. R = [root |-> c, kid |-> T.kid, parent |-> T.parent, color |-> T.color]
  BY TreeIs DEF SetRoot
<1> HIDE DEF R
<1> QED BY <1>1, TreeParts DEF R, Trees, Root, Par, Color, Kid

LEMMA WriteKid ==
    ASSUME NEW T \in Trees, NEW n \in Nodes, NEW s \in Sides, NEW c \in Pointers
    PROVE  LET R == SetKid(T, n, s, c)
           IN  /\ R \in Trees /\ Root(R) = Root(T)
               /\ \A m \in Nodes :
                     /\ Par(R, m) = Par(T, m) /\ Color(R, m) = Color(T, m)
                     /\ \A t \in Sides :
                           Kid(R, m, t) = IF m = n /\ t = s THEN c ELSE Kid(T, m, t)
<1> DEFINE R == SetKid(T, n, s, c)
           K == [T.kid EXCEPT ![n][s] = c]
<1>1. R = [root |-> T.root, kid |-> K, parent |-> T.parent, color |-> T.color]
  BY TreeIs DEF SetKid
<1>2. K \in [Nodes -> [left : Pointers, right : Pointers]]
  BY TreeParts DEF Sides
<1>3. \A m \in Nodes, t \in Sides : K[m][t] = IF m = n /\ t = s THEN c ELSE T.kid[m][t]
  BY TreeParts DEF Sides
<1> HIDE DEF R, K
<1>4. R \in Trees /\ Root(R) = Root(T)
  BY <1>1, <1>2, TreeParts DEF Trees, Root
<1>5. \A m \in Nodes : Par(R, m) = Par(T, m) /\ Color(R, m) = Color(T, m)
  BY <1>1 DEF Par, Color
<1>6. R.kid = K
  BY <1>1
<1> QED BY <1>3, <1>4, <1>5, <1>6 DEF R, Kid

LEMMA WriteKids ==
    ASSUME NEW T \in Trees, NEW n \in Nodes, NEW l \in Pointers, NEW r \in Pointers
    PROVE  LET R == SetKids(T, n, l, r)
           IN  /\ R \in Trees /\ Root(R) = Root(T)
               /\ \A m \in Nodes :
                     /\ Par(R, m) = Par(T, m) /\ Color(R, m) = Color(T, m)
                     /\ \A t \in Sides :
                           Kid(R, m, t) = IF m = n THEN (IF t = "left" THEN l ELSE r)
                                          ELSE Kid(T, m, t)
<1> DEFINE R == SetKids(T, n, l, r)
           K == [T.kid EXCEPT ![n] = Kids(l, r)]
<1>1. R = [root |-> T.root, kid |-> K, parent |-> T.parent, color |-> T.color]
  BY TreeIs DEF SetKids
<1>2. K \in [Nodes -> [left : Pointers, right : Pointers]]
  BY TreeParts DEF Kids
<1>3. \A m \in Nodes, t \in Sides :
         K[m][t] = IF m = n THEN (IF t = "left" THEN l ELSE r) ELSE T.kid[m][t]
  BY TreeParts DEF Sides, Kids
<1> HIDE DEF R, K
<1>4. R \in Trees /\ Root(R) = Root(T)
  BY <1>1, <1>2, TreeParts DEF Trees, Root
<1>5. \A m \in Nodes : Par(R, m) = Par(T, m) /\ Color(R, m) = Color(T, m)
  BY <1>1 DEF Par, Color
<1>6. R.kid = K
  BY <1>1
<1> QED BY <1>3, <1>4, <1>5, <1>6 DEF R, Kid

LEMMA WritePar ==
    ASSUME NEW T \in Trees, NEW n \in Nodes, NEW c \in Pointers
    PROVE  LET R == SetPar(T, n, c)
           IN  /\ R \in Trees /\ Root(R) = Root(T)
               /\ \A m \in Nodes :
                     /\ Par(R, m) = IF m = n THEN c ELSE Par(T, m)
                     /\ Color(R, m) = Color(T, m)
                     /\ \A t \in Sides : Kid(R, m, t) = Kid(T, m, t)
<1> DEFINE R == SetPar(T, n, c)
           P == [T.parent EXCEPT ![n] = c]
<1>1. R = [root |-> T.root, kid |-> T.kid, parent |-> P, color |-> T.color]
  BY TreeIs DEF SetPar
<1>2. P \in [Nodes -> Pointers] /\ \A m \in Nodes : P[m] = IF m = n THEN c ELSE T.parent[m]
  BY TreeParts
<1> HIDE DEF R, P
<1> QED BY <1>1, <1>2, TreeParts DEF R, Trees, Root, Par, Color, Kid

LEMMA WriteColor ==
    ASSUME NEW T \in Trees, NEW n \in Nodes, NEW c \in {"red", "black"}
    PROVE  LET R == SetColor(T, n, c)
           IN  /\ R \in Trees /\ Root(R) = Root(T)
               /\ \A m \in Nodes :
                     /\ Par(R, m) = Par(T, m)
                     /\ Color(R, m) = IF m = n THEN c ELSE Color(T, m)
                     /\ \A t \in Sides : Kid(R, m, t) = Kid(T, m, t)
<1> DEFINE R == SetColor(T, n, c)
           C == [T.color EXCEPT ![n] = c]
<1>1. R = [root |-> T.root, kid |-> T.kid, parent |-> T.parent, color |-> C]
  BY TreeIs DEF SetColor
<1>2. C \in [Nodes -> {"red", "black"}] /\ \A m \in Nodes : C[m] = IF m = n THEN c ELSE T.color[m]
  BY TreeParts
<1> HIDE DEF R, C
<1> QED BY <1>1, <1>2, TreeParts DEF R, Trees, Root, Par, Color, Kid

LEMMA TransPlantIs ==
    ASSUME NEW T \in Trees, NEW old \in Keys, NEW put \in Nodes, Par(T, old) \in Nodes
    PROVE  LET R == TransPlant(T, old, put)
               p == Par(T, old)
           IN  /\ R \in Trees
               /\ Root(R) = IF p = Sentinel THEN put ELSE Root(T)
               /\ \A n \in Nodes :
                     /\ Par(R, n) = IF n = put THEN p ELSE Par(T, n)
                     /\ Color(R, n) = Color(T, n)
                     /\ \A t \in Sides :
                           Kid(R, n, t) = IF n = p /\ p # Sentinel /\ t = SideOf(T, old) THEN put
                                          ELSE Kid(T, n, t)
<1> DEFINE p == Par(T, old)
           s == SideOf(T, old)
           hung == IF p = Sentinel THEN SetRoot(T, put) ELSE SetKid(T, p, s, put)
           R == SetPar(hung, put, p)
<1>1. TransPlant(T, old, put) = R
  BY DEF TransPlant, Par, SetRoot, SetKid, SetPar
<1>2. s \in Sides /\ p \in Nodes /\ Nodes \subseteq Pointers
  BY SideIs, TreeParts
<1> HIDE DEF s, p
<1>3. /\ hung \in Trees /\ Root(hung) = IF p = Sentinel THEN put ELSE Root(T)
      /\ \A n \in Nodes :
            /\ Par(hung, n) = Par(T, n) /\ Color(hung, n) = Color(T, n)
            /\ \A t \in Sides : Kid(hung, n, t) = IF n = p /\ p # Sentinel /\ t = s THEN put
                                                  ELSE Kid(T, n, t)
  <2>1. CASE p = Sentinel
    BY <2>1, WriteRoot
  <2>2. CASE p # Sentinel
    BY <1>2, <2>2, WriteKid
  <2> QED BY <2>1, <2>2
<1> HIDE DEF hung
<1>4. /\ R \in Trees /\ Root(R) = Root(hung)
      /\ \A n \in Nodes :
            /\ Par(R, n) = IF n = put THEN p ELSE Par(hung, n)
            /\ Color(R, n) = Color(hung, n)
            /\ \A t \in Sides : Kid(R, n, t) = Kid(hung, n, t)
  BY <1>2, <1>3, WritePar
<1> HIDE DEF R
<1> QED BY <1>1, <1>3, <1>4 DEF s, p

\* Rotate, field by field.
Cut(T, x, s, inner) ==
    LET cut == SetKid(T, x, Other(s), inner)
    IN  IF inner = Sentinel THEN cut ELSE SetPar(cut, inner, x)

Turned(T, x, y, s, inner) ==
    SetPar(SetKid(TransPlant(Cut(T, x, s, inner), x, y), y, s, x), x, y)

LEMMA TurnedIs ==
    ASSUME NEW T \in Trees, NEW x \in Keys, NEW s \in Sides, NEW y \in Keys, NEW inner \in Nodes,
           Par(T, x) \in Nodes, x # y, inner # x, inner # y, Par(T, x) # x, Par(T, x) # y
    PROVE  LET R == Turned(T, x, y, s, inner)
               p == Par(T, x)
           IN  /\ R \in Trees
               /\ Root(R) = IF p = Sentinel THEN y ELSE Root(T)
               /\ \A n \in Nodes :
                     /\ Par(R, n) = IF n = x THEN y ELSE IF n = y THEN p
                                    ELSE IF n = inner /\ n # Sentinel THEN x ELSE Par(T, n)
                     /\ Color(R, n) = Color(T, n)
                     /\ \A t \in Sides :
                           Kid(R, n, t) = IF n = x /\ t = Other(s) THEN inner
                                          ELSE IF n = y /\ t = s THEN x
                                          ELSE IF n = p /\ p # Sentinel /\ t = SideOf(T, x) THEN y
                                          ELSE Kid(T, n, t)
<1> DEFINE o == Other(s)
           p == Par(T, x)
           cut == SetKid(T, x, o, inner)
           lower == IF inner = Sentinel THEN cut ELSE SetPar(cut, inner, x)
           upper == TransPlant(lower, x, y)
           hung == SetKid(upper, y, s, x)
           R == SetPar(hung, x, y)
<1>1. Turned(T, x, y, s, inner) = R
  BY DEF Turned, Cut
<1>2. o \in Sides /\ o # s /\ x \in Nodes /\ y \in Nodes /\ p \in Nodes
      /\ x \in Pointers /\ y \in Pointers /\ inner \in Pointers
  BY SidesAre, Names, TreeParts
<1> HIDE DEF o
<1>3. /\ cut \in Trees /\ Root(cut) = Root(T)
      /\ \A n \in Nodes :
            /\ Par(cut, n) = Par(T, n) /\ Color(cut, n) = Color(T, n)
            /\ \A t \in Sides : Kid(cut, n, t) = IF n = x /\ t = o THEN inner ELSE Kid(T, n, t)
  BY <1>2, WriteKid
<1> HIDE DEF cut
<1>4. /\ lower \in Trees /\ Root(lower) = Root(T)
      /\ \A n \in Nodes :
            /\ Par(lower, n) = IF n = inner /\ n # Sentinel THEN x ELSE Par(T, n)
            /\ Color(lower, n) = Color(T, n)
            /\ \A t \in Sides : Kid(lower, n, t) = IF n = x /\ t = o THEN inner ELSE Kid(T, n, t)
  <2>1. CASE inner = Sentinel
    BY <1>3, <2>1
  <2>2. CASE inner # Sentinel
    <3> DEFINE L == SetPar(cut, inner, x)
    <3>1. lower = L
      BY <2>2
    <3> HIDE DEF lower
    <3>2. /\ L \in Trees /\ Root(L) = Root(cut)
          /\ \A n \in Nodes :
                /\ Par(L, n) = IF n = inner THEN x ELSE Par(cut, n)
                /\ Color(L, n) = Color(cut, n)
                /\ \A t \in Sides : Kid(L, n, t) = Kid(cut, n, t)
      BY <1>2, <1>3, WritePar
    <3> HIDE DEF L
    <3> QED BY <1>3, <2>2, <3>1, <3>2
  <2> QED BY <2>1, <2>2
<1> HIDE DEF lower
<1>5. Par(lower, x) = p
  BY <1>2, <1>4
<1>6. SideOf(lower, x) = SideOf(T, x)
  <2>1. Kid(lower, p, "left") = Kid(T, p, "left")
    BY <1>2, <1>4, SidesAre
  <2> QED BY <1>5, <2>1 DEF SideOf, Kid, Par
<1>7. /\ upper \in Trees
      /\ Root(upper) = IF p = Sentinel THEN y ELSE Root(T)
      /\ \A n \in Nodes :
            /\ Par(upper, n) = IF n = y THEN p ELSE Par(lower, n)
            /\ Color(upper, n) = Color(T, n)
            /\ \A t \in Sides :
                  Kid(upper, n, t) = IF n = p /\ p # Sentinel /\ t = SideOf(T, x) THEN y
                                     ELSE Kid(lower, n, t)
  <2>1. Par(lower, x) \in Nodes
    BY <1>2, <1>5
  <2> QED BY <1>2, <1>4, <1>5, <1>6, <2>1, TransPlantIs
<1> HIDE DEF upper
<1>8. /\ hung \in Trees /\ Root(hung) = Root(upper)
      /\ \A n \in Nodes :
            /\ Par(hung, n) = Par(upper, n) /\ Color(hung, n) = Color(upper, n)
            /\ \A t \in Sides : Kid(hung, n, t) = IF n = y /\ t = s THEN x ELSE Kid(upper, n, t)
  BY <1>2, <1>7, WriteKid, SMTT(30)
<1> HIDE DEF hung
<1>9. /\ R \in Trees /\ Root(R) = Root(hung)
      /\ \A n \in Nodes :
            /\ Par(R, n) = IF n = x THEN y ELSE Par(hung, n)
            /\ Color(R, n) = Color(hung, n)
            /\ \A t \in Sides : Kid(R, n, t) = Kid(hung, n, t)
  BY <1>2, <1>8, WritePar
<1> HIDE DEF R, p
<1>10. \A n \in Nodes, t \in Sides :
          Kid(R, n, t) = IF n = x /\ t = o THEN inner
                         ELSE IF n = y /\ t = s THEN x
                         ELSE IF n = p /\ p # Sentinel /\ t = SideOf(T, x) THEN y
                         ELSE Kid(T, n, t)
  BY <1>2, <1>4, <1>7, <1>8, <1>9 DEF p
<1>11. \A n \in Nodes :
          Par(R, n) = IF n = x THEN y ELSE IF n = y THEN p
                      ELSE IF n = inner /\ n # Sentinel THEN x ELSE Par(T, n)
  BY <1>2, <1>4, <1>7, <1>8, <1>9
<1>12. \A n \in Nodes : Color(R, n) = Color(T, n)
  BY <1>7, <1>8, <1>9
<1>13. R \in Trees /\ Root(R) = IF p = Sentinel THEN y ELSE Root(T)
  BY <1>7, <1>8, <1>9
<1> QED BY <1>1, <1>10, <1>11, <1>12, <1>13 DEF o, p

LEMMA RotateIs ==
    ASSUME NEW T \in Trees, NEW x \in Keys, NEW s \in Sides
    PROVE  LET y == Kid(T, x, Other(s))
           IN  Rotate(T, x, s) = Turned(T, x, y, s, Kid(T, y, s))
<1> DEFINE y == T.kid[x][Other(s)]
           inner == T.kid[y][s]
           lower == [T EXCEPT !.kid[x][Other(s)] = inner,
                              !.parent = IF inner = Sentinel THEN @ ELSE [@ EXCEPT ![inner] = x]]
<1>1. Rotate(T, x, s) = [TransPlant(lower, x, y) EXCEPT !.kid[y][s] = x, !.parent[x] = y]
  BY ZenonT(120) DEF Rotate
<1>2. y = Kid(T, x, Other(s)) /\ inner = Kid(T, y, s)
  BY DEF Kid
<1> HIDE DEF y, inner
<1>3. lower = Cut(T, x, s, inner)
  <2>1. CASE inner = Sentinel
    BY <2>1, TreeIs DEF SetKid, Cut
  <2>2. CASE inner # Sentinel
    BY <2>2, TreeIs DEF SetKid, SetPar, Cut
  <2> QED BY <2>1, <2>2
<1> HIDE DEF lower
<1>4. [TransPlant(lower, x, y) EXCEPT !.kid[y][s] = x, !.parent[x] = y] = Turned(T, x, y, s, inner)
  BY <1>3 DEF SetKid, SetPar, Turned
<1> QED BY <1>1, <1>2, <1>4

\* R is T with x gone down on side s, and y, its child on the other side, come up.
Turns(T, R, x, y, s) ==
    /\ R \in Trees
    /\ Root(R) = IF Par(T, x) = Sentinel THEN y ELSE Root(T)
    /\ \A n \in Nodes :
          /\ Par(R, n) = IF n = x THEN y ELSE IF n = y THEN Par(T, x)
                         ELSE IF n = Kid(T, y, s) /\ n # Sentinel THEN x ELSE Par(T, n)
          /\ \A t \in Sides :
                Kid(R, n, t) = IF n = x /\ t = Other(s) THEN Kid(T, y, s)
                               ELSE IF n = y /\ t = s THEN x
                               ELSE IF n = Par(T, x) /\ n # Sentinel /\ t = SideOf(T, x) THEN y
                               ELSE Kid(T, n, t)

\* A node, its child and its parent are different, and so are the child's children.
LEMMA Family ==
    ASSUME NEW T, NEW u, Shape(T, u), NEW x \in Live(T), NEW s \in Sides, Kid(T, x, s) # Sentinel
    PROVE  LET y == Kid(T, x, s)
           IN  /\ y \in Live(T) /\ x # y /\ Par(T, x) # x /\ Par(T, x) # y
               /\ \A t \in Sides : Kid(T, y, t) # x /\ Kid(T, y, t) # y
               /\ Kid(T, x, Other(s)) # y
               /\ Toward(y, x) = s
<1> DEFINE y == Kid(T, x, s)
<1>1. y \in Live(T) /\ y \in u[y] /\ u[y] \subseteq u[x] /\ x \notin u[y] /\ x \in u[x] /\ Toward(y, x) = s
  BY Under
<1>2. y \notin u[Kid(T, x, Other(s))] /\ Other(s) \in Sides
  BY <1>1, Under, SidesAre
<1>3. Kid(T, x, Other(s)) # y
  BY <1>1, <1>2
<1> HIDE DEF y
<1>4. ASSUME NEW t \in Sides PROVE Kid(T, y, t) # x /\ Kid(T, y, t) # y
  <2> DEFINE z == Kid(T, y, t)
  <2>1. z # Sentinel => z \in u[z] /\ u[z] \subseteq u[y] /\ y \notin u[z]
    BY <1>1, Under
  <2>2. x # Sentinel /\ y # Sentinel
    BY <1>1, LiveAre
  <2> QED BY <1>1, <2>1, <2>2
<1>5. Par(T, x) = Sentinel \/ (Par(T, x) \in Live(T) /\ \E t \in Sides : Kid(T, Par(T, x), t) = x)
  BY LiveAre, SideIs DEF Shape, LinksOf
<1>6. ASSUME Par(T, x) \in Live(T), NEW t \in Sides, Kid(T, Par(T, x), t) = x
      PROVE  Par(T, x) # x /\ Par(T, x) # y
  <2>1. x # Sentinel
    BY LiveAre
  <2>2. x \in u[x] /\ Par(T, x) \notin u[x]
    BY <1>6, <2>1, Under
  <2> QED BY <1>1, <2>2
<1>7. x # Sentinel /\ y # Sentinel
  BY <1>1, LiveAre
<1> QED BY <1>1, <1>3, <1>4, <1>5, <1>6, <1>7 DEF y

LEMMA RotateTurns ==
    ASSUME NEW T, NEW u, Shape(T, u), NEW x \in Live(T), NEW s \in Sides,
           Kid(T, x, Other(s)) # Sentinel
    PROVE  /\ Turns(T, Rotate(T, x, s), x, Kid(T, x, Other(s)), s)
           /\ \A n \in Nodes : Color(Rotate(T, x, s), n) = Color(T, n)
<1> DEFINE y == Kid(T, x, Other(s))
<1>1. Other(s) \in Sides /\ Other(Other(s)) = s
  BY SidesAre
<1>2. /\ y \in Live(T) /\ x # y /\ Par(T, x) # x /\ Par(T, x) # y
      /\ Kid(T, y, s) # x /\ Kid(T, y, s) # y
  BY <1>1, Family
<1>3. T \in Trees /\ x \in Keys /\ y \in Keys /\ Par(T, x) \in Nodes /\ Kid(T, y, s) \in Nodes
  BY <1>2, LiveAre DEF Shape, LinksOf
<1>4. Rotate(T, x, s) = Turned(T, x, y, s, Kid(T, y, s))
  BY <1>3, RotateIs
<1> HIDE DEF y
<1> DEFINE inner == Kid(T, y, s)
<1>5. inner \in Nodes /\ inner # x /\ inner # y
  BY <1>2, <1>3
<1> HIDE DEF inner
<1> DEFINE R == Turned(T, x, y, s, inner)
<1>6. /\ R \in Trees
      /\ Root(R) = IF Par(T, x) = Sentinel THEN y ELSE Root(T)
      /\ \A n \in Nodes :
            /\ Par(R, n) = IF n = x THEN y ELSE IF n = y THEN Par(T, x)
                           ELSE IF n = inner /\ n # Sentinel THEN x ELSE Par(T, n)
            /\ Color(R, n) = Color(T, n)
            /\ \A t \in Sides :
                  Kid(R, n, t) = IF n = x /\ t = Other(s) THEN inner
                                 ELSE IF n = y /\ t = s THEN x
                                 ELSE IF n = Par(T, x) /\ Par(T, x) # Sentinel /\ t = SideOf(T, x) THEN y
                                 ELSE Kid(T, n, t)
  BY <1>2, <1>3, <1>5, TurnedIs, SMTT(30)
<1> HIDE DEF R
<1>7. Turns(T, R, x, y, s)
  BY <1>6 DEF Turns, inner
<1>8. \A n \in Nodes : Color(R, n) = Color(T, n)
  BY <1>6
<1> QED BY <1>4, <1>7, <1>8 DEF R, y, inner

LEMMA RotatedShape ==
    ASSUME NEW T, NEW u, Shape(T, u), NEW x \in Live(T), NEW s \in Sides,
           NEW y, y = Kid(T, x, Other(s)), y # Sentinel, NEW R, Turns(T, R, x, y, s)
    PROVE  Live(R) = Live(T) /\ \E v : Shape(R, v)
<1> DEFINE o == Other(s)
           p == Par(T, x)
           inner == Kid(T, y, s)
           outer == Kid(T, y, o)
           rest == Kid(T, x, s)
           v == [n \in Nodes |-> IF n = y THEN u[x]
                                 ELSE IF n = x THEN {x} \union u[rest] \union u[inner]
                                 ELSE u[n]]
<1>1. o \in Sides /\ o # s /\ \A t \in Sides : t = s \/ t = o
  BY SidesAre
<1>2. /\ y \in Live(T) /\ x # y /\ p # x /\ p # y /\ inner # x /\ inner # y
      /\ outer # x /\ outer # y /\ rest # y /\ Toward(y, x) = o
  BY <1>1, Family, SidesAre
<1>3. /\ x \in Nodes /\ y \in Nodes /\ x \in Keys /\ y \in Keys
      /\ inner \in Members(T) /\ outer \in Members(T) /\ rest \in Members(T) /\ p \in Members(T)
      /\ Members(T) \subseteq Nodes /\ Live(T) \subseteq Keys
  BY <1>1, <1>2, LiveAre, Names DEF Shape, LinksOf
<1>4. Live(R) = Live(T)
  <2>1. \A n \in Keys : Par(R, n) = Null <=> Par(T, n) = Null
    <3>1. Par(T, x) # Null /\ Par(T, y) # Null /\ x # Null /\ y # Null
      BY <1>2, <1>3, LiveAre, Names
    <3>2. inner # Sentinel => Par(T, inner) # Null
      BY <1>3, LiveAre
    <3> QED BY <1>3, <3>1, <3>2, Names DEF Turns
  <2> QED BY <2>1 DEF Live, Par
<1>5. Members(R) = Members(T)
  BY <1>4 DEF Members
<1>6. /\ x # Sentinel /\ y # Sentinel /\ Sentinel \in Nodes
      /\ \A n \in Live(T) : n \in Nodes /\ n # Sentinel /\ n \in Keys
      /\ \A n \in Members(T) : n \in Live(T) \/ n = Sentinel
  BY <1>2, LiveAre, Names
<1>7. /\ rest # x /\ Par(T, y) = x /\ SideOf(T, y) = o
      /\ inner # Sentinel => Par(T, inner) = y /\ SideOf(T, inner) = s
      /\ rest # Sentinel => Par(T, rest) = x /\ SideOf(T, rest) = s
      /\ outer # Sentinel => Par(T, outer) = y /\ SideOf(T, outer) = o
  <2>1. rest # x
    BY <1>6, Family
  <2> QED BY <1>1, <1>2, <1>6, <2>1, SideOfChild
<1>8. ASSUME NEW n \in Live(T), NEW t \in Sides
      PROVE  /\ Kid(T, n, t) \in Members(T)
             /\ Kid(T, n, t) # Sentinel => Par(T, Kid(T, n, t)) = n /\ SideOf(T, Kid(T, n, t)) = t
  BY SideOfChild DEF Shape, LinksOf
<1>9. ASSUME NEW n \in Live(T)
      PROVE  /\ Par(T, n) \in Members(T) /\ SideOf(T, n) \in Sides
             /\ Par(T, n) = Sentinel => n = Root(T)
             /\ Par(T, n) # Sentinel => Kid(T, Par(T, n), SideOf(T, n)) = n
  BY SideIs DEF Shape, LinksOf
<1> HIDE DEF p, inner, outer, rest, v
<1>10. /\ Root(R) = IF p = Sentinel THEN y ELSE Root(T)
       /\ \A n \in Nodes :
             /\ Par(R, n) = IF n = x THEN y ELSE IF n = y THEN p
                            ELSE IF n = inner /\ n # Sentinel THEN x ELSE Par(T, n)
             /\ \A t \in Sides :
                   Kid(R, n, t) = IF n = x /\ t = o THEN inner
                                  ELSE IF n = y /\ t = s THEN x
                                  ELSE IF n = p /\ n # Sentinel /\ t = SideOf(T, x) THEN y
                                  ELSE Kid(T, n, t)
  BY DEF Turns, p, inner
\* The children of the nodes of R.
<1>11. /\ Kid(R, x, o) = inner /\ Kid(R, x, s) = rest /\ Kid(R, y, s) = x /\ Kid(R, y, o) = outer
       /\ p # Sentinel => Kid(R, p, SideOf(T, x)) = y
  BY <1>1, <1>2, <1>3, <1>6, <1>9, <1>10 DEF rest, outer
<1>12. ASSUME NEW n \in Live(T), n # x, n # y, NEW t \in Sides, ~(n = p /\ t = SideOf(T, x))
       PROVE  /\ Kid(R, n, t) = Kid(T, n, t)
              /\ Kid(T, n, t) # x /\ Kid(T, n, t) # y /\ (Kid(T, n, t) # Sentinel => Kid(T, n, t) # inner)
  <2>1. Kid(R, n, t) = Kid(T, n, t)
    BY <1>6, <1>10, <1>12
  <2>2. Kid(T, n, t) # x
    BY <1>6, <1>8, <1>12 DEF p
  <2>3. Kid(T, n, t) # y /\ (Kid(T, n, t) # Sentinel => Kid(T, n, t) # inner)
    BY <1>6, <1>7, <1>8, <1>12
  <2> QED BY <2>1, <2>2, <2>3
<1>13. ASSUME NEW n \in Live(T), NEW t \in Sides
       PROVE  /\ Kid(R, n, t) \in Members(T)
              /\ Kid(R, n, t) # Sentinel => Par(R, Kid(R, n, t)) = n
  <2>0. \A m \in Nodes : /\ Par(R, m) = IF m = x THEN y ELSE IF m = y THEN p
                            ELSE IF m = inner /\ m # Sentinel THEN x ELSE Par(T, m)
    BY <1>10
  <2>1. CASE n = x
    <3>1. inner # Sentinel => Par(R, inner) = x
      BY <1>2, <1>3, <1>6, <2>0
    <3>2. rest # Sentinel => Par(R, rest) = x
      BY <1>2, <1>3, <1>6, <1>7, <2>0
    <3> QED BY <1>1, <1>3, <1>11, <2>1, <3>1, <3>2
  <2>2. CASE n = y
    <3>1. Par(R, x) = y /\ x \in Members(T)
      BY <1>3, <2>0, LiveAre
    <3>2. outer # Sentinel => Par(R, outer) = y
      BY <1>1, <1>2, <1>3, <1>6, <1>7, <2>0
    <3> QED BY <1>1, <1>3, <1>11, <2>2, <3>1, <3>2
  <2>3. CASE n = p /\ t = SideOf(T, x)
    BY <1>2, <1>3, <1>6, <1>11, <2>0, <2>3, LiveAre
  <2>4. CASE n # x /\ n # y /\ ~(n = p /\ t = SideOf(T, x))
    BY <1>3, <1>8, <1>12, <2>0, <2>4
  <2> QED BY <2>1, <2>2, <2>3, <2>4
<1>14. ASSUME NEW n \in Live(T)
       PROVE  /\ Par(R, n) \in Members(T)
              /\ Par(R, n) = Sentinel => n = Root(R)
              /\ Par(R, n) # Sentinel => \E t \in Sides : Kid(R, Par(R, n), t) = n
  <2>1. CASE n = x
    BY <1>2, <1>3, <1>6, <1>10, <1>11, <2>1, LiveAre
  <2>2. CASE n = y
    <3>1. Par(R, y) = p
      BY <1>2, <1>3, <1>10
    <3> QED BY <1>3, <1>9, <1>10, <1>11, <2>2, <3>1
  <2>3. CASE n = inner
    BY <1>1, <1>2, <1>3, <1>6, <1>10, <1>11, <2>3, LiveAre
  <2>4. CASE n # x /\ n # y /\ n # inner
    <3> DEFINE q == Par(T, n)
    <3>1. Par(R, n) = q /\ q \in Members(T)
      BY <1>6, <1>9, <1>10, <2>4
    <3>2. q = Sentinel => n = Root(T) /\ p # Sentinel
      BY <1>9, <2>4 DEF p
    <3>3. ASSUME q # Sentinel PROVE Kid(R, q, SideOf(T, n)) = n
      <4>1. q \in Live(T) /\ Kid(T, q, SideOf(T, n)) = n /\ SideOf(T, n) \in Sides
        BY <1>6, <1>9, <3>1, <3>3
      <4>2. CASE q = x
        BY <1>1, <1>11, <2>4, <4>1, <4>2 DEF rest
      <4>3. CASE q = y
        BY <1>1, <1>11, <2>4, <4>1, <4>3 DEF outer, inner
      <4>4. CASE q # x /\ q # y
        <5>1. ~(q = p /\ SideOf(T, n) = SideOf(T, x))
          BY <1>9, <2>4, <3>3, <4>1 DEF p
        <5> QED BY <1>12, <4>1, <4>4, <5>1
      <4> QED BY <4>2, <4>3, <4>4
    <3> QED BY <1>9, <1>10, <3>1, <3>2, <3>3
  <2> QED BY <2>1, <2>2, <2>3, <2>4
<1>15. ASSUME NEW n \in Live(T) PROVE LinksOf(R, n)
  BY <1>5, <1>13, <1>14, SideIs, <1>15 DEF LinksOf
\* What is under them.
<1>16. /\ v[x] = {x} \union u[rest] \union u[inner] /\ v[y] = u[x]
       /\ \A n \in Nodes : n # x /\ n # y => v[n] = u[n]
  BY <1>2, <1>3 DEF v
<1>17. ASSUME NEW n \in Live(T)
       PROVE  u[n] = {n} \union u[Kid(T, n, s)] \union u[Kid(T, n, o)]
  <2>1. u[n] = {n} \union u[Kid(T, n, "left")] \union u[Kid(T, n, "right")]
    BY DEF Shape, OrderOf
  <2> QED BY <1>1, <2>1, SidesAre
<1>18. /\ u[x] = {x} \union u[rest] \union u[y]
       /\ u[y] = {y} \union u[inner] \union u[outer]
  <2>1. y = Kid(T, x, o)
    OBVIOUS
  <2> QED BY <1>2, <1>17, <2>1 DEF rest, inner, outer
<1>19. v[rest] = u[rest] /\ v[inner] = u[inner] /\ v[outer] = u[outer]
  BY <1>2, <1>3, <1>7, <1>16
<1>20. ASSUME NEW n \in Live(T), NEW t \in Sides, n # x, n # y
       PROVE  v[Kid(R, n, t)] = u[Kid(T, n, t)]
  <2>1. CASE n = p /\ t = SideOf(T, x)
    BY <1>6, <1>9, <1>11, <1>16, <2>1 DEF p
  <2>2. CASE ~(n = p /\ t = SideOf(T, x))
    BY <1>3, <1>8, <1>12, <1>16, <1>20, <2>2
  <2> QED BY <2>1, <2>2
<1>21. ASSUME NEW n \in Live(T)
       PROVE  v[n] = {n} \union v[Kid(R, n, s)] \union v[Kid(R, n, o)]
  <2>1. CASE n = x
    BY <1>11, <1>16, <1>19, <2>1
  <2>2. CASE n = y
    BY <1>11, <1>16, <1>18, <1>19, <2>2
  <2>3. CASE n # x /\ n # y
    BY <1>1, <1>6, <1>16, <1>17, <1>20, <2>3
  <2> QED BY <2>1, <2>2, <2>3
<1>22. ASSUME NEW n \in Live(T), NEW t \in Sides, NEW m \in u[Kid(T, n, t)]
       PROVE  m # n /\ Toward(m, n) = t /\ m \in Keys
  <2>1. m \in Live(T)
    BY Under
  <2> QED BY <1>6, <2>1 DEF Shape, OrderOf
<1>23. ASSUME NEW n \in Live(T), NEW t \in Sides, NEW m \in v[Kid(R, n, t)]
       PROVE  m # n /\ Toward(m, n) = t
  <2>1. CASE n = x
    <3>1. (m \in u[rest] /\ t = s) \/ (m \in u[inner] /\ t = o)
      BY <1>1, <1>11, <1>19, <1>23, <2>1
    <3>2. u[inner] \subseteq u[Kid(T, x, o)]
      BY <1>18
    <3> QED BY <1>1, <1>22, <2>1, <3>1, <3>2 DEF rest
  <2>2. CASE n = y
    <3>1. Toward(x, y) = s
      BY <1>2, <1>3, TowardIs, SidesAre
    <3>2. CASE t = o
      BY <1>1, <1>11, <1>19, <1>22, <1>23, <2>2, <3>2 DEF outer
    <3>3. CASE t = s
      <4>1. m = x \/ m \in u[rest] \/ m \in u[inner]
        BY <1>11, <1>16, <1>23, <2>2, <3>3
      <4>2. CASE m = x
        BY <1>2, <2>2, <3>1, <3>3, <4>2
      <4>3. CASE m \in u[rest]
        <5>1. m # x /\ Toward(m, x) = s /\ m \in Keys
          BY <1>22, <4>3 DEF rest
        <5> QED BY <1>2, <1>3, <2>2, <3>1, <3>3, <5>1, TowardTransitive
      <4>4. CASE m \in u[inner]
        BY <1>2, <1>22, <2>2, <3>3, <4>4 DEF inner
      <4> QED BY <4>1, <4>2, <4>3, <4>4
    <3> QED BY <1>1, <3>2, <3>3
  <2>3. CASE n # x /\ n # y
    BY <1>20, <1>22, <1>23, <2>3
  <2> QED BY <2>1, <2>2, <2>3
<1>24. ASSUME NEW n \in Live(T) PROVE OrderOf(R, v, n)
  <2>1. v[n] = {n} \union v[Kid(R, n, "left")] \union v[Kid(R, n, "right")]
    BY <1>1, <1>21, SidesAre
  <2> QED BY <1>23, <2>1 DEF OrderOf
<1>25. v \in [Nodes -> SUBSET Live(T)]
  <2>1. \A n \in Nodes : u[n] \subseteq Live(T)
    BY DEF Shape
  <2>2. \A n \in Nodes : IF n = y THEN u[x] \subseteq Live(T) ELSE
                         IF n = x THEN {x} \union u[rest] \union u[inner] \subseteq Live(T)
                         ELSE u[n] \subseteq Live(T)
    BY <1>3, <2>1
  <2> QED BY <2>2 DEF v
<1>26. Root(R) \in Members(T) /\ v[Root(R)] = Live(T)
       /\ (Root(R) # Sentinel => Par(R, Root(R)) = Sentinel)
  <2>1. CASE p = Sentinel
    <3>1. x = Root(T) /\ Root(R) = y
      BY <1>9, <1>10, <2>1 DEF p
    <3> QED BY <1>2, <1>3, <1>10, <1>16, <2>1, <3>1, LiveAre DEF Shape
  <2>2. CASE p # Sentinel
    <3>1. Root(R) = Root(T) /\ Root(T) \in Members(T) /\ u[Root(T)] = Live(T)
          /\ (Root(T) # Sentinel => Par(T, Root(T)) = Sentinel)
      BY <1>10, <2>2 DEF Shape
    <3>2. Root(T) # x /\ Root(T) # y
      BY <1>6, <1>7, <2>2, <3>1 DEF p
    <3>3. Root(T) # Sentinel => Root(T) # inner
      BY <1>6, <1>7, <3>1
    <3> QED BY <1>3, <1>10, <1>16, <3>1, <3>2, <3>3
  <2> QED BY <2>1, <2>2
<1>27. /\ v[Sentinel] = {} /\ Par(R, Sentinel) \in Nodes
       /\ \A t \in Sides : Kid(R, Sentinel, t) = Sentinel
  BY <1>2, <1>6, <1>10, <1>16 DEF Shape
<1>28. Shape(R, v)
  <2> HIDE DEF v
  <2>1. R \in Trees
    BY DEF Turns
  <2> QED BY <1>4, <1>5, <1>15, <1>24, <1>25, <1>26, <1>27, <2>1 DEF Shape
<1> QED BY <1>4, <1>28

\* A child of a node has that node for its parent, and no other; and the other way round.
LEMMA OnlyParent ==
    ASSUME NEW T, NEW u, Shape(T, u), NEW c \in Live(T)
    PROVE  /\ \A n \in Live(T), t \in Sides : Kid(T, n, t) = c => n = Par(T, c) /\ t = SideOf(T, c)
           /\ Par(T, c) # c /\ SideOf(T, c) \in Sides
           /\ c # Root(T) => Par(T, c) \in Live(T)
           /\ c = Root(T) => Par(T, c) = Sentinel
           /\ Par(T, c) # Sentinel => /\ Par(T, c) \in Live(T)
                                      /\ Kid(T, Par(T, c), SideOf(T, c)) = c
<1>1. c # Sentinel /\ LinksOf(T, c)
  BY LiveAre DEF Shape
<1>2. \A n \in Live(T), t \in Sides : Kid(T, n, t) = c => n = Par(T, c) /\ t = SideOf(T, c)
  BY <1>1, SideOfChild
<1>3. Par(T, c) # Sentinel => Par(T, c) \in Live(T) /\ Kid(T, Par(T, c), SideOf(T, c)) = c
  BY <1>1, LiveAre DEF LinksOf
<1>4. Par(T, c) # c
  <2>1. CASE Par(T, c) = Sentinel
    BY <1>1, <2>1
  <2>2. CASE Par(T, c) # Sentinel
    BY <1>1, <1>3, <2>2, Under, SideIs
  <2> QED BY <2>1, <2>2
<1> QED BY <1>1, <1>2, <1>3, <1>4, SideIs DEF LinksOf, Shape

\* R is T, but for the colors.
SameLinks(T, R) ==
    /\ R \in Trees /\ Root(R) = Root(T)
    /\ \A n \in Nodes : /\ Par(R, n) = Par(T, n)
                        /\ \A t \in Sides : Kid(R, n, t) = Kid(T, n, t)

LEMMA SameShape ==
    ASSUME NEW T, NEW u, Shape(T, u), NEW R, SameLinks(T, R)
    PROVE  /\ Live(R) = Live(T) /\ Shape(R, u)
           /\ \A n \in Nodes : Par(T, n) \in Nodes => SideOf(R, n) = SideOf(T, n)
<1>1. Live(R) = Live(T) /\ Members(R) = Members(T)
  BY Names DEF SameLinks, Live, Members, Par
<1>2. \A n \in Nodes : Par(T, n) \in Nodes => SideOf(R, n) = SideOf(T, n)
  BY SidesAre DEF SameLinks, SideOf, Kid, Par
<1>3. ASSUME NEW n \in Live(T) PROVE LinksOf(R, n) /\ OrderOf(R, u, n)
  <2>1. n \in Nodes /\ LinksOf(T, n) /\ OrderOf(T, u, n)
    BY LiveAre, Names DEF Shape
  <2>2. Par(T, n) \in Nodes /\ SideOf(T, n) \in Sides
    BY <2>1, LiveAre, SideIs DEF LinksOf
  <2>3. \A t \in Sides : Kid(T, n, t) \in Nodes
    BY <2>1, LiveAre DEF LinksOf
  <2>4. LinksOf(R, n)
    BY <1>1, <1>2, <2>1, <2>2, <2>3 DEF SameLinks, LinksOf
  <2>5. OrderOf(R, u, n)
    BY <2>1, SidesAre DEF SameLinks, OrderOf
  <2> QED BY <2>4, <2>5
<1>4. Root(T) \in Nodes /\ Sentinel \in Nodes
  BY LiveAre, Names DEF Shape
<1> QED BY <1>1, <1>2, <1>3, <1>4 DEF SameLinks, Shape

Dyes == {"red", "black"}

LEMMA Colors == "red" \in Dyes /\ "black" \in Dyes
BY DEF Dyes

LEMMA Dyed ==
    ASSUME NEW T, NEW R, SameLinks(T, R), NEW n \in Nodes, NEW c \in Dyes
    PROVE  /\ SameLinks(T, Dye(R, n, c))
           /\ \A m \in Nodes : Color(Dye(R, n, c), m) = IF m = n THEN c ELSE Color(R, m)
<1>1. Dye(R, n, c) = SetColor(R, n, c)
  BY DEF Dye, SetColor
<1>2. R \in Trees
  BY DEF SameLinks
<1> QED BY <1>1, <1>2, WriteColor DEF SameLinks, Dyes

\* A rotation of T, after it has been dyed.
LEMMA RotateDyed ==
    ASSUME NEW T, NEW u, Shape(T, u), NEW D, SameLinks(T, D), NEW x \in Live(T), NEW s \in Sides,
           Kid(T, x, Other(s)) # Sentinel
    PROVE  LET R == Rotate(D, x, s)
           IN  /\ Turns(T, R, x, Kid(T, x, Other(s)), s)
               /\ Live(R) = Live(T) /\ \E v : Shape(R, v)
               /\ \A n \in Nodes : Color(R, n) = Color(D, n)
<1> DEFINE R == Rotate(D, x, s)
           y == Kid(T, x, Other(s))
<1>1. Shape(D, u) /\ Live(D) = Live(T)
  BY SameShape
<1>2. x \in Nodes /\ Other(s) \in Sides /\ y \in Nodes /\ Par(T, x) \in Nodes
  BY LiveAre, Names, SidesAre DEF Shape, LinksOf
<1>3. Kid(D, x, Other(s)) = y /\ Kid(D, y, s) = Kid(T, y, s) /\ Par(D, x) = Par(T, x)
      /\ SideOf(D, x) = SideOf(T, x)
  BY <1>2, SameShape DEF SameLinks
<1>4. Turns(D, R, x, y, s) /\ \A n \in Nodes : Color(R, n) = Color(D, n)
  BY <1>1, <1>3, RotateTurns
<1> HIDE DEF R
<1>5. Turns(T, R, x, y, s)
  BY <1>3, <1>4 DEF Turns, SameLinks
<1>6. Live(R) = Live(T) /\ \E v : Shape(R, v)
  BY <1>5, RotatedShape
<1> QED BY <1>4, <1>5, <1>6 DEF R

LEMMA TurnedKids ==
    ASSUME NEW T, NEW u, Shape(T, u), NEW x \in Live(T), NEW s \in Sides,
           NEW y, y = Kid(T, x, Other(s)), y # Sentinel, NEW R, Turns(T, R, x, y, s)
    PROVE  /\ Kid(R, x, Other(s)) = Kid(T, y, s) /\ Kid(R, x, s) = Kid(T, x, s)
           /\ Kid(R, y, s) = x /\ Kid(R, y, Other(s)) = Kid(T, y, Other(s))
           /\ Par(R, x) = y /\ Par(R, y) = Par(T, x)
           /\ Par(T, x) # Sentinel => Kid(R, Par(T, x), SideOf(T, x)) = y /\ Root(R) = Root(T)
           /\ Par(T, x) = Sentinel => Root(R) = y
           /\ y \in Live(T) /\ x # y /\ Par(T, x) # x /\ Par(T, x) # y /\ Par(T, y) = x
           /\ Kid(T, y, s) # x /\ Kid(T, y, s) # y
           /\ \A n \in Live(T), t \in Sides :
                 n # x /\ n # y /\ ~(n = Par(T, x) /\ t = SideOf(T, x)) =>
                    Kid(R, n, t) = Kid(T, n, t) /\ Kid(T, n, t) # x /\ Kid(T, n, t) # y
           /\ \A n \in Nodes : n # x /\ n # y /\ ~(n = Kid(T, y, s) /\ n # Sentinel) =>
                 Par(R, n) = Par(T, n)
           /\ Kid(T, y, s) # Sentinel => Par(R, Kid(T, y, s)) = x
<1>1. Other(s) \in Sides /\ Other(s) # s /\ Other(Other(s)) = s
  BY SidesAre
<1>2. /\ y \in Live(T) /\ x # y /\ Par(T, x) # x /\ Par(T, x) # y
      /\ Kid(T, y, s) # x /\ Kid(T, y, s) # y
  BY <1>1, Family
<1>3. /\ x \in Nodes /\ y \in Nodes /\ x # Sentinel /\ y # Sentinel /\ Par(T, x) \in Nodes
      /\ Kid(T, y, s) \in Nodes /\ SideOf(T, x) \in Sides
      /\ \A n \in Live(T) : n \in Nodes /\ n # Sentinel
  BY <1>2, LiveAre, Names, SideIs DEF Shape, LinksOf
<1>4. Par(T, y) = x /\ SideOf(T, y) = Other(s)
  BY <1>1, <1>3, SideOfChild
<1>5. ASSUME NEW n \in Live(T), NEW t \in Sides, n # x, n # y, ~(n = Par(T, x) /\ t = SideOf(T, x))
      PROVE  Kid(R, n, t) = Kid(T, n, t) /\ Kid(T, n, t) # x /\ Kid(T, n, t) # y
  <2>1. Kid(R, n, t) = Kid(T, n, t)
    BY <1>3, <1>5 DEF Turns
  <2>2. Kid(T, n, t) # x
    BY <1>5, OnlyParent
  <2>3. Kid(T, n, t) # y
    BY <1>2, <1>4, <1>5, OnlyParent
  <2> QED BY <2>1, <2>2, <2>3
<1> QED BY <1>1, <1>2, <1>3, <1>4, <1>5 DEF Turns

\* What is changed by a rotation is changed for x and y alone.
LEMMA TurnedBalance ==
    ASSUME NEW T, NEW u, Shape(T, u), NEW x \in Live(T), NEW s \in Sides,
           NEW y, y = Kid(T, x, Other(s)), y # Sentinel, NEW R, Turns(T, R, x, y, s),
           NEW b, NEW b1, b1[y] = b[x], \A n \in Nodes : n # x /\ n # y => b1[n] = b[n],
           NEW n \in Live(T), n # x, n # y, NEW t \in Sides
    PROVE  b1[Kid(R, n, t)] = b[Kid(T, n, t)]
<1>1. Kid(T, n, t) \in Nodes
  BY LiveAre DEF Shape, LinksOf
<1>2. CASE n = Par(T, x) /\ t = SideOf(T, x)
  <2>1. Par(T, x) # Sentinel
    BY <1>2, LiveAre
  <2>2. Kid(R, n, t) = y /\ Kid(T, n, t) = x
    BY <1>2, <2>1, TurnedKids, OnlyParent
  <2> QED BY <2>2
<1>3. CASE ~(n = Par(T, x) /\ t = SideOf(T, x))
  <2>1. Kid(R, n, t) = Kid(T, n, t) /\ Kid(T, n, t) # x /\ Kid(T, n, t) # y
    BY <1>3, TurnedKids
  <2> QED BY <1>1, <2>1
<1> QED BY <1>2, <1>3

-----------------------------------------------------------------------------
(***************************************************************************)
(* Insert's rounds                                                         *)
(***************************************************************************)
\* No red node but e is the root, or has a red parent, unless that is f.
Apart(T, e, f) ==
    \A n \in Live(T) : Color(T, n) = "red" /\ n # e =>
       n # Root(T) /\ (Color(T, Par(T, n)) = "red" => Par(T, n) = f)

\* The tree when nothing is to be repaired.
InOrder(T, b) == Balanced(T, b, Sentinel, "left") /\ Apart(T, Sentinel, Sentinel)

\* The tree when n may be at odds with its parent.
Inserting(T, b, n) ==
    /\ Balanced(T, b, Sentinel, "left") /\ Apart(T, n, Sentinel)
    /\ n \in Live(T) /\ Color(T, n) = "red"

LEMMA BalancedIs ==
    ASSUME NEW T, NEW u, Shape(T, u), NEW b, NEW p, NEW t, Balanced(T, b, p, t)
    PROVE  /\ b \in [Nodes -> Nat] /\ b[Sentinel] = 0 /\ Color(T, Sentinel) = "black"
           /\ \A n \in Nodes : b[n] \in Nat /\ Black(T, n) \in {0, 1}
           /\ \A n \in Live(T), s \in Sides :
                 /\ Kid(T, n, s) \in Nodes /\ n \in Nodes /\ n # Sentinel
                 /\ b[n] = Black(T, n) + b[Kid(T, n, s)] + (IF n = p /\ s = t THEN 1 ELSE 0)
                 /\ ~(n = p /\ s = t) => b[n] = Black(T, n) + b[Kid(T, n, s)]
                 /\ n = p /\ s = t => b[n] = Black(T, n) + b[Kid(T, n, s)] + 1
<1>1. b \in [Nodes -> Nat] /\ \A n \in Nodes : b[n] \in Nat /\ Black(T, n) \in {0, 1}
  BY DEF Balanced, Black
<1>2. \A n \in Live(T), s \in Sides : Kid(T, n, s) \in Nodes /\ n \in Nodes /\ n # Sentinel
  BY LiveAre, Names DEF Shape, LinksOf
<1>3. ASSUME NEW n \in Live(T), NEW s \in Sides
      PROVE  b[n] = Black(T, n) + b[Kid(T, n, s)] + (IF n = p /\ s = t THEN 1 ELSE 0)
  BY DEF Balanced
<1>4. ASSUME NEW n \in Live(T), NEW s \in Sides, ~(n = p /\ s = t)
      PROVE  b[n] = Black(T, n) + b[Kid(T, n, s)]
  <2>1. b[Kid(T, n, s)] \in Nat /\ Black(T, n) \in {0, 1}
    BY <1>1, <1>2
  <2> QED BY <1>3, <1>4, <2>1
<1> QED BY <1>1, <1>2, <1>3, <1>4 DEF Balanced

LEMMA RedParentIs ==
    ASSUME NEW T, NEW u, Shape(T, u), NEW b, NEW n, Inserting(T, b, n),
           Color(T, Par(T, n)) = "red"
    PROVE  LET p == Par(T, n)
               g == Par(T, p)
               w == Kid(T, g, Other(SideOf(T, p)))
           IN  /\ p \in Live(T) /\ g \in Live(T) /\ p # n /\ g # n /\ g # p
               /\ Color(T, g) = "black"
               /\ SideOf(T, p) \in Sides /\ SideOf(T, n) \in Sides
               /\ Kid(T, g, SideOf(T, p)) = p /\ Kid(T, p, SideOf(T, n)) = n
               /\ w \in Members(T) /\ w # p /\ w # g /\ w # n
               /\ w # Sentinel => w \in Live(T) /\ Par(T, w) = g
<1> DEFINE p == Par(T, n)
           g == Par(T, p)
           w == Kid(T, g, Other(SideOf(T, p)))
<1>1. n \in Live(T) /\ Color(T, n) = "red" /\ Color(T, Sentinel) = "black" /\ Apart(T, n, Sentinel)
  BY DEF Inserting, Balanced
<1>2. p # Sentinel
  BY <1>1
<1>3. p \in Live(T) /\ Kid(T, p, SideOf(T, n)) = n /\ p # n /\ SideOf(T, n) \in Sides
  BY <1>1, <1>2, OnlyParent
<1> HIDE DEF p
<1>4. p # Root(T) /\ (Color(T, g) = "red" => g = Sentinel)
  BY <1>1, <1>3 DEF p, Apart
<1>5. g \in Live(T) /\ g # p /\ Kid(T, g, SideOf(T, p)) = p /\ SideOf(T, p) \in Sides
  BY <1>3, <1>4, OnlyParent, LiveAre
<1>6. g \in Nodes /\ Color(T, g) = "black"
  BY <1>1, <1>4, <1>5, LiveAre, Names, TreeParts DEF Shape
<1>7. g # n
  BY <1>1, <1>6
<1>8. Other(SideOf(T, p)) \in Sides /\ Other(SideOf(T, p)) # SideOf(T, p)
  BY <1>5, SidesAre
<1>9. w \in Members(T)
  BY <1>5, <1>8 DEF Shape, LinksOf
<1>10. w # p
  BY <1>3, <1>5, <1>8, OnlyParent
<1>11. w # Sentinel => w \in Live(T) /\ Par(T, w) = g
  BY <1>5, <1>8, <1>9, SideOfChild, LiveAre
<1>12. w # g /\ w # n
  BY <1>1, <1>3, <1>5, <1>7, <1>10, <1>11, OnlyParent, LiveAre DEF p
<1> QED BY <1>3, <1>5, <1>6, <1>7, <1>9, <1>10, <1>11, <1>12 DEF p

\* The grandparent's black goes to its children.
LEMMA RecolorKeeps ==
    ASSUME NEW T, NEW u, Shape(T, u), NEW b, NEW n, Inserting(T, b, n),
           NEW p, p = Par(T, n), Color(T, p) = "red", NEW g, g = Par(T, p),
           NEW w, w = Kid(T, g, Other(SideOf(T, p))), Color(T, w) = "red"
    PROVE  LET R == Dye(Dye(Dye(T, p, "black"), w, "black"), g, "red")
           IN  /\ SameLinks(T, R) /\ Live(R) = Live(T) /\ Shape(R, u)
               /\ \E d : Inserting(R, d, g)
<1> DEFINE D == Dye(T, p, "black")
           E == Dye(D, w, "black")
           R == Dye(E, g, "red")
           d == [m \in Nodes |-> IF m = p \/ m = w THEN b[m] + 1 ELSE b[m]]
<1>1. /\ p \in Live(T) /\ g \in Live(T) /\ p # n /\ g # n /\ g # p /\ Color(T, g) = "black"
      /\ SideOf(T, p) \in Sides /\ Kid(T, g, SideOf(T, p)) = p
      /\ w \in Members(T) /\ w # p /\ w # g /\ w # n
      /\ w # Sentinel => w \in Live(T) /\ Par(T, w) = g
  BY RedParentIs
<1>2. /\ n \in Live(T) /\ Color(T, n) = "red" /\ Apart(T, n, Sentinel)
      /\ Color(T, Sentinel) = "black" /\ b[Sentinel] = 0 /\ b \in [Nodes -> Nat]
      /\ \A m \in Live(T), t \in Sides : b[m] = Black(T, m) + b[Kid(T, m, t)]
  <2>1. Balanced(T, b, Sentinel, "left")
    BY DEF Inserting
  <2>2. \A m \in Live(T), t \in Sides : m # Sentinel /\ b[m] = Black(T, m) + b[Kid(T, m, t)]
    BY <2>1, BalancedIs
  <2> QED BY <2>1, <2>2, BalancedIs DEF Inserting
<1>3. w # Sentinel /\ w \in Live(T) /\ Par(T, w) = g
  BY <1>1, <1>2
<1>4. p \in Nodes /\ w \in Nodes /\ g \in Nodes /\ \A m \in Live(T) : m \in Nodes /\ m # Sentinel
  BY <1>1, <1>3, LiveAre, Names
<1>5. SameLinks(T, T)
  BY DEF SameLinks, Shape
<1>6. SameLinks(T, D) /\ \A m \in Nodes : Color(D, m) = IF m = p THEN "black" ELSE Color(T, m)
  BY <1>4, <1>5, Dyed, Colors
<1> HIDE DEF D
<1>7. SameLinks(T, E) /\ \A m \in Nodes : Color(E, m) = IF m = w THEN "black" ELSE Color(D, m)
  BY <1>4, <1>6, Dyed, Colors
<1> HIDE DEF E
<1>8. SameLinks(T, R) /\ \A m \in Nodes : Color(R, m) = IF m = g THEN "red" ELSE Color(E, m)
  BY <1>4, <1>7, Dyed, Colors
<1> HIDE DEF R
<1>9. \A m \in Nodes : Color(R, m) = IF m = g THEN "red" ELSE IF m = p \/ m = w THEN "black"
                                     ELSE Color(T, m)
  BY <1>6, <1>7, <1>8
<1>10. Live(R) = Live(T) /\ Shape(R, u)
  BY <1>8, SameShape
<1>11. Kid(T, g, Other(SideOf(T, p))) = w
  OBVIOUS
<1>12. ASSUME NEW m \in Live(T), NEW t \in Sides
       PROVE  d[m] = Black(R, m) + d[Kid(T, m, t)]
  <2>1. Kid(T, m, t) \in Nodes
    BY LiveAre DEF Shape, LinksOf
  <2>2. Kid(T, m, t) = p \/ Kid(T, m, t) = w => m = g
    BY <1>1, <1>3, OnlyParent
  <2>3. m = g => Kid(T, m, t) = p \/ Kid(T, m, t) = w
    BY <1>1, <1>11, SidesAre
  <2>4. b[m] = Black(T, m) + b[Kid(T, m, t)] /\ b[m] \in Nat /\ b[Kid(T, m, t)] \in Nat
    BY <1>2, <1>4, <2>1
  <2>5. CASE m = g
    <3>1. Black(R, m) = 0 /\ Black(T, m) = 1
      BY <1>1, <1>4, <1>9, <2>5 DEF Black
    <3> QED BY <1>1, <1>4, <2>1, <2>3, <2>4, <2>5, <3>1
  <2>6. CASE m = p \/ m = w
    <3>1. Black(R, m) = 1 /\ Black(T, m) = 0
      BY <1>1, <1>4, <1>9, <2>6 DEF Black
    <3> QED BY <1>1, <1>4, <2>1, <2>2, <2>4, <2>6, <3>1
  <2>7. CASE m # g /\ m # p /\ m # w
    <3>1. Black(R, m) = Black(T, m)
      BY <1>4, <1>9, <2>7 DEF Black
    <3> QED BY <1>4, <2>1, <2>2, <2>4, <2>7, <3>1
  <2> QED BY <2>5, <2>6, <2>7
<1>13. Balanced(R, d, Sentinel, "left")
  <2>1. d \in [Nodes -> Nat] /\ d[Sentinel] = 0
    BY <1>1, <1>2, <1>3, <1>4, Names
  <2>2. Color(R, Sentinel) = "black"
    BY <1>1, <1>2, <1>4, <1>9, Names
  <2> HIDE DEF d
  <2>3. \A m \in Live(R), t \in Sides : d[m] = Black(R, m) + d[Kid(R, m, t)] + 0
    <3>1. \A m \in Live(T), t \in Sides :
             Kid(R, m, t) = Kid(T, m, t) /\ d[Kid(T, m, t)] \in Nat /\ Black(R, m) \in Nat
      <4>1. \A m \in Live(T), t \in Sides : Kid(T, m, t) \in Nodes
        BY LiveAre DEF Shape, LinksOf
      <4> QED BY <1>4, <1>8, <2>1, <4>1 DEF SameLinks, Black
    <3> QED BY <1>10, <1>12, <3>1
  <2> QED BY <1>4, <1>10, <2>1, <2>2, <2>3 DEF Balanced
<1>14. Apart(R, g, Sentinel)
  <2>1. ASSUME NEW m \in Live(T), Color(R, m) = "red", m # g
        PROVE  m # Root(T) /\ Color(R, Par(T, m)) = "black"
    <3>1. Par(T, m) \in Nodes
      BY LiveAre DEF Shape, LinksOf
    <3>2. m # p /\ m # w /\ Color(T, m) = "red"
      BY <1>4, <1>9, <2>1
    <3>3. CASE m = n
      <4>1. m # Root(T) /\ Par(T, m) = p
        BY <1>1, <1>4, <3>3, OnlyParent
      <4> QED BY <1>1, <1>4, <1>9, <4>1
    <3>4. CASE m # n
      <4>1. m # Root(T) /\ (Color(T, Par(T, m)) = "red" => Par(T, m) = Sentinel)
        BY <1>2, <3>2, <3>4 DEF Apart
      <4>2. Color(T, Par(T, m)) = "black"
        BY <1>2, <3>1, <4>1, TreeParts DEF Shape
      <4>3. Par(T, m) # g
        <5>1. Par(T, m) = g => Kid(T, g, SideOf(T, m)) = m /\ SideOf(T, m) \in Sides
          BY <1>4, <1>1, OnlyParent
        <5> QED BY <1>1, <1>11, <3>2, <5>1, SidesAre
      <4> QED BY <1>9, <3>1, <4>1, <4>2, <4>3
    <3> QED BY <3>3, <3>4
  <2>2. Root(R) = Root(T) /\ \A m \in Live(T) : Par(R, m) = Par(T, m)
    BY <1>4, <1>8 DEF SameLinks
  <2> QED BY <1>10, <2>1, <2>2 DEF Apart
<1>15. Inserting(R, d, g)
  BY <1>1, <1>4, <1>9, <1>10, <1>13, <1>14 DEF Inserting
<1> QED BY <1>8, <1>10, <1>15 DEF R, E, D

\* Case 2: the inner grandchild comes up between its parent and its grandparent.
LEMMA InnerTurns ==
    ASSUME NEW T, NEW u, Shape(T, u), NEW b, NEW n, Inserting(T, b, n),
           Color(T, Par(T, n)) = "red", SideOf(T, n) = Other(SideOf(T, Par(T, n)))
    PROVE  LET p == Par(T, n)
               g == Par(T, p)
               s == SideOf(T, p)
               R == Rotate(T, p, s)
           IN  /\ Live(R) = Live(T) /\ (\E v : Shape(R, v)) /\ Inserting(R, b, p)
               /\ Par(R, p) = n /\ Par(R, n) = g /\ SideOf(R, n) = s /\ SideOf(R, p) = s
               /\ Kid(R, g, Other(s)) = Kid(T, g, Other(s))
               /\ \A m \in Nodes : Color(R, m) = Color(T, m)
<1> DEFINE p == Par(T, n)
           g == Par(T, p)
           s == SideOf(T, p)
           o == Other(s)
           R == Rotate(T, p, s)
<1>1. /\ p \in Live(T) /\ g \in Live(T) /\ p # n /\ g # n /\ g # p /\ Color(T, g) = "black"
      /\ s \in Sides /\ Kid(T, g, s) = p /\ Kid(T, p, o) = n
  BY RedParentIs
<1>2. /\ n \in Live(T) /\ Color(T, n) = "red" /\ Color(T, p) = "red" /\ Apart(T, n, Sentinel)
      /\ Balanced(T, b, Sentinel, "left")
  BY DEF Inserting
<1>3. SameLinks(T, T) /\ n # Sentinel /\ Color(T, Sentinel) = "black"
      /\ o \in Sides /\ o # s /\ Other(o) = s /\ \A t \in Sides : t = s \/ t = o
  BY <1>1, <1>2, LiveAre, SidesAre DEF SameLinks, Shape, Balanced
<1> HIDE DEF p, g, s, o
<1>4. /\ Turns(T, R, p, n, s) /\ Live(R) = Live(T) /\ \E v : Shape(R, v)
      /\ \A m \in Nodes : Color(R, m) = Color(T, m)
  <2>1. Kid(T, p, Other(s)) = n
    BY <1>1 DEF o
  <2> QED BY <1>1, <1>3, <2>1, RotateDyed
<1>5. PICK v : Shape(R, v)
  BY <1>4
<1> HIDE DEF R
<1>6. /\ Kid(R, p, o) = Kid(T, n, s) /\ Kid(R, p, s) = Kid(T, p, s)
      /\ Kid(R, n, s) = p /\ Kid(R, n, o) = Kid(T, n, o)
      /\ Par(R, p) = n /\ Par(R, n) = g
      /\ Kid(R, g, s) = n /\ Root(R) = Root(T)
      /\ \A m \in Live(T), t \in Sides :
            m # p /\ m # n /\ ~(m = g /\ t = s) => Kid(R, m, t) = Kid(T, m, t)
      /\ \A m \in Nodes : m # p /\ m # n /\ ~(m = Kid(T, n, s) /\ m # Sentinel) =>
            Par(R, m) = Par(T, m)
      /\ Par(T, n) = p
  <2>1. n = Kid(T, p, Other(s)) /\ Par(T, p) = g /\ SideOf(T, p) = s /\ g # Sentinel
    BY <1>1, LiveAre DEF o, g, s
  <2> QED BY <1>1, <1>3, <1>4, <2>1, TurnedKids DEF o
<1>7. SideOf(R, n) = s /\ SideOf(R, p) = s
  <2>1. n \in Live(R) /\ p \in Live(R) /\ g \in Live(R)
    BY <1>1, <1>2, <1>4
  <2> QED BY <1>1, <1>5, <1>6, <2>1, OnlyParent
<1>8. Kid(R, g, o) = Kid(T, g, o)
  BY <1>1, <1>3, <1>6
<1>9. Balanced(R, b, Sentinel, "left")
  <2>1. b[n] = b[p] /\ \A t \in Sides : b[Kid(T, p, t)] = b[p] /\ b[Kid(T, n, t)] = b[n]
    <3>1. Black(T, n) = 0 /\ Black(T, p) = 0
      BY <1>2 DEF Black
    <3>2. \A m \in {n, p}, t \in Sides : b[m] = Black(T, m) + b[Kid(T, m, t)] /\ b[m] \in Nat
                                         /\ b[Kid(T, m, t)] \in Nat /\ m # Sentinel
      BY <1>1, <1>2, BalancedIs, LiveAre
    <3> QED BY <1>1, <1>3, <3>1, <3>2
  <2>2. \A m \in Live(T) : Black(R, m) = Black(T, m)
    BY <1>4, LiveAre, Names DEF Black
  <2>3. ASSUME NEW m \in Live(T), NEW t \in Sides PROVE b[Kid(R, m, t)] = b[Kid(T, m, t)]
    <3>1. CASE m = p \/ m = n
      <4>1. b[Kid(R, p, o)] = b[p] /\ b[Kid(R, p, s)] = b[p]
        BY <1>1, <1>3, <1>6, <2>1
      <4>2. b[Kid(R, n, s)] = b[n] /\ b[Kid(R, n, o)] = b[n]
        BY <1>3, <1>6, <2>1
      <4> QED BY <1>3, <2>1, <3>1, <4>1, <4>2
    <3>2. CASE m # p /\ m # n
      <4>1. n = Kid(T, p, Other(s))
        BY <1>1 DEF o
      <4> QED BY <1>1, <1>3, <1>4, <2>1, <2>3, <3>2, <4>1, TurnedBalance
    <3> QED BY <3>1, <3>2
  <2>4. Color(R, Sentinel) = "black" /\ b \in [Nodes -> Nat] /\ b[Sentinel] = 0
    BY <1>2, <1>3, <1>4, Names DEF Balanced
  <2>5. \A m \in Live(T), t \in Sides :
           b[m] = Black(T, m) + b[Kid(T, m, t)] + (IF m = Sentinel /\ t = "left" THEN 1 ELSE 0)
    BY <1>2 DEF Balanced
  <2>6. ASSUME NEW m \in Live(T), NEW t \in Sides
        PROVE  b[m] = Black(R, m) + b[Kid(R, m, t)] + (IF m = Sentinel /\ t = "left" THEN 1 ELSE 0)
    BY <2>2, <2>3, <2>5
  <2> QED BY <1>4, <2>4, <2>6 DEF Balanced
<1>10. Apart(R, p, Sentinel)
  <2>1. ASSUME NEW m \in Live(T), Color(R, m) = "red", m # p
        PROVE  m # Root(R) /\ Color(R, Par(R, m)) = "black"
    <3>1. CASE m = n
      <4>1. Par(R, m) = g /\ g # Sentinel /\ m \in Live(R) /\ g \in Nodes
        BY <1>1, <1>4, <1>6, <3>1, LiveAre, Names
      <4> QED BY <1>1, <1>4, <1>5, <4>1, OnlyParent
    <3>2. CASE m # n
      <4>1. m \in Nodes /\ Par(T, m) \in Nodes
        BY LiveAre, Names DEF Shape, LinksOf
      <4>2. m # Root(T) /\ (Color(T, Par(T, m)) = "red" => Par(T, m) = Sentinel)
        BY <1>2, <1>4, <2>1, <3>2, <4>1 DEF Apart
      <4>3. Color(T, Par(T, m)) = "black"
        BY <1>3, <4>1, <4>2, TreeParts DEF Shape
      <4>4. m = Kid(T, n, s) => m = Sentinel \/ Par(T, m) = n
        BY <1>1, <1>2, SideOfChild
      <4>5. Par(R, m) = Par(T, m)
        BY <1>2, <1>6, <2>1, <3>2, <4>1, <4>3, <4>4, LiveAre
      <4> QED BY <1>4, <1>6, <4>1, <4>2, <4>3, <4>5
    <3> QED BY <3>1, <3>2
  <2> QED BY <1>4, <2>1 DEF Apart
<1>11. Inserting(R, b, p)
  BY <1>1, <1>2, <1>4, <1>9, <1>10, LiveAre, Names DEF Inserting
<1> QED BY <1>4, <1>6, <1>7, <1>8, <1>11 DEF p, g, s, o, R

\* Case 3: the parent comes up over the grandparent, and takes its black.
LEMMA OuterTurns ==
    ASSUME NEW T, NEW u, Shape(T, u), NEW b, NEW n, Inserting(T, b, n),
           Color(T, Par(T, n)) = "red", SideOf(T, n) = SideOf(T, Par(T, n)),
           Color(T, Kid(T, Par(T, Par(T, n)), Other(SideOf(T, n)))) = "black"
    PROVE  LET p == Par(T, n)
               g == Par(T, p)
               R == Rotate(Dye(Dye(T, p, "black"), g, "red"), g, Other(SideOf(T, p)))
           IN  /\ Live(R) = Live(T) /\ (\E v : Shape(R, v)) /\ (\E d : Inserting(R, d, n))
               /\ Par(R, Sentinel) = Par(T, Sentinel) /\ Color(R, Par(R, n)) = "black"
<1> DEFINE p == Par(T, n)
           g == Par(T, p)
           s == SideOf(T, p)
           o == Other(s)
           w == Kid(T, g, o)
           inner == Kid(T, p, o)
           D == Dye(Dye(T, p, "black"), g, "red")
           R == Rotate(D, g, o)
           d == [m \in Nodes |-> IF m = p THEN b[g] ELSE IF m = g THEN b[g] - 1 ELSE b[m]]
<1>1. /\ p \in Live(T) /\ g \in Live(T) /\ p # n /\ g # n /\ g # p /\ Color(T, g) = "black"
      /\ s \in Sides /\ Kid(T, g, s) = p /\ Kid(T, p, s) = n
  BY RedParentIs
<1>2. /\ n \in Live(T) /\ Color(T, n) = "red" /\ Color(T, p) = "red" /\ Apart(T, n, Sentinel)
      /\ Balanced(T, b, Sentinel, "left") /\ Color(T, w) = "black"
  BY DEF Inserting
<1>3. SameLinks(T, T) /\ n # Sentinel /\ Color(T, Sentinel) = "black"
      /\ o \in Sides /\ o # s /\ Other(o) = s /\ \A t \in Sides : t = s \/ t = o
  BY <1>1, <1>2, LiveAre, SidesAre DEF SameLinks, Shape, Balanced
<1>4. p \in Nodes /\ g \in Nodes /\ p # Sentinel /\ g # Sentinel
  BY <1>1, LiveAre, Names
<1>5. SameLinks(T, D) /\ \A m \in Nodes :
         Color(D, m) = IF m = g THEN "red" ELSE IF m = p THEN "black" ELSE Color(T, m)
  <2> HIDE DEF p, g
  <2> DEFINE C == Dye(T, p, "black")
  <2>1. SameLinks(T, C) /\ \A m \in Nodes : Color(C, m) = IF m = p THEN "black" ELSE Color(T, m)
    BY <1>3, <1>4, Dyed, Colors
  <2> HIDE DEF C
  <2>2. /\ SameLinks(T, Dye(C, g, "red"))
        /\ \A m \in Nodes : Color(Dye(C, g, "red"), m) = IF m = g THEN "red" ELSE Color(C, m)
    BY <1>4, <2>1, Dyed, Colors
  <2> QED BY <2>1, <2>2 DEF C
<1> HIDE DEF p, g, s, o, D
<1>6. /\ Turns(T, R, g, p, o) /\ Live(R) = Live(T) /\ \E v : Shape(R, v)
      /\ \A m \in Nodes : Color(R, m) = Color(D, m)
  <2>1. Kid(T, g, Other(o)) = p
    BY <1>1, <1>3
  <2> QED BY <1>1, <1>3, <1>4, <1>5, <2>1, RotateDyed
<1>7. PICK v : Shape(R, v)
  BY <1>6
<1> HIDE DEF R
<1>8. \A m \in Nodes :
         Color(R, m) = IF m = g THEN "red" ELSE IF m = p THEN "black" ELSE Color(T, m)
  BY <1>5, <1>6
<1>9. /\ Kid(R, g, s) = inner /\ Kid(R, g, o) = w
      /\ Kid(R, p, o) = g /\ Kid(R, p, s) = n
      /\ Par(R, g) = p
      /\ \A m \in Nodes : m # g /\ m # p /\ ~(m = inner /\ m # Sentinel) => Par(R, m) = Par(T, m)
      /\ Par(T, p) = g
  <2>1. p = Kid(T, g, Other(o)) /\ p # Sentinel
    BY <1>1, <1>3, <1>4
  <2> QED BY <1>1, <1>3, <1>6, <2>1, TurnedKids
<1> HIDE DEF w, inner
<1>10. /\ \A m \in Live(T), t \in Sides : b[m] = Black(T, m) + b[Kid(T, m, t)]
       /\ \A m \in Nodes : b[m] \in Nat /\ Black(T, m) \in {0, 1}
  <2>1. \A m \in Live(T) : m # Sentinel
    BY LiveAre
  <2> QED BY <1>2, <2>1, BalancedIs
<1>11. b[g] = b[p] + 1 /\ b[w] = b[p] /\ b[inner] = b[p] /\ b[n] = b[p] /\ b[p] \in Nat
  <2>1. Black(T, g) = 1 /\ Black(T, p) = 0
    BY <1>1, <1>2 DEF Black
  <2>2. /\ b[g] = Black(T, g) + b[p] /\ b[g] = Black(T, g) + b[w]
        /\ b[p] = Black(T, p) + b[n] /\ b[p] = Black(T, p) + b[inner]
    BY <1>1, <1>3, <1>10 DEF w, inner
  <2>3. w \in Nodes /\ inner \in Nodes /\ n \in Nodes
    BY <1>1, <1>2, <1>3, LiveAre, Names DEF w, inner, Shape, LinksOf
  <2> QED BY <1>4, <1>10, <2>1, <2>2, <2>3
<1>12. /\ d \in [Nodes -> Nat] /\ d[p] = b[g] /\ d[g] = b[p]
       /\ \A m \in Nodes : m # p /\ m # g => d[m] = b[m]
  BY <1>1, <1>4, <1>10, <1>11
<1> HIDE DEF d
<1>13. Balanced(R, d, Sentinel, "left")
  <2>1. Color(R, Sentinel) = "black" /\ d[Sentinel] = 0
    BY <1>2, <1>3, <1>4, <1>8, <1>12, Names DEF Balanced
  <2>2. n \in Nodes /\ w \in Nodes /\ inner \in Nodes /\ w # g /\ w # p /\ inner # g /\ inner # p
    <3>1. w \in Nodes /\ inner \in Nodes /\ n \in Nodes
      BY <1>1, <1>2, <1>3, LiveAre, Names DEF w, inner, Shape, LinksOf
    <3>2. w # g /\ w # p
      BY <1>1, <1>3, OnlyParent DEF w
    <3>3. inner # g /\ inner # p
      BY <1>1, <1>2, <1>3, <1>9, <1>10, <1>11, OnlyParent DEF inner
    <3> QED BY <3>1, <3>2, <3>3
  <2>3. ASSUME NEW m \in Live(T), NEW t \in Sides
        PROVE  d[m] = Black(R, m) + d[Kid(R, m, t)]
    <3>1. CASE m = g
      <4>1. Black(R, g) = 0 /\ d[Kid(R, g, t)] = b[p]
        BY <1>3, <1>4, <1>8, <1>9, <1>11, <1>12, <2>2 DEF Black
      <4> QED BY <1>11, <1>12, <3>1, <4>1
    <3>2. CASE m = p
      <4>1. Black(R, p) = 1 /\ d[Kid(R, p, t)] = b[p]
        BY <1>1, <1>3, <1>4, <1>8, <1>9, <1>11, <1>12, <2>2 DEF Black
      <4> QED BY <1>11, <1>12, <3>2, <4>1
    <3>3. CASE m # g /\ m # p
      <4>1. m \in Nodes
        BY LiveAre, Names
      <4>2. Black(R, m) = Black(T, m) /\ d[m] = b[m]
        BY <1>8, <1>12, <3>3, <4>1 DEF Black
      <4>3. p = Kid(T, g, Other(o)) /\ p # Sentinel
        BY <1>1, <1>3, <1>4
      <4>4. d[Kid(R, m, t)] = b[Kid(T, m, t)]
        BY <1>1, <1>3, <1>6, <1>12, <3>3, <4>3, TurnedBalance
      <4> QED BY <1>10, <4>2, <4>4
    <3> QED BY <3>1, <3>2, <3>3
  <2>4. \A m \in Live(T), t \in Sides : m # Sentinel /\ d[Kid(R, m, t)] \in Nat /\ Black(R, m) \in {0, 1}
    BY <1>6, <1>7, <1>12, LiveAre DEF Shape, LinksOf, Black
  <2> QED BY <1>6, <1>12, <2>1, <2>3, <2>4 DEF Balanced
<1>14. Apart(R, n, Sentinel)
  <2>1. ASSUME NEW m \in Live(T), Color(R, m) = "red", m # n
        PROVE  m # Root(R) /\ Color(R, Par(R, m)) = "black"
    <3>1. CASE m = g
      <4>1. Par(R, m) = p /\ m \in Live(R) /\ Color(R, p) = "black"
        BY <1>1, <1>4, <1>6, <1>8, <1>9, <3>1
      <4> QED BY <1>4, <1>7, <4>1, OnlyParent
    <3>2. CASE m # g
      <4>1. m \in Nodes /\ Par(T, m) \in Nodes
        BY LiveAre, Names DEF Shape, LinksOf
      <4>2. m # p /\ Color(T, m) = "red"
        BY <1>8, <2>1, <3>2, <4>1
      <4>3. m # Root(T) /\ (Color(T, Par(T, m)) = "red" => Par(T, m) = Sentinel)
        BY <1>2, <2>1, <4>2 DEF Apart
      <4>4. Color(T, Par(T, m)) = "black"
        BY <1>3, <4>1, <4>3, TreeParts DEF Shape
      <4>5. Par(T, m) # p /\ Par(T, m) \in Live(T)
        BY <1>2, <4>3, <4>4, OnlyParent
      <4>6. m = inner => m = Sentinel \/ Par(T, m) = p
        BY <1>1, <1>3, SideOfChild DEF inner
      <4>7. Par(R, m) = Par(T, m)
        BY <1>9, <3>2, <4>1, <4>2, <4>5, <4>6, LiveAre
      <4>8. Par(T, m) # g
        <5>1. Par(T, m) = g => Kid(T, g, SideOf(T, m)) = m /\ SideOf(T, m) \in Sides
          BY <1>4, OnlyParent
        <5> QED BY <1>1, <1>2, <1>3, <4>2, <5>1 DEF w
      <4>9. Color(R, Par(R, m)) = "black"
        BY <1>8, <4>1, <4>4, <4>7, <4>8
      <4>10. m # Root(R)
        BY <1>6, <1>7, <4>5, <4>7, OnlyParent, LiveAre
      <4> QED BY <4>9, <4>10
    <3> QED BY <3>1, <3>2
  <2> QED BY <1>6, <2>1 DEF Apart
<1>15. Inserting(R, d, n)
  BY <1>1, <1>2, <1>6, <1>8, <1>13, <1>14, LiveAre, Names DEF Inserting
<1>16. Par(R, Sentinel) = Par(T, Sentinel) /\ Color(R, Par(R, n)) = "black"
  <2>1. n # inner
    BY <1>1, <1>2, <1>3, OnlyParent DEF inner
  <2>2. Par(R, n) = p
    BY <1>1, <1>2, <1>9, <2>1, LiveAre, Names DEF p
  <2> QED BY <1>1, <1>4, <1>8, <1>9, <2>2, Names
<1> QED BY <1>6, <1>15, <1>16 DEF p, g, s, o, R, D

-----------------------------------------------------------------------------
(***************************************************************************)
(* Before and after Insert's rounds                                        *)
(***************************************************************************)
\* A walk down from the sentinel stays there.
LEMMA NothingDown ==
    ASSUME NEW T, NEW u, Shape(T, u), Root(T) = Sentinel, NEW way \in [Nodes -> Sides]
    PROVE  Down(T, Root(T), way) = Sentinel /\ Live(T) = {}
<1>1. Live(T) = {} /\ Members(T) = {Sentinel}
  BY LiveAre DEF Shape
<1> DEFINE IsDown(f) == f = [m \in Members(T) |-> IF Kid(T, m, way[m]) = Sentinel THEN m
                                                  ELSE f[Kid(T, m, way[m])]]
           F == CHOOSE f : IsDown(f)
           g == [m \in Members(T) |-> Sentinel]
<1>2. \A m \in Members(T) : m = Sentinel /\ Kid(T, m, way[m]) = Sentinel
  <2>1. way[Sentinel] \in Sides
    BY Names
  <2> QED BY <1>1, <2>1 DEF Shape
<1>3. IsDown(g)
  BY <1>2
<1>4. IsDown(F)
  BY <1>3
<1>5. Down(T, Sentinel, way) = F[Sentinel]
  BY Zenon DEF Down, Kid
<1>6. F[Sentinel] = Sentinel
  BY <1>1, <1>2, <1>4
<1> QED BY <1>1, <1>5, <1>6

\* Where a key that is not there belongs.
LEMMA PositionIs ==
    ASSUME NEW T, NEW u, Shape(T, u), NEW k \in Keys
    PROVE  LET p == Position(T, k)
           IN  \/ Live(T) = {} /\ Root(T) = Sentinel /\ p = Sentinel
               \/ /\ p \in Live(T) /\ Kid(T, p, Toward(k, p)) = Sentinel
                  /\ \A m \in Live(T), s \in Sides : p \in u[Kid(T, m, s)] => s = Toward(k, m)
<1> DEFINE way == [n \in Nodes |-> Toward(k, n)]
           p == Position(T, k)
<1>0. way \in [Nodes -> Sides]
  BY DEF Toward, Sides
<1>1. p = Down(T, Root(T), way)
  BY DEF Position, Root
<1>2. CASE Root(T) = Sentinel
  BY <1>0, <1>1, <1>2, NothingDown
<1>3. CASE Root(T) # Sentinel
  <2>1. Root(T) \in Live(T) /\ u[Root(T)] = Live(T)
    BY <1>3, LiveAre DEF Shape
  <2>2. Ends(T, u, Root(T), way, Down(T, Root(T), way))
    BY <1>0, <2>1, DownEnds
  <2>3. p \in Live(T) /\ Kid(T, p, way[p]) = Sentinel
        /\ \A m \in Live(T), s \in Sides : p \in u[Kid(T, m, s)] => s = way[m]
    BY <1>1, <2>1, <2>2 DEF Ends
  <2>4. \A m \in Live(T) : way[m] = Toward(k, m)
    BY LiveAre, Names
  <2> HIDE DEF p, way
  <2>5. p \in Live(T) /\ Kid(T, p, Toward(k, p)) = Sentinel
        /\ \A m \in Live(T), s \in Sides : p \in u[Kid(T, m, s)] => s = Toward(k, m)
    BY <2>3, <2>4
  <2> QED BY <2>5 DEF p
<1> QED BY <1>2, <1>3

\* R is T with a red leaf for k under p.
Leafed(T, R, k, p) ==
    /\ R \in Trees
    /\ Root(R) = IF p = Sentinel THEN k ELSE Root(T)
    /\ \A n \in Nodes :
          /\ Par(R, n) = IF n = k THEN p ELSE Par(T, n)
          /\ Color(R, n) = IF n = k THEN "red" ELSE Color(T, n)
          /\ \A t \in Sides :
                Kid(R, n, t) = IF n = k THEN Sentinel
                               ELSE IF n = p /\ p # Sentinel /\ t = Toward(k, p) THEN k
                               ELSE Kid(T, n, t)

LEMMA LeafedIs ==
    ASSUME NEW T \in Trees, NEW k \in Keys, NEW p \in Nodes, p # k
    PROVE  LET leaf == [T EXCEPT !.parent[k] = p, !.color[k] = "red",
                                 !.kid[k] = Kids(Sentinel, Sentinel)]
           IN  Leafed(T, IF p = Sentinel THEN [leaf EXCEPT !.root = k]
                         ELSE [leaf EXCEPT !.kid[p][Toward(k, p)] = k], k, p)
<1> DEFINE leaf == [T EXCEPT !.parent[k] = p, !.color[k] = "red",
                             !.kid[k] = Kids(Sentinel, Sentinel)]
           A == SetPar(T, k, p)
           B == SetColor(A, k, "red")
           C == SetKids(B, k, Sentinel, Sentinel)
           s == Toward(k, p)
           R == IF p = Sentinel THEN SetRoot(C, k) ELSE SetKid(C, p, s, k)
<1>1. leaf = C
  BY TreeIs DEF SetPar, SetColor, SetKids
<1>2. (IF p = Sentinel THEN [leaf EXCEPT !.root = k]
       ELSE [leaf EXCEPT !.kid[p][Toward(k, p)] = k]) = R
  <2> HIDE DEF leaf, C
  <2> QED BY <1>1 DEF SetRoot, SetKid
<1> HIDE DEF leaf
<1>3. /\ k \in Nodes /\ p \in Pointers /\ k \in Pointers /\ Sentinel \in Pointers /\ s \in Sides
      /\ k # Sentinel
  BY Names, TreeParts DEF Toward, Sides
<1> HIDE DEF s
<1>4. /\ A \in Trees /\ Root(A) = Root(T)
      /\ \A m \in Nodes : /\ Par(A, m) = IF m = k THEN p ELSE Par(T, m)
                          /\ Color(A, m) = Color(T, m)
                          /\ \A t \in Sides : Kid(A, m, t) = Kid(T, m, t)
  BY <1>3, WritePar
<1> HIDE DEF A
<1>5. /\ B \in Trees /\ Root(B) = Root(A)
      /\ \A m \in Nodes : /\ Par(B, m) = Par(A, m)
                          /\ Color(B, m) = IF m = k THEN "red" ELSE Color(A, m)
                          /\ \A t \in Sides : Kid(B, m, t) = Kid(A, m, t)
  <2>1. "red" \in {"red", "black"}
    OBVIOUS
  <2> QED BY <1>3, <1>4, <2>1, WriteColor
<1> HIDE DEF B
<1>6. /\ C \in Trees /\ Root(C) = Root(B)
      /\ \A m \in Nodes :
            /\ Par(C, m) = Par(B, m) /\ Color(C, m) = Color(B, m)
            /\ \A t \in Sides : Kid(C, m, t) = IF m = k THEN (IF t = "left" THEN Sentinel ELSE Sentinel)
                                               ELSE Kid(B, m, t)
  BY <1>3, <1>5, WriteKids
<1> HIDE DEF C
<1>7. CASE p = Sentinel
  <2> DEFINE Q == SetRoot(C, k)
  <2>1. /\ Q \in Trees /\ Root(Q) = k
        /\ \A m \in Nodes : /\ Par(Q, m) = Par(C, m) /\ Color(Q, m) = Color(C, m)
                            /\ \A t \in Sides : Kid(Q, m, t) = Kid(C, m, t)
    BY <1>3, <1>6, WriteRoot
  <2>2. R = Q
    BY <1>7
  <2> HIDE DEF Q, R
  <2>3. Leafed(T, R, k, p)
    BY <1>4, <1>5, <1>6, <1>7, <2>1, <2>2 DEF Leafed
  <2> QED BY <1>2, <2>3 DEF leaf
<1>8. CASE p # Sentinel
  <2> DEFINE Q == SetKid(C, p, s, k)
  <2>1. /\ Q \in Trees /\ Root(Q) = Root(C)
        /\ \A m \in Nodes :
              /\ Par(Q, m) = Par(C, m) /\ Color(Q, m) = Color(C, m)
              /\ \A t \in Sides : Kid(Q, m, t) = IF m = p /\ t = s THEN k ELSE Kid(C, m, t)
    BY <1>3, <1>6, WriteKid
  <2>2. R = Q
    BY <1>8
  <2> HIDE DEF Q, R
  <2>3. Leafed(T, R, k, p)
    BY <1>4, <1>5, <1>6, <1>8, <2>1, <2>2 DEF Leafed, s
  <2> QED BY <1>2, <2>3 DEF leaf
<1> QED BY <1>7, <1>8

LEMMA LeafedShape ==
    ASSUME NEW T, NEW u, Shape(T, u), NEW k \in Keys, k \notin Live(T), NEW p,
           \/ Live(T) = {} /\ Root(T) = Sentinel /\ p = Sentinel
           \/ /\ p \in Live(T) /\ Kid(T, p, Toward(k, p)) = Sentinel
              /\ \A m \in Live(T), s \in Sides : p \in u[Kid(T, m, s)] => s = Toward(k, m),
           NEW R, Leafed(T, R, k, p)
    PROVE  Live(R) = Live(T) \union {k} /\ \E v : Shape(R, v)
<1> DEFINE v == [m \in Nodes |-> IF m = k THEN {k} ELSE IF p \in u[m] THEN u[m] \union {k} ELSE u[m]]
<1>1. /\ k \in Nodes /\ k # Sentinel /\ k # Null /\ p \in Members(T) /\ p # k /\ p # Null
      /\ p \in Nodes /\ Sentinel \in Nodes
      /\ \A m \in Live(T) : m \in Nodes /\ m \in Keys /\ m # Sentinel /\ m # k
      /\ \A m \in Members(T) : m \in Nodes /\ m # k /\ (m = Sentinel \/ m \in Live(T))
  BY Names, LiveAre
<1>2. Live(R) = Live(T) \union {k} /\ Members(R) = Members(T) \union {k}
  BY <1>1, Names DEF Leafed, Live, Members, Par
<1>3. /\ Par(R, k) = p /\ \A m \in Live(T) : Par(R, m) = Par(T, m)
      /\ \A m \in Live(T), t \in Sides : ~(m = p /\ t = Toward(k, p)) => Kid(R, m, t) = Kid(T, m, t)
      /\ \A t \in Sides : Kid(R, k, t) = Sentinel
      /\ p # Sentinel => Kid(R, p, Toward(k, p)) = k /\ p \in Live(T) /\ Toward(k, p) \in Sides
                         /\ Root(R) = Root(T) /\ Kid(T, p, Toward(k, p)) = Sentinel
      /\ p = Sentinel => Root(R) = k /\ Live(T) = {}
      /\ \A t \in Sides : Kid(R, Sentinel, t) = Sentinel
  BY <1>1, TowardIs DEF Leafed, Shape
<1>4. v[k] = {k} /\ \A m \in Members(T) : v[m] = IF p \in u[m] THEN u[m] \union {k} ELSE u[m]
  BY <1>1
<1>5. \A m \in Live(T), t \in Sides : Kid(T, m, t) \in Members(T)
  BY DEF Shape, LinksOf
<1> HIDE DEF v
<1>6. ASSUME NEW m \in Live(T) PROVE LinksOf(R, m)
  <2>1. LinksOf(T, m) /\ SideOf(T, m) \in Sides
    BY SideIs DEF Shape
  <2>2. Par(R, m) \in Members(R) /\ (Par(R, m) = Sentinel => m = Root(R))
    BY <1>1, <1>2, <1>3, <2>1 DEF LinksOf
  <2>3. ASSUME Par(R, m) # Sentinel PROVE Kid(R, Par(R, m), SideOf(R, m)) = m
    <3>1. Par(R, m) \in Live(T) /\ Kid(T, Par(R, m), SideOf(T, m)) = m
      BY <1>1, <1>3, <2>1, <2>3 DEF LinksOf
    <3>2. Kid(R, Par(R, m), SideOf(T, m)) = m
      BY <1>1, <1>3, <2>1, <3>1
    <3> QED BY <2>1, <3>2, SideIs
  <2>4. ASSUME NEW t \in Sides
        PROVE  /\ Kid(R, m, t) \in Members(R)
               /\ Kid(R, m, t) # Sentinel => Par(R, Kid(R, m, t)) = m
    BY <1>1, <1>2, <1>3, <1>5, <2>1 DEF LinksOf
  <2> QED BY <2>2, <2>3, <2>4 DEF LinksOf
<1>7. LinksOf(R, k)
  <2>1. p # Sentinel => Kid(R, p, SideOf(R, k)) = k
    BY <1>3, SideIs
  <2> QED BY <1>1, <1>2, <1>3, <2>1, LiveAre DEF LinksOf
<1>8. OrderOf(R, v, k)
  <2>1. v[Sentinel] = {}
    BY <1>1, <1>4, LiveAre DEF Shape
  <2> QED BY <1>3, <1>4, <2>1, SidesAre DEF OrderOf
<1>9. ASSUME NEW m \in Live(T), NEW t \in Sides
      PROVE  /\ v[Kid(R, m, t)] = IF (m = p /\ t = Toward(k, p)) \/ p \in u[Kid(T, m, t)]
                                  THEN u[Kid(T, m, t)] \union {k} ELSE u[Kid(T, m, t)]
             /\ m = p => p \notin u[Kid(T, m, t)]
  <2>1. m = p => p \notin u[Kid(T, m, t)]
    BY Under
  <2>2. CASE m = p /\ t = Toward(k, p)
    <3>1. Kid(R, m, t) = k /\ u[Kid(T, m, t)] = {}
      BY <1>1, <1>3, <2>2 DEF Shape
    <3> QED BY <1>4, <2>1, <2>2, <3>1
  <2>3. CASE ~(m = p /\ t = Toward(k, p))
    BY <1>3, <1>4, <1>5, <2>1, <2>3
  <2> QED BY <2>2, <2>3
<1>10. ASSUME NEW m \in Live(T) PROVE OrderOf(R, v, m)
  <2>1. OrderOf(T, u, m) /\ m \in Members(T)
    BY LiveAre DEF Shape
  <2> DEFINE L == Kid(T, m, "left")
             G == Kid(T, m, "right")
  <2>2. u[m] = {m} \union u[L] \union u[G]
    BY <2>1 DEF OrderOf
  <2>3. v[m] = {m} \union v[Kid(R, m, "left")] \union v[Kid(R, m, "right")]
    <3>1. CASE m = p
      <4>1. Toward(k, p) = "left" \/ Toward(k, p) = "right"
        BY <1>1, <1>3, <3>1, SidesAre
      <4>2. v[m] = u[m] \union {k}
        BY <1>4, <2>1, <2>2, <3>1
      <4>3. \A t \in Sides : v[Kid(R, m, t)] = IF t = Toward(k, p) THEN u[Kid(T, m, t)] \union {k}
                                               ELSE u[Kid(T, m, t)]
        BY <1>9, <3>1
      <4>4. "left" \in Sides /\ "right" \in Sides
        BY SidesAre
      <4> HIDE DEF L, G
      <4>5. v[Kid(R, m, "left")] \union v[Kid(R, m, "right")] = {k} \union u[L] \union u[G]
        BY <4>1, <4>3, <4>4 DEF L, G
      <4> QED BY <2>2, <4>2, <4>5
    <3>2. CASE m # p
      <4>1. p \in u[m] <=> p \in u[L] \/ p \in u[G]
        BY <2>2, <3>2
      <4>2. v[m] = IF p \in u[m] THEN u[m] \union {k} ELSE u[m]
        BY <1>4, <2>1, <3>2
      <4>3. \A t \in Sides : v[Kid(R, m, t)] = IF p \in u[Kid(T, m, t)] THEN u[Kid(T, m, t)] \union {k}
                                               ELSE u[Kid(T, m, t)]
        BY <1>9, <3>2
      <4>4. /\ v[Kid(R, m, "left")] = IF p \in u[L] THEN u[L] \union {k} ELSE u[L]
            /\ v[Kid(R, m, "right")] = IF p \in u[G] THEN u[G] \union {k} ELSE u[G]
        BY <4>3, SidesAre
      <4> HIDE DEF L, G
      <4> QED BY <2>2, <4>1, <4>2, <4>4
    <3> QED BY <3>1, <3>2
  <2>4. ASSUME NEW t \in Sides, NEW x \in v[Kid(R, m, t)] PROVE x # m /\ Toward(x, m) = t
    <3>1. CASE x \in u[Kid(T, m, t)]
      BY <2>1, <3>1 DEF OrderOf
    <3>2. CASE x \notin u[Kid(T, m, t)]
      <4>1. x = k /\ ((m = p /\ t = Toward(k, p)) \/ p \in u[Kid(T, m, t)])
        BY <1>9, <2>4, <3>2
      <4> QED BY <1>1, <1>3, <4>1
    <3> QED BY <3>1, <3>2
  <2> QED BY <2>3, <2>4 DEF OrderOf
<1>11. v \in [Nodes -> SUBSET Live(R)]
  <2>1. \A m \in Nodes : u[m] \subseteq Live(T)
    BY DEF Shape
  <2> QED BY <1>2, <2>1 DEF v
<1>12. /\ Root(R) \in Members(R) /\ v[Root(R)] = Live(R)
       /\ Root(R) # Sentinel => Par(R, Root(R)) = Sentinel
  <2>1. CASE p = Sentinel
    BY <1>2, <1>3, <1>4, <2>1
  <2>2. CASE p # Sentinel
    BY <1>1, <1>2, <1>3, <1>4, <2>2 DEF Shape
  <2> QED BY <2>1, <2>2
<1>13. v[Sentinel] = {} /\ Par(R, Sentinel) \in Nodes
  <2>1. Par(R, Sentinel) = Par(T, Sentinel)
    BY <1>1 DEF Leafed
  <2> QED BY <1>1, <1>4, <2>1, LiveAre DEF Shape
<1>14. Shape(R, v)
  <2>1. R \in Trees
    BY DEF Leafed
  <2> QED BY <1>2, <1>3, <1>6, <1>7, <1>8, <1>10, <1>11, <1>12, <1>13, <2>1 DEF Shape
<1> QED BY <1>2, <1>14

LEMMA LeafedKeeps ==
    ASSUME NEW T, NEW u, Shape(T, u), NEW b, InOrder(T, b), NEW k \in Keys, k \notin Live(T), NEW p,
           \/ Live(T) = {} /\ Root(T) = Sentinel /\ p = Sentinel
           \/ /\ p \in Live(T) /\ Kid(T, p, Toward(k, p)) = Sentinel
              /\ \A m \in Live(T), s \in Sides : p \in u[Kid(T, m, s)] => s = Toward(k, m),
           NEW R, Leafed(T, R, k, p)
    PROVE  \E d : Inserting(R, d, k)
<1> DEFINE d == [b EXCEPT ![k] = 0]
<1>1. /\ k \in Nodes /\ k # Sentinel /\ p \in Members(T) /\ p # k /\ p \in Nodes /\ Sentinel \in Nodes
      /\ \A m \in Live(T) : m \in Nodes /\ m # Sentinel /\ m # k
      /\ \A m \in Members(T) : m \in Nodes /\ m # k
  BY Names, LiveAre
<1>2. Live(R) = Live(T) \union {k}
  BY LeafedShape
<1>3. /\ b \in [Nodes -> Nat] /\ b[Sentinel] = 0 /\ Color(T, Sentinel) = "black"
      /\ \A n \in Live(T), s \in Sides : Kid(T, n, s) \in Members(T)
      /\ \A n \in Live(T), s \in Sides : b[n] = Black(T, n) + b[Kid(T, n, s)]
      /\ Apart(T, Sentinel, Sentinel)
  BY <1>1, BalancedIs DEF InOrder, Shape, LinksOf
<1>4. d \in [Nodes -> Nat] /\ d[Sentinel] = 0 /\ d[k] = 0 /\ \A m \in Nodes : m # k => d[m] = b[m]
  BY <1>1, <1>3
<1> HIDE DEF d
<1>5. /\ \A m \in Nodes : Color(R, m) = IF m = k THEN "red" ELSE Color(T, m)
      /\ \A m \in Nodes : m # k => Par(R, m) = Par(T, m)
  BY <1>1 DEF Leafed
<1>6. ASSUME NEW m \in Live(R), NEW t \in Sides PROVE d[m] = Black(R, m) + d[Kid(R, m, t)]
  <2>1. CASE m = k
    <3>1. Kid(R, m, t) = Sentinel /\ Black(R, m) = 0
      BY <1>1, <1>5, <2>1 DEF Leafed, Black
    <3> QED BY <1>4, <2>1, <3>1
  <2>2. CASE m # k
    <3>1. m \in Live(T) /\ Black(R, m) = Black(T, m)
      BY <1>1, <1>2, <1>5, <2>2 DEF Black
    <3>2. CASE m = p /\ t = Toward(k, p)
      <4>1. Kid(R, m, t) = k /\ Kid(T, m, t) = Sentinel
        BY <1>1, <3>1, <3>2 DEF Leafed
      <4> QED BY <1>1, <1>3, <1>4, <3>1, <4>1
    <3>3. CASE ~(m = p /\ t = Toward(k, p))
      <4>1. Kid(R, m, t) = Kid(T, m, t)
        BY <1>1, <3>1, <3>3 DEF Leafed
      <4> QED BY <1>1, <1>3, <1>4, <3>1, <4>1
    <3> QED BY <3>2, <3>3
  <2> QED BY <2>1, <2>2
<1>7. Balanced(R, d, Sentinel, "left")
  <2>1. \A m \in Live(R), t \in Sides : m # Sentinel /\ d[Kid(R, m, t)] \in Nat /\ Black(R, m) \in {0, 1}
    <3>1. \A m \in Live(R), t \in Sides : m # Sentinel /\ Kid(R, m, t) \in Nodes
      BY LeafedShape, LiveAre DEF Shape, LinksOf
    <3> QED BY <1>4, <3>1 DEF Black
  <2>2. Color(R, Sentinel) = "black"
    BY <1>1, <1>3, <1>5
  <2> QED BY <1>4, <1>6, <2>1, <2>2 DEF Balanced
<1>8. Apart(R, k, Sentinel)
  <2>1. ASSUME NEW m \in Live(R), Color(R, m) = "red", m # k
        PROVE  m # Root(R) /\ (Color(R, Par(R, m)) = "red" => Par(R, m) = Sentinel)
    <3>1. m \in Live(T) /\ Color(T, m) = "red" /\ Par(R, m) = Par(T, m) /\ Par(T, m) \in Nodes
          /\ Par(T, m) # k
      BY <1>1, <1>2, <1>5, <2>1 DEF Shape, LinksOf
    <3>2. m # Root(T) /\ (Color(T, Par(T, m)) = "red" => Par(T, m) = Sentinel)
      BY <1>1, <1>3, <3>1 DEF Apart
    <3>3. Root(R) = Root(T)
      BY <1>1, <3>1 DEF Leafed
    <3> QED BY <1>5, <3>1, <3>2, <3>3
  <2> QED BY <2>1 DEF Apart
<1>9. Inserting(R, d, k)
  BY <1>1, <1>2, <1>5, <1>7, <1>8 DEF Inserting
<1> QED BY <1>9

\* The tree when the paths through n lack one black, or n is the root.
Deleting(T, b, n) ==
    /\ n \in Members(T) /\ Apart(T, n, n)
    /\ n = Root(T) => Balanced(T, b, Sentinel, "left")
    /\ n # Root(T) => /\ Par(T, n) \in Live(T) /\ Kid(T, Par(T, n), SideOf(T, n)) = n
                      /\ Balanced(T, b, Par(T, n), SideOf(T, n))

\* The end of both loops: a red node becomes black, or the root does.
LEMMA BlackenKeeps ==
    ASSUME NEW T, NEW u, Shape(T, u), NEW b, NEW n, Deleting(T, b, n),
           n = Root(T) \/ Color(T, n) = "red"
    PROVE  LET R == Dye(T, n, "black")
           IN  /\ SameLinks(T, R) /\ Live(R) = Live(T) /\ Shape(R, u)
               /\ \E d : InOrder(R, d)
<1> DEFINE R == Dye(T, n, "black")
           d == [m \in Nodes |-> IF m = n THEN b[m] + (1 - Black(T, n)) ELSE b[m]]
<1> DEFINE q == IF n = Root(T) THEN Sentinel ELSE Par(T, n)
           r == IF n = Root(T) THEN "left" ELSE SideOf(T, n)
<1>1. n \in Members(T) /\ n \in Nodes /\ Apart(T, n, n) /\ Balanced(T, b, q, r)
  BY LiveAre DEF Deleting
<1>2. /\ b \in [Nodes -> Nat] /\ b[Sentinel] = 0 /\ Color(T, Sentinel) = "black"
      /\ \A m \in Nodes : b[m] \in Nat /\ Black(T, m) \in {0, 1}
      /\ \A m \in Live(T), s \in Sides :
            /\ Kid(T, m, s) \in Nodes /\ m \in Nodes /\ m # Sentinel
            /\ ~(m = q /\ s = r) => b[m] = Black(T, m) + b[Kid(T, m, s)]
            /\ m = q /\ s = r => b[m] = Black(T, m) + b[Kid(T, m, s)] + 1
  BY <1>1, BalancedIs
<1>3. SameLinks(T, T)
  BY DEF SameLinks, Shape
<1>4. SameLinks(T, R) /\ \A m \in Nodes : Color(R, m) = IF m = n THEN "black" ELSE Color(T, m)
  BY <1>1, <1>3, Dyed, Colors
<1> HIDE DEF R
<1>5. Live(R) = Live(T) /\ Shape(R, u)
  BY <1>4, SameShape
<1>6. /\ \A m \in Live(T) : Par(R, m) = Par(T, m)
      /\ \A m \in Live(T), t \in Sides : Kid(R, m, t) = Kid(T, m, t)
      /\ Root(R) = Root(T)
  BY <1>2, <1>4, LiveAre, Names DEF SameLinks
<1>7. n = Sentinel => Black(T, n) = 1 /\ n = Root(T)
  BY <1>2 DEF Black
<1>8. Root(T) # Sentinel => Par(T, Root(T)) = Sentinel
  BY DEF Shape
<1>9. d \in [Nodes -> Nat] /\ d[Sentinel] = 0
  BY <1>2, <1>7, Names
<1>10. d[n] = b[n] + (1 - Black(T, n)) /\ \A m \in Nodes : m # n => d[m] = b[m]
  BY <1>1
<1> HIDE DEF d
<1>11. ASSUME NEW m \in Live(T), NEW t \in Sides PROVE d[m] = Black(R, m) + d[Kid(T, m, t)]
  <2>1. Black(R, m) = IF m = n THEN 1 ELSE Black(T, m)
    BY <1>2, <1>4 DEF Black
  <2>2. CASE Kid(T, m, t) = n /\ n # Sentinel
    <3>1. n \in Live(T) /\ m = Par(T, n) /\ t = SideOf(T, n) /\ m # Sentinel /\ m # n
      BY <1>1, <1>2, <2>2, LiveAre, OnlyParent
    <3>2. n # Root(T)
      BY <1>8, <2>2, <3>1
    <3>3. m = q /\ t = r
      BY <3>1, <3>2
    <3>4. Black(T, n) = 0
      BY <3>2 DEF Black
    <3>5. b[m] = Black(T, m) + b[n] + 1 /\ d[m] = b[m] /\ d[n] = b[n] + 1
      BY <1>2, <1>10, <2>2, <3>1, <3>3, <3>4
    <3> QED BY <1>1, <1>2, <2>1, <2>2, <3>1, <3>5
  <2>3. CASE ~(Kid(T, m, t) = n /\ n # Sentinel)
    <3>1. ~(m = q /\ t = r)
      <4>1. n # Root(T) => Kid(T, Par(T, n), SideOf(T, n)) = n
        BY DEF Deleting
      <4> QED BY <1>2, <1>7, <2>3, <4>1
    <3>2. b[m] = Black(T, m) + b[Kid(T, m, t)]
      BY <1>2, <3>1
    <3>3. d[Kid(T, m, t)] = b[Kid(T, m, t)]
      BY <1>2, <1>9, <1>10, <2>3
    <3> QED BY <1>2, <1>10, <2>1, <3>2, <3>3
  <2> QED BY <2>2, <2>3
<1>12. Balanced(R, d, Sentinel, "left")
  <2>1. \A m \in Live(T), t \in Sides : m # Sentinel /\ d[Kid(T, m, t)] \in Nat /\ Black(R, m) \in {0, 1}
    BY <1>2, <1>9 DEF Black
  <2>2. Color(R, Sentinel) = "black"
    BY <1>2, <1>4, Names
  <2> QED BY <1>5, <1>6, <1>9, <1>11, <2>1, <2>2 DEF Balanced
<1>13. Apart(R, Sentinel, Sentinel)
  <2>1. ASSUME NEW m \in Live(T), Color(R, m) = "red"
        PROVE  m # Root(T) /\ Color(R, Par(T, m)) = "black"
    <3>1. m # n /\ Color(T, m) = "red" /\ Par(T, m) \in Nodes
      BY <1>2, <1>4, <2>1, LiveAre DEF Shape, LinksOf
    <3>2. m # Root(T) /\ (Color(T, Par(T, m)) = "red" => Par(T, m) = n)
      BY <1>1, <3>1 DEF Apart
    <3> QED BY <1>4, <3>1, <3>2, TreeParts DEF Shape
  <2> QED BY <1>5, <1>6, <2>1 DEF Apart
<1>14. InOrder(R, d)
  BY <1>12, <1>13 DEF InOrder
<1> QED BY <1>4, <1>5, <1>14 DEF R

\* The loop of Insert ends when the parent is black; then the root becomes black.
LEMMA InsertedIs ==
    ASSUME NEW T, NEW u, Shape(T, u), NEW b, NEW n, Inserting(T, b, n),
           Color(T, Par(T, n)) # "red"
    PROVE  Deleting(T, b, Root(T))
<1>1. Root(T) \in Members(T) /\ Balanced(T, b, Sentinel, "left") /\ Apart(T, n, Sentinel)
  BY DEF Shape, Inserting
<1>2. Apart(T, Root(T), Root(T))
  <2>1. Color(T, Sentinel) = "black"
    BY <1>1 DEF Balanced
  <2> QED BY <1>1, <2>1 DEF Apart
<1> QED BY <1>1, <1>2 DEF Deleting

-----------------------------------------------------------------------------
(***************************************************************************)
(* Delete's rounds                                                         *)
(***************************************************************************)
\* The tree in the loop of Delete: n, which hangs under p on side s, is black and counts
\* for one black more.
Deep(T, b, n, p, s) ==
    /\ p \in Live(T) /\ s \in Sides /\ n \in Members(T)
    /\ Par(T, n) = p /\ Kid(T, p, s) = n /\ Color(T, n) = "black"
    /\ Balanced(T, b, p, s) /\ Apart(T, Sentinel, Sentinel)

LEMMA DeepIs ==
    ASSUME NEW T, NEW u, Shape(T, u), NEW b, NEW n, Deleting(T, b, n),
           n # Root(T), Color(T, n) = "black"
    PROVE  Deep(T, b, n, Par(T, n), SideOf(T, n))
<1>1. Apart(T, Sentinel, Sentinel)
  BY DEF Deleting, Apart
<1> QED BY <1>1, SideIs DEF Deep, Deleting

LEMMA SiblingIs ==
    ASSUME NEW T, NEW u, Shape(T, u), NEW b, NEW n, NEW p, NEW s, Deep(T, b, n, p, s)
    PROVE  LET c == Kid(T, p, Other(s))
           IN  /\ c \in Live(T) /\ c # Sentinel /\ Par(T, c) = p /\ SideOf(T, c) = Other(s)
               /\ b[c] = b[n] + 1 /\ b[p] = Black(T, p) + b[c]
               /\ c # n /\ c # p /\ n # p /\ Par(T, p) # p /\ Par(T, p) # c /\ Other(s) \in Sides
               /\ \A t \in Sides : Kid(T, c, t) # p /\ Kid(T, c, t) # c
                                   /\ (Kid(T, c, t) # Sentinel => Kid(T, c, t) # n)
<1> DEFINE c == Kid(T, p, Other(s))
<1>1. /\ p \in Live(T) /\ s \in Sides /\ n \in Members(T) /\ Par(T, n) = p /\ Kid(T, p, s) = n
      /\ Balanced(T, b, p, s)
  BY DEF Deep
<1>2. Other(s) \in Sides /\ Other(s) # s
  BY <1>1, SidesAre
<1>3. /\ b[p] = Black(T, p) + b[n] + 1 /\ b[p] = Black(T, p) + b[c] /\ b[Sentinel] = 0
      /\ b[n] \in Nat /\ b[c] \in Nat /\ Black(T, p) \in {0, 1}
  <2>1. c \in Nodes /\ p \in Nodes /\ n \in Nodes
    BY <1>1, <1>2, LiveAre, Names DEF Shape, LinksOf
  <2>2. b[p] = Black(T, p) + b[Kid(T, p, s)] + 1 /\ b[p] = Black(T, p) + b[Kid(T, p, Other(s))]
    BY <1>1, <1>2, BalancedIs
  <2> QED BY <1>1, <2>1, <2>2, BalancedIs
<1>4. b[c] = b[n] + 1 /\ c # Sentinel
  BY <1>3
<1>5. c \in Live(T) /\ Par(T, c) = p /\ SideOf(T, c) = Other(s)
  BY <1>1, <1>2, <1>4, SideOfChild, LiveAre DEF Shape, LinksOf
<1>6. /\ c # p /\ Par(T, p) # p /\ Par(T, p) # c
      /\ \A t \in Sides : Kid(T, c, t) # p /\ Kid(T, c, t) # c
  BY <1>1, <1>2, <1>4, Family
<1>7. c # n /\ n # p
  <2>1. n = Sentinel => n # c /\ n # p
    BY <1>1, <1>4, LiveAre
  <2>2. n # Sentinel => n \in Live(T) /\ SideOf(T, n) = s /\ Par(T, n) # n
    BY <1>1, LiveAre, SideOfChild, OnlyParent
  <2> QED BY <1>1, <1>2, <1>5, <2>1, <2>2
<1>8. \A t \in Sides : Kid(T, c, t) # Sentinel => Kid(T, c, t) # n
  BY <1>1, <1>5, <1>6, SideOfChild
<1> HIDE DEF c
<1> QED BY <1>2, <1>3, <1>4, <1>5, <1>6, <1>7, <1>8 DEF c

\* Case 1: the red sibling comes up over the parent.
LEMMA RedSiblingTurns ==
    ASSUME NEW T, NEW u, Shape(T, u), NEW b, NEW n, NEW p, NEW s, Deep(T, b, n, p, s),
           Color(T, Kid(T, p, Other(s))) = "red"
    PROVE  LET R == Rotate(Dye(Dye(T, Kid(T, p, Other(s)), "black"), p, "red"), p, s)
           IN  /\ Live(R) = Live(T) /\ (\E v : Shape(R, v)) /\ (\E d : Deep(R, d, n, p, s))
               /\ Par(R, Sentinel) = Par(T, Sentinel) /\ Color(R, Kid(R, p, Other(s))) = "black"
               /\ Color(R, p) = "red"
<1> DEFINE o == Other(s)
           c == Kid(T, p, o)
           inner == Kid(T, c, s)
           outer == Kid(T, c, o)
           D == Dye(Dye(T, c, "black"), p, "red")
           R == Rotate(D, p, s)
           d == [m \in Nodes |-> IF m = c THEN b[p] ELSE IF m = p THEN b[c] ELSE b[m]]
<1>1. /\ c \in Live(T) /\ c # Sentinel /\ Par(T, c) = p
      /\ b[c] = b[n] + 1 /\ b[p] = Black(T, p) + b[c]
      /\ c # n /\ c # p /\ n # p /\ o \in Sides
      /\ inner # p /\ inner # c /\ outer # p /\ outer # c
      /\ inner # Sentinel => inner # n
  <2>1. s \in Sides /\ o \in Sides
    BY SidesAre DEF Deep
  <2> QED BY <2>1, SiblingIs
<1>2. /\ p \in Live(T) /\ s \in Sides /\ n \in Members(T) /\ Par(T, n) = p /\ Kid(T, p, s) = n
      /\ Balanced(T, b, p, s) /\ Color(T, n) = "black" /\ Apart(T, Sentinel, Sentinel)
      /\ Color(T, c) = "red"
  BY DEF Deep
<1>3. SameLinks(T, T) /\ Color(T, Sentinel) = "black"
      /\ o # s /\ \A t \in Sides : t = s \/ t = o
  BY <1>2, SidesAre DEF SameLinks, Shape, Balanced
<1>4. p \in Nodes /\ c \in Nodes /\ p # Sentinel /\ n \in Nodes /\ Sentinel \in Nodes
      /\ inner \in Nodes /\ outer \in Nodes
  BY <1>1, <1>2, LiveAre, Names DEF Shape, LinksOf
<1>5. SameLinks(T, D) /\ \A m \in Nodes :
         Color(D, m) = IF m = p THEN "red" ELSE IF m = c THEN "black" ELSE Color(T, m)
  <2> HIDE DEF c
  <2> DEFINE C == Dye(T, c, "black")
  <2>1. SameLinks(T, C) /\ \A m \in Nodes : Color(C, m) = IF m = c THEN "black" ELSE Color(T, m)
    BY <1>3, <1>4, Dyed, Colors
  <2> HIDE DEF C
  <2>2. /\ SameLinks(T, Dye(C, p, "red"))
        /\ \A m \in Nodes : Color(Dye(C, p, "red"), m) = IF m = p THEN "red" ELSE Color(C, m)
    BY <1>4, <2>1, Dyed, Colors
  <2> QED BY <2>1, <2>2 DEF C
<1>6. c = Kid(T, p, Other(s))
  OBVIOUS
<1> HIDE DEF c, D
<1>7. /\ Turns(T, R, p, c, s) /\ Live(R) = Live(T) /\ \E v : Shape(R, v)
      /\ \A m \in Nodes : Color(R, m) = Color(D, m)
  BY <1>1, <1>2, <1>5, <1>6, RotateDyed
<1>8. PICK v : Shape(R, v)
  BY <1>7
<1> HIDE DEF R
<1>9. \A m \in Nodes :
         Color(R, m) = IF m = p THEN "red" ELSE IF m = c THEN "black" ELSE Color(T, m)
  BY <1>5, <1>7
<1>10. /\ Kid(R, p, o) = inner /\ Kid(R, p, s) = n
       /\ Kid(R, c, s) = p /\ Kid(R, c, o) = outer
       /\ Par(R, p) = c
       /\ \A m \in Nodes : m # p /\ m # c /\ ~(m = inner /\ m # Sentinel) => Par(R, m) = Par(T, m)
  BY <1>1, <1>2, <1>6, <1>7, TurnedKids
<1>11. Color(T, p) = "black" /\ Color(T, inner) = "black"
  <2>1. c # Root(T) /\ (Color(T, p) = "red" => p = Sentinel)
    BY <1>1, <1>2 DEF Apart
  <2>2. inner # Sentinel => inner \in Live(T) /\ Par(T, inner) = c
    BY <1>1, <1>2, SideOfChild, LiveAre DEF Shape, LinksOf
  <2>3. Color(T, inner) = "red" => inner \in Live(T) /\ Color(T, c) # "red"
    BY <1>1, <1>2, <1>3, <2>2 DEF Apart
  <2> QED BY <1>2, <1>4, <2>1, <2>3, TreeParts DEF Shape
<1>12. /\ \A m \in Live(T), t \in Sides :
             /\ m \in Nodes
             /\ ~(m = p /\ t = s) => b[m] = Black(T, m) + b[Kid(T, m, t)]
             /\ m = p /\ t = s => b[m] = Black(T, m) + b[Kid(T, m, t)] + 1
       /\ \A m \in Nodes : b[m] \in Nat /\ Black(T, m) \in {0, 1}
  BY <1>2, BalancedIs
<1>13. b[p] = b[c] + 1 /\ b[inner] = b[c] /\ b[outer] = b[c] /\ b[c] = b[n] + 1
       /\ b[p] \in Nat /\ b[c] \in Nat /\ b[n] \in Nat
  <2>1. Black(T, p) = 1 /\ Black(T, c) = 0
    BY <1>2, <1>11 DEF Black
  <2>2. b[c] = Black(T, c) + b[inner] /\ b[c] = Black(T, c) + b[outer]
    BY <1>1, <1>2, <1>12
  <2> QED BY <1>1, <1>4, <1>12, <2>1, <2>2
<1> HIDE DEF inner, outer
<1>14. /\ d \in [Nodes -> Nat] /\ d[c] = b[p] /\ d[p] = b[c]
       /\ \A m \in Nodes : m # p /\ m # c => d[m] = b[m]
  BY <1>1, <1>4, <1>12
<1> HIDE DEF d
<1>15. Balanced(R, d, p, s)
  <2>1. Color(R, Sentinel) = "black" /\ d[Sentinel] = 0
    BY <1>1, <1>2, <1>3, <1>4, <1>9, <1>14 DEF Balanced
  <2>2. ASSUME NEW m \in Live(T), NEW t \in Sides
        PROVE  d[m] = Black(R, m) + d[Kid(R, m, t)] + (IF m = p /\ t = s THEN 1 ELSE 0)
    <3>1. CASE m = p
      <4>1. Black(R, p) = 0 /\ d[inner] = b[c] /\ d[n] = b[n]
        BY <1>1, <1>4, <1>9, <1>13, <1>14 DEF Black
      <4> QED BY <1>3, <1>10, <1>13, <1>14, <3>1, <4>1
    <3>2. CASE m = c
      <4>1. Black(R, c) = 1 /\ d[outer] = b[c]
        BY <1>1, <1>4, <1>9, <1>13, <1>14 DEF Black
      <4>2. d[Kid(R, c, t)] = b[c]
        BY <1>3, <1>10, <1>14, <4>1
      <4> QED BY <1>1, <1>13, <1>14, <3>2, <4>1, <4>2
    <3>3. CASE m # p /\ m # c
      <4>1. Black(R, m) = Black(T, m) /\ d[m] = b[m]
        BY <1>9, <1>12, <1>14, <3>3 DEF Black
      <4>2. d[Kid(R, m, t)] = b[Kid(T, m, t)]
        BY <1>1, <1>2, <1>6, <1>7, <1>14, <3>3, TurnedBalance
      <4>3. d[Kid(R, m, t)] \in Nat /\ Black(R, m) \in {0, 1}
        BY <1>7, <1>8, <1>14, LiveAre DEF Shape, LinksOf, Black
      <4> QED BY <1>12, <3>3, <4>1, <4>2, <4>3
    <3> QED BY <3>1, <3>2, <3>3
  <2> QED BY <1>7, <1>14, <2>1, <2>2 DEF Balanced
<1>16. Apart(R, Sentinel, Sentinel)
  <2>1. ASSUME NEW m \in Live(T), Color(R, m) = "red"
        PROVE  m # Root(R) /\ Color(R, Par(R, m)) = "black"
    <3>1. CASE m = p
      <4>1. Par(R, m) = c /\ m \in Live(R) /\ Color(R, c) = "black"
        BY <1>1, <1>4, <1>7, <1>9, <1>10, <3>1
      <4> QED BY <1>1, <1>8, <4>1, OnlyParent
    <3>2. CASE m # p
      <4>1. m \in Nodes /\ Par(T, m) \in Nodes /\ m # Sentinel
        BY LiveAre, Names DEF Shape, LinksOf
      <4>2. m # c /\ Color(T, m) = "red"
        BY <1>9, <2>1, <3>2, <4>1
      <4>3. m # Root(T) /\ (Color(T, Par(T, m)) = "red" => Par(T, m) = Sentinel)
        BY <1>2, <4>1, <4>2 DEF Apart
      <4>4. Color(T, Par(T, m)) = "black"
        BY <1>3, <4>1, <4>3, TreeParts DEF Shape
      <4>5. Par(T, m) # c /\ Par(T, m) \in Live(T) /\ m # inner
        BY <1>2, <1>11, <4>2, <4>3, <4>4, OnlyParent
      <4>6. Par(R, m) = Par(T, m)
        BY <1>10, <3>2, <4>1, <4>2, <4>5
      <4>7. Par(T, m) # p
        <5>1. Par(T, m) = p => Kid(T, p, SideOf(T, m)) = m /\ SideOf(T, m) \in Sides
          BY <1>4, OnlyParent
        <5> QED BY <1>2, <1>3, <1>6, <4>2, <5>1
      <4>8. Color(R, Par(R, m)) = "black"
        BY <1>9, <4>1, <4>4, <4>6, <4>7
      <4>9. m # Root(R)
        BY <1>7, <1>8, <4>5, <4>6, OnlyParent, LiveAre
      <4> QED BY <4>8, <4>9
    <3> QED BY <3>1, <3>2
  <2> QED BY <1>7, <2>1 DEF Apart
<1>17. Par(R, n) = p /\ Par(R, Sentinel) = Par(T, Sentinel)
  <2>1. n # inner \/ n = Sentinel
    BY <1>1
  <2> QED BY <1>1, <1>2, <1>4, <1>10, <2>1
<1>18. Deep(R, d, n, p, s)
  <2>1. Members(R) = Members(T) /\ Color(R, n) = "black"
    BY <1>1, <1>2, <1>4, <1>7, <1>9 DEF Members
  <2> QED BY <1>2, <1>7, <1>10, <1>15, <1>16, <1>17, <2>1 DEF Deep
<1>19. Color(R, Kid(R, p, o)) = "black" /\ Color(R, p) = "red"
  BY <1>1, <1>4, <1>9, <1>10, <1>11 DEF inner
<1> QED BY <1>7, <1>17, <1>18, <1>19 DEF o, c, R, D

\* Case 2: a black is taken off the sibling.
LEMMA PushKeeps ==
    ASSUME NEW T, NEW u, Shape(T, u), NEW b, NEW n, NEW p, NEW s, Deep(T, b, n, p, s),
           Color(T, Kid(T, p, Other(s))) = "black",
           \A t \in Sides : Color(T, Kid(T, Kid(T, p, Other(s)), t)) = "black"
    PROVE  LET R == Dye(T, Kid(T, p, Other(s)), "red")
           IN  /\ SameLinks(T, R) /\ Live(R) = Live(T) /\ Shape(R, u)
               /\ \E d : Deleting(R, d, p)
<1> DEFINE o == Other(s)
           c == Kid(T, p, o)
           R == Dye(T, c, "red")
           d == [m \in Nodes |-> IF m = c \/ m = p THEN b[m] - 1 ELSE b[m]]
           q == IF p = Root(T) THEN Sentinel ELSE Par(T, p)
           r == IF p = Root(T) THEN "left" ELSE SideOf(T, p)
<1>1. /\ c \in Live(T) /\ c # Sentinel /\ Par(T, c) = p
      /\ b[c] = b[n] + 1 /\ b[p] = Black(T, p) + b[c]
      /\ c # n /\ c # p /\ n # p /\ o \in Sides /\ Par(T, p) # p /\ Par(T, p) # c
      /\ \A t \in Sides : Kid(T, c, t) # p /\ Kid(T, c, t) # c
  BY SiblingIs
<1>2. /\ p \in Live(T) /\ s \in Sides /\ n \in Members(T) /\ Kid(T, p, s) = n
      /\ Balanced(T, b, p, s) /\ Color(T, n) = "black" /\ Apart(T, Sentinel, Sentinel)
      /\ Color(T, c) = "black" /\ \A t \in Sides : Color(T, Kid(T, c, t)) = "black"
  BY DEF Deep
<1>3. SameLinks(T, T) /\ Color(T, Sentinel) = "black" /\ b[Sentinel] = 0
      /\ o # s /\ (\A t \in Sides : t = s \/ t = o) /\ Kid(T, p, o) = c
  BY <1>2, SidesAre DEF SameLinks, Shape, Balanced
<1>4. p \in Nodes /\ c \in Nodes /\ p # Sentinel /\ n \in Nodes /\ Sentinel \in Nodes
  BY <1>1, <1>2, LiveAre, Names
<1> HIDE DEF c, o
<1>5. SameLinks(T, R) /\ \A m \in Nodes : Color(R, m) = IF m = c THEN "red" ELSE Color(T, m)
  BY <1>3, <1>4, Dyed, Colors
<1> HIDE DEF R
<1>6. Live(R) = Live(T) /\ Shape(R, u) /\ SideOf(R, p) = SideOf(T, p) /\ Root(R) = Root(T)
  <2>1. Par(T, p) \in Nodes
    BY <1>2, LiveAre DEF Shape, LinksOf
  <2> QED BY <1>4, <1>5, <2>1, SameShape DEF SameLinks
<1>7. /\ \A m \in Live(T), t \in Sides :
             /\ m \in Nodes /\ m # Sentinel /\ Kid(T, m, t) \in Nodes
             /\ ~(m = p /\ t = s) => b[m] = Black(T, m) + b[Kid(T, m, t)]
             /\ m = p /\ t = s => b[m] = Black(T, m) + b[Kid(T, m, t)] + 1
      /\ \A m \in Nodes : b[m] \in Nat /\ Black(T, m) \in {0, 1}
  BY <1>2, BalancedIs
<1>8. \A m \in Live(T) : /\ Par(R, m) = Par(T, m)
                         /\ \A t \in Sides : Kid(R, m, t) = Kid(T, m, t)
  BY <1>5, <1>7, LiveAre, Names DEF SameLinks
<1>9. /\ d \in [Nodes -> Nat] /\ d[c] = b[n] /\ d[p] = Black(T, p) + b[n]
      /\ \A m \in Nodes : m # p /\ m # c => d[m] = b[m]
  <2>1. b[n] \in Nat /\ b[c] \in Nat /\ b[p] \in Nat /\ Black(T, p) \in {0, 1}
    BY <1>4, <1>7
  <2>2. b[c] - 1 \in Nat /\ b[p] - 1 \in Nat /\ b[c] - 1 = b[n] /\ b[p] - 1 = Black(T, p) + b[n]
    BY <1>1, <2>1
  <2> QED BY <1>1, <1>4, <1>7, <2>2
<1> HIDE DEF d
<1>10. /\ q = Sentinel \/ (q = Par(T, p) /\ r = SideOf(T, p) /\ q \in Live(T)
                           /\ Kid(T, q, r) = p /\ r \in Sides)
       /\ q # p /\ q # c
       /\ \A m \in Live(T), t \in Sides : Kid(T, m, t) = p => m = q /\ t = r
  BY <1>1, <1>2, <1>4, OnlyParent, LiveAre
<1> HIDE DEF q, r
<1>11. ASSUME NEW m \in Live(T), NEW t \in Sides
       PROVE  d[m] = Black(R, m) + d[Kid(T, m, t)] + (IF m = q /\ t = r THEN 1 ELSE 0)
  <2>1. CASE m = p
    <3>1. Black(R, p) = Black(T, p) /\ d[n] = b[n]
      BY <1>1, <1>4, <1>5, <1>9 DEF Black
    <3>2. d[Kid(T, p, t)] = b[n]
      BY <1>2, <1>3, <1>9, <3>1
    <3> QED BY <1>4, <1>7, <1>9, <1>10, <2>1, <3>1, <3>2
  <2>2. CASE m = c
    <3>1. Black(R, c) = 0 /\ Black(T, c) = 1
      BY <1>2, <1>4, <1>5 DEF Black
    <3>2. d[Kid(T, c, t)] = b[Kid(T, c, t)] /\ b[c] = 1 + b[Kid(T, c, t)]
      BY <1>1, <1>7, <1>9, <3>1
    <3> QED BY <1>1, <1>4, <1>7, <1>9, <1>10, <2>2, <3>1, <3>2
  <2>3. CASE m # p /\ m # c
    <3>1. Black(R, m) = Black(T, m) /\ d[m] = b[m] /\ b[m] = Black(T, m) + b[Kid(T, m, t)]
      BY <1>5, <1>7, <1>9, <2>3 DEF Black
    <3>2. Kid(T, m, t) # c
      BY <1>1, <2>3, OnlyParent
    <3>3. CASE Kid(T, m, t) = p
      <4>1. m = q /\ t = r /\ b[p] = d[p] + 1
        BY <1>1, <1>4, <1>7, <1>9, <1>10, <3>3
      <4> QED BY <1>4, <1>7, <1>9, <3>1, <3>3, <4>1
    <3>4. CASE Kid(T, m, t) # p
      <4>1. ~(m = q /\ t = r)
        BY <1>7, <1>10, <3>4
      <4> QED BY <1>7, <1>9, <3>1, <3>2, <3>4, <4>1
    <3> QED BY <3>3, <3>4
  <2> QED BY <2>1, <2>2, <2>3
<1>12. Balanced(R, d, q, r)
  <2>1. Color(R, Sentinel) = "black" /\ d[Sentinel] = 0
    BY <1>1, <1>3, <1>4, <1>5, <1>9
  <2> QED BY <1>6, <1>8, <1>9, <1>11, <2>1 DEF Balanced
<1>13. Apart(R, p, p)
  <2>1. ASSUME NEW m \in Live(T), Color(R, m) = "red", m # p
        PROVE  m # Root(T) /\ (Color(R, Par(T, m)) = "red" => Par(T, m) = p)
    <3>1. CASE m = c
      BY <1>1, <1>4, <3>1, OnlyParent
    <3>2. CASE m # c
      <4>1. m \in Nodes /\ Par(T, m) \in Nodes /\ m # Sentinel /\ Color(T, m) = "red"
        BY <1>5, <2>1, <3>2, LiveAre, Names DEF Shape, LinksOf
      <4>2. m # Root(T) /\ (Color(T, Par(T, m)) = "red" => Par(T, m) = Sentinel)
        BY <1>2, <4>1 DEF Apart
      <4>3. Par(T, m) # c
        <5>1. Par(T, m) = c => Kid(T, c, SideOf(T, m)) = m /\ SideOf(T, m) \in Sides
          BY <1>1, OnlyParent
        <5> QED BY <1>2, <4>1, <5>1
      <4> QED BY <1>3, <1>5, <4>1, <4>2, <4>3
    <3> QED BY <3>1, <3>2
  <2> QED BY <1>6, <1>8, <2>1 DEF Apart
<1>14. Deleting(R, d, p)
  <2>1. p \in Members(R)
    BY <1>2, <1>6, LiveAre
  <2>2. CASE p = Root(T)
    <3>1. q = Sentinel /\ r = "left"
      BY <2>2 DEF q, r
    <3> QED BY <1>6, <1>12, <1>13, <2>1, <2>2, <3>1 DEF Deleting
  <2>3. CASE p # Root(T)
    <3>1. q = Par(T, p) /\ r = SideOf(T, p)
      BY <2>3 DEF q, r
    <3>2. q \in Live(T) /\ Kid(T, q, r) = p /\ r \in Sides
      BY <1>2, <2>3, <3>1, OnlyParent, LiveAre
    <3> QED BY <1>2, <1>6, <1>8, <1>12, <1>13, <2>1, <2>3, <3>1, <3>2 DEF Deleting
  <2> QED BY <2>2, <2>3
<1> QED BY <1>5, <1>6, <1>14 DEF R, c, o

\* Case 3: the red inner child of the sibling comes up over the sibling.
LEMMA InnerNephewTurns ==
    ASSUME NEW T, NEW u, Shape(T, u), NEW b, NEW n, NEW p, NEW s, Deep(T, b, n, p, s),
           Color(T, Kid(T, p, Other(s))) = "black",
           Color(T, Kid(T, Kid(T, p, Other(s)), s)) = "red",
           Color(T, Kid(T, Kid(T, p, Other(s)), Other(s))) = "black"
    PROVE  LET c == Kid(T, p, Other(s))
               i == Kid(T, c, s)
               R == Rotate(Dye(Dye(T, i, "black"), c, "red"), c, Other(s))
           IN  /\ Live(R) = Live(T) /\ (\E v : Shape(R, v)) /\ (\E d : Deep(R, d, n, p, s))
               /\ Par(R, Sentinel) = Par(T, Sentinel)
               /\ Kid(R, p, Other(s)) = i /\ Kid(R, i, Other(s)) = c
               /\ Color(R, i) = "black" /\ Color(R, c) = "red"
<1> DEFINE o == Other(s)
           c == Kid(T, p, o)
           i == Kid(T, c, s)
           inner == Kid(T, i, o)
           outer == Kid(T, c, o)
           near == Kid(T, i, s)
           D == Dye(Dye(T, i, "black"), c, "red")
           R == Rotate(D, c, o)
           d == [m \in Nodes |-> IF m = i THEN b[c] ELSE IF m = c THEN b[i] ELSE b[m]]
<1>1. /\ c \in Live(T) /\ c # Sentinel /\ Par(T, c) = p /\ SideOf(T, c) = o
      /\ c # n /\ c # p /\ n # p /\ o \in Sides
      /\ i # p /\ i # c /\ outer # p /\ outer # c
      /\ i # Sentinel => i # n
  <2>1. s \in Sides /\ o \in Sides
    BY SidesAre DEF Deep
  <2> QED BY <2>1, SiblingIs
<1>2. /\ p \in Live(T) /\ s \in Sides /\ n \in Members(T) /\ Par(T, n) = p /\ Kid(T, p, s) = n
      /\ Balanced(T, b, p, s) /\ Color(T, n) = "black" /\ Apart(T, Sentinel, Sentinel)
      /\ Color(T, c) = "black" /\ Color(T, i) = "red" /\ Color(T, outer) = "black"
  BY DEF Deep
<1>3. SameLinks(T, T) /\ Color(T, Sentinel) = "black"
      /\ o # s /\ Other(o) = s /\ \A t \in Sides : t = s \/ t = o
  BY <1>2, SidesAre DEF SameLinks, Shape, Balanced
<1>4. /\ i # Sentinel /\ i \in Live(T) /\ Par(T, i) = c
      /\ inner # i /\ inner # c /\ near # i /\ near # c
      /\ inner # Sentinel => Par(T, inner) = i
  <2>1. i # Sentinel
    BY <1>2, <1>3
  <2>2. i \in Live(T) /\ Par(T, i) = c
    BY <1>1, <1>2, <2>1, SideOfChild, LiveAre DEF Shape, LinksOf
  <2>3. inner # i /\ inner # c /\ near # i /\ near # c
    BY <1>1, <1>2, <2>1, Family
  <2>4. inner # Sentinel => Par(T, inner) = i
    BY <1>1, <2>2, SideOfChild
  <2> QED BY <2>1, <2>2, <2>3, <2>4
<1>5. p \in Nodes /\ c \in Nodes /\ i \in Nodes /\ p # Sentinel /\ n \in Nodes /\ Sentinel \in Nodes
      /\ inner \in Nodes /\ outer \in Nodes /\ near \in Nodes
  BY <1>1, <1>2, <1>4, LiveAre, Names DEF Shape, LinksOf
<1>6. SameLinks(T, D) /\ \A m \in Nodes :
         Color(D, m) = IF m = c THEN "red" ELSE IF m = i THEN "black" ELSE Color(T, m)
  <2> HIDE DEF c, i
  <2> DEFINE C == Dye(T, i, "black")
  <2>1. SameLinks(T, C) /\ \A m \in Nodes : Color(C, m) = IF m = i THEN "black" ELSE Color(T, m)
    BY <1>3, <1>5, Dyed, Colors
  <2> HIDE DEF C
  <2>2. /\ SameLinks(T, Dye(C, c, "red"))
        /\ \A m \in Nodes : Color(Dye(C, c, "red"), m) = IF m = c THEN "red" ELSE Color(C, m)
    BY <1>5, <2>1, Dyed, Colors
  <2> QED BY <2>1, <2>2 DEF C
<1>7. c = Kid(T, p, Other(s)) /\ i = Kid(T, c, s)
  OBVIOUS
<1> HIDE DEF c, i, D
<1>8. i = Kid(T, c, Other(o))
  BY <1>3, <1>7
<1> HIDE DEF o
<1>9. /\ Turns(T, R, c, i, o) /\ Live(R) = Live(T) /\ \E v : Shape(R, v)
      /\ \A m \in Nodes : Color(R, m) = Color(D, m)
  BY <1>1, <1>4, <1>6, <1>8, RotateDyed
<1>10. PICK v : Shape(R, v)
  BY <1>9
<1> HIDE DEF R
<1>11. \A m \in Nodes :
          Color(R, m) = IF m = c THEN "red" ELSE IF m = i THEN "black" ELSE Color(T, m)
  BY <1>6, <1>9
<1>12. /\ Kid(R, c, s) = inner /\ Kid(R, c, o) = outer
       /\ Kid(R, i, o) = c /\ Kid(R, i, s) = near
       /\ Par(R, c) = i /\ Par(R, i) = p
       /\ Kid(R, p, o) = i
       /\ \A m \in Live(T), t \in Sides : m # c /\ m # i /\ ~(m = p /\ t = o) =>
             Kid(R, m, t) = Kid(T, m, t)
       /\ \A m \in Nodes : m # c /\ m # i /\ ~(m = inner /\ m # Sentinel) => Par(R, m) = Par(T, m)
  BY <1>1, <1>3, <1>4, <1>5, <1>8, <1>9, TurnedKids
<1>13. /\ \A m \in Live(T), t \in Sides :
             /\ m \in Nodes
             /\ ~(m = p /\ t = s) => b[m] = Black(T, m) + b[Kid(T, m, t)]
             /\ m = p /\ t = s => b[m] = Black(T, m) + b[Kid(T, m, t)] + 1
       /\ \A m \in Nodes : b[m] \in Nat /\ Black(T, m) \in {0, 1}
  BY <1>2, BalancedIs
<1>14. b[c] = b[i] + 1 /\ b[inner] = b[i] /\ b[near] = b[i] /\ b[outer] = b[i]
       /\ b[i] \in Nat /\ b[c] \in Nat
  <2>1. Black(T, c) = 1 /\ Black(T, i) = 0
    BY <1>2 DEF Black
  <2>2. /\ b[c] = Black(T, c) + b[i] /\ b[c] = Black(T, c) + b[outer]
        /\ b[i] = Black(T, i) + b[inner] /\ b[i] = Black(T, i) + b[near]
    BY <1>1, <1>2, <1>4, <1>7, <1>13
  <2> QED BY <1>5, <1>13, <2>1, <2>2
<1> HIDE DEF inner, outer, near
<1>15. /\ d \in [Nodes -> Nat] /\ d[i] = b[c] /\ d[c] = b[i]
       /\ \A m \in Nodes : m # c /\ m # i => d[m] = b[m]
  BY <1>1, <1>5, <1>13
<1> HIDE DEF d
<1>16. Balanced(R, d, p, s)
  <2>1. Color(R, Sentinel) = "black" /\ d[Sentinel] = 0
    BY <1>1, <1>2, <1>3, <1>4, <1>5, <1>11, <1>15 DEF Balanced
  <2>2. ASSUME NEW m \in Live(T), NEW t \in Sides
        PROVE  d[m] = Black(R, m) + d[Kid(R, m, t)] + (IF m = p /\ t = s THEN 1 ELSE 0)
    <3>1. CASE m = c
      <4>1. Black(R, c) = 0 /\ d[inner] = b[i] /\ d[outer] = b[i]
        BY <1>1, <1>2, <1>4, <1>5, <1>11, <1>14, <1>15 DEF Black
      <4>2. d[Kid(R, c, t)] = b[i]
        BY <1>3, <1>12, <4>1
      <4> QED BY <1>1, <1>14, <1>15, <3>1, <4>1, <4>2
    <3>2. CASE m = i
      <4>1. Black(R, i) = 1 /\ d[near] = b[i]
        BY <1>1, <1>4, <1>5, <1>11, <1>14, <1>15 DEF Black
      <4>2. d[Kid(R, i, t)] = b[i]
        BY <1>3, <1>12, <1>15, <4>1
      <4> QED BY <1>1, <1>14, <1>15, <3>2, <4>1, <4>2
    <3>3. CASE m # c /\ m # i
      <4>1. Black(R, m) = Black(T, m) /\ d[m] = b[m]
        BY <1>11, <1>13, <1>15, <3>3 DEF Black
      <4>2. d[Kid(R, m, t)] = b[Kid(T, m, t)]
        BY <1>1, <1>4, <1>8, <1>9, <1>15, <3>3, TurnedBalance
      <4>3. d[Kid(R, m, t)] \in Nat /\ Black(R, m) \in {0, 1}
        BY <1>9, <1>10, <1>15, LiveAre DEF Shape, LinksOf, Black
      <4> QED BY <1>13, <3>3, <4>1, <4>2, <4>3
    <3> QED BY <3>1, <3>2, <3>3
  <2> QED BY <1>9, <1>15, <2>1, <2>2 DEF Balanced
<1>17. Apart(R, Sentinel, Sentinel)
  <2>1. ASSUME NEW m \in Live(T), Color(R, m) = "red"
        PROVE  m # Root(R) /\ Color(R, Par(R, m)) = "black"
    <3>1. CASE m = c
      <4>1. Par(R, m) = i /\ m \in Live(R) /\ Color(R, i) = "black"
        BY <1>1, <1>5, <1>9, <1>11, <1>12, <3>1
      <4> QED BY <1>4, <1>10, <4>1, OnlyParent
    <3>2. CASE m # c
      <4>1. m \in Nodes /\ Par(T, m) \in Nodes /\ m # Sentinel
        BY LiveAre, Names DEF Shape, LinksOf
      <4>2. m # i /\ Color(T, m) = "red"
        BY <1>11, <2>1, <3>2, <4>1
      <4>3. m # Root(T) /\ (Color(T, Par(T, m)) = "red" => Par(T, m) = Sentinel)
        BY <1>2, <4>1, <4>2 DEF Apart
      <4>4. Color(T, Par(T, m)) = "black"
        BY <1>3, <4>1, <4>3, TreeParts DEF Shape
      <4>5. Par(T, m) # i /\ Par(T, m) \in Live(T)
        BY <1>2, <4>3, <4>4, OnlyParent
      <4>6. Par(R, m) = Par(T, m)
        BY <1>4, <1>12, <3>2, <4>1, <4>2, <4>5 DEF inner
      <4>7. Par(T, m) # c
        <5>1. Par(T, m) = c => Kid(T, c, SideOf(T, m)) = m /\ SideOf(T, m) \in Sides
          BY <1>1, OnlyParent
        <5> QED BY <1>2, <1>3, <1>7, <4>2, <5>1 DEF outer
      <4>8. Color(R, Par(R, m)) = "black"
        BY <1>11, <4>1, <4>4, <4>6, <4>7
      <4>9. m # Root(R)
        BY <1>9, <1>10, <4>5, <4>6, OnlyParent, LiveAre
      <4> QED BY <4>8, <4>9
    <3> QED BY <3>1, <3>2
  <2> QED BY <1>9, <2>1 DEF Apart
<1>18. Par(R, n) = p /\ Par(R, Sentinel) = Par(T, Sentinel) /\ Kid(R, p, s) = n
  <2>1. n # inner \/ n = Sentinel
    BY <1>1, <1>2, <1>4, LiveAre
  <2>2. n # i
    BY <1>1, <1>4
  <2> QED BY <1>1, <1>2, <1>3, <1>4, <1>5, <1>12, <2>1, <2>2
<1>19. Deep(R, d, n, p, s)
  <2>1. Members(R) = Members(T) /\ Color(R, n) = "black"
    BY <1>1, <1>2, <1>4, <1>5, <1>9, <1>11 DEF Members
  <2> QED BY <1>2, <1>9, <1>16, <1>17, <1>18, <2>1 DEF Deep
<1>20. Color(R, i) = "black" /\ Color(R, c) = "red"
  BY <1>1, <1>5, <1>11
<1> QED BY <1>9, <1>12, <1>18, <1>19, <1>20 DEF o, c, i, R, D

\* Case 4: the sibling comes up over the parent, and everything is in order.
LEMMA SiblingTurns ==
    ASSUME NEW T, NEW u, Shape(T, u), NEW b, NEW n, NEW p, NEW s, Deep(T, b, n, p, s),
           Color(T, Kid(T, p, Other(s))) = "black",
           Color(T, Kid(T, Kid(T, p, Other(s)), Other(s))) = "red"
    PROVE  LET c == Kid(T, p, Other(s))
               R == Rotate(Dye(Dye(Dye(T, c, Color(T, p)), p, "black"), Kid(T, c, Other(s)), "black"),
                           p, s)
           IN  /\ Live(R) = Live(T) /\ (\E v : Shape(R, v)) /\ (\E d : InOrder(R, d))
               /\ Par(R, Sentinel) = Par(T, Sentinel)
<1> DEFINE o == Other(s)
           c == Kid(T, p, o)
           inner == Kid(T, c, s)
           outer == Kid(T, c, o)
           D == Dye(Dye(Dye(T, c, Color(T, p)), p, "black"), outer, "black")
           R == Rotate(D, p, s)
           a == [m \in Nodes |-> IF m = outer THEN b[c] ELSE b[m]]
           d == [m \in Nodes |-> IF m = c THEN b[p] ELSE IF m = p THEN b[c] ELSE a[m]]
<1>1. /\ c \in Live(T) /\ c # Sentinel /\ Par(T, c) = p
      /\ b[c] = b[n] + 1 /\ b[p] = Black(T, p) + b[c]
      /\ c # n /\ c # p /\ n # p /\ o \in Sides
      /\ inner # p /\ inner # c /\ outer # p /\ outer # c
      /\ (inner # Sentinel => inner # n) /\ (outer # Sentinel => outer # n)
      /\ Par(T, p) # c /\ Par(T, p) # p
  <2>1. s \in Sides /\ o \in Sides
    BY SidesAre DEF Deep
  <2> QED BY <2>1, SiblingIs
<1>2. /\ p \in Live(T) /\ s \in Sides /\ n \in Members(T) /\ Par(T, n) = p /\ Kid(T, p, s) = n
      /\ Balanced(T, b, p, s) /\ Color(T, n) = "black" /\ Apart(T, Sentinel, Sentinel)
      /\ Color(T, c) = "black" /\ Color(T, outer) = "red"
  BY DEF Deep
<1>3. SameLinks(T, T) /\ Color(T, Sentinel) = "black"
      /\ o # s /\ \A t \in Sides : t = s \/ t = o
  BY <1>2, SidesAre DEF SameLinks, Shape, Balanced
<1>4. /\ outer # Sentinel /\ outer \in Live(T) /\ Par(T, outer) = c /\ outer # inner
      /\ inner # Sentinel => inner \in Live(T) /\ Par(T, inner) = c
  <2>1. outer # Sentinel
    BY <1>2, <1>3
  <2>2. outer \in Live(T) /\ Par(T, outer) = c /\ SideOf(T, outer) = o
    BY <1>1, <2>1, SideOfChild, LiveAre DEF Shape, LinksOf
  <2>3. inner # Sentinel => inner \in Live(T) /\ Par(T, inner) = c
    BY <1>1, <1>2, SideOfChild, LiveAre DEF Shape, LinksOf
  <2>4. outer # inner
    BY <1>1, <1>2, <1>3, <2>2, OnlyParent
  <2> QED BY <2>1, <2>2, <2>3, <2>4
<1>5. p \in Nodes /\ c \in Nodes /\ p # Sentinel /\ n \in Nodes /\ Sentinel \in Nodes
      /\ inner \in Nodes /\ outer \in Nodes /\ Color(T, p) \in Dyes
  <2>1. p \in Nodes /\ c \in Nodes /\ p # Sentinel /\ n \in Nodes /\ Sentinel \in Nodes
        /\ inner \in Nodes /\ outer \in Nodes
    BY <1>1, <1>2, LiveAre, Names DEF Shape, LinksOf
  <2> QED BY <2>1, TreeParts DEF Dyes, Shape
<1>6. c = Kid(T, p, Other(s)) /\ outer = Kid(T, c, o) /\ inner = Kid(T, c, s)
  OBVIOUS
<1>7. SameLinks(T, D) /\ \A m \in Nodes :
         Color(D, m) = IF m = outer \/ m = p THEN "black" ELSE IF m = c THEN Color(T, p)
                       ELSE Color(T, m)
  <2> HIDE DEF c, outer
  <2> DEFINE C == Dye(T, c, Color(T, p))
             B == Dye(C, p, "black")
  <2>1. SameLinks(T, C) /\ \A m \in Nodes : Color(C, m) = IF m = c THEN Color(T, p) ELSE Color(T, m)
    BY <1>3, <1>5, Dyed
  <2> HIDE DEF C
  <2>2. SameLinks(T, B) /\ \A m \in Nodes : Color(B, m) = IF m = p THEN "black" ELSE Color(C, m)
    BY <1>5, <2>1, Dyed, Colors
  <2> HIDE DEF B
  <2>3. /\ SameLinks(T, Dye(B, outer, "black"))
        /\ \A m \in Nodes : Color(Dye(B, outer, "black"), m) = IF m = outer THEN "black" ELSE Color(B, m)
    BY <1>5, <2>2, Dyed, Colors
  <2> QED BY <2>1, <2>2, <2>3 DEF B, C
<1> HIDE DEF c, D
<1>8. /\ Turns(T, R, p, c, s) /\ Live(R) = Live(T) /\ \E v : Shape(R, v)
      /\ \A m \in Nodes : Color(R, m) = Color(D, m)
  BY <1>1, <1>2, <1>6, <1>7, RotateDyed
<1>9. PICK v : Shape(R, v)
  BY <1>8
<1> HIDE DEF R
<1>10. \A m \in Nodes :
          Color(R, m) = IF m = outer \/ m = p THEN "black" ELSE IF m = c THEN Color(T, p)
                        ELSE Color(T, m)
  BY <1>7, <1>8
<1>11. /\ Kid(R, p, o) = inner /\ Kid(R, p, s) = n
       /\ Kid(R, c, s) = p /\ Kid(R, c, o) = outer
       /\ Par(R, p) = c /\ Par(R, c) = Par(T, p)
       /\ \A m \in Nodes : m # p /\ m # c /\ ~(m = inner /\ m # Sentinel) => Par(R, m) = Par(T, m)
       /\ inner # Sentinel => Par(R, inner) = p
  BY <1>1, <1>2, <1>6, <1>8, TurnedKids
<1>12. /\ \A m \in Live(T), t \in Sides :
             /\ m \in Nodes /\ m # Sentinel /\ Kid(T, m, t) \in Nodes
             /\ ~(m = p /\ t = s) => b[m] = Black(T, m) + b[Kid(T, m, t)]
             /\ m = p /\ t = s => b[m] = Black(T, m) + b[Kid(T, m, t)] + 1
       /\ \A m \in Nodes : b[m] \in Nat /\ Black(T, m) \in {0, 1}
  BY <1>2, BalancedIs
<1>13. b[c] = b[n] + 1 /\ b[inner] = b[n] /\ b[outer] = b[n]
       /\ b[p] \in Nat /\ b[c] \in Nat /\ b[n] \in Nat
  <2>1. Black(T, c) = 1
    BY <1>2 DEF Black
  <2>2. b[c] = Black(T, c) + b[inner] /\ b[c] = Black(T, c) + b[outer]
    BY <1>1, <1>2, <1>12
  <2> QED BY <1>1, <1>5, <1>12, <2>1, <2>2
<1> HIDE DEF inner, outer
<1>14. /\ a[outer] = b[c] /\ a[p] = b[p] /\ \A m \in Nodes : m # outer => a[m] = b[m]
       /\ a \in [Nodes -> Nat]
  BY <1>1, <1>5, <1>12
<1> HIDE DEF a
<1>15. /\ d \in [Nodes -> Nat] /\ d[c] = a[p] /\ d[p] = b[c]
       /\ \A m \in Nodes : m # p /\ m # c => d[m] = a[m]
  BY <1>1, <1>5, <1>13, <1>14
<1> HIDE DEF d
<1>16. Balanced(R, d, Sentinel, "left")
  <2>1. Color(R, Sentinel) = "black" /\ d[Sentinel] = 0
    BY <1>1, <1>2, <1>3, <1>4, <1>5, <1>10, <1>14, <1>15 DEF Balanced
  <2>2. ASSUME NEW m \in Live(T), NEW t \in Sides
        PROVE  d[m] = Black(R, m) + d[Kid(R, m, t)]
    <3>1. CASE m = p
      <4>1. Black(R, p) = 1 /\ d[inner] = b[n] /\ d[n] = b[n]
        BY <1>1, <1>4, <1>5, <1>10, <1>13, <1>14, <1>15 DEF Black
      <4>2. d[Kid(R, p, t)] = b[n]
        BY <1>3, <1>11, <4>1
      <4> QED BY <1>13, <1>15, <3>1, <4>1, <4>2
    <3>2. CASE m = c
      <4>1. Black(R, c) = Black(T, p) /\ d[outer] = b[c]
        BY <1>1, <1>4, <1>5, <1>10, <1>14, <1>15 DEF Black
      <4>2. d[Kid(R, c, t)] = b[c]
        BY <1>3, <1>11, <1>15, <4>1
      <4> QED BY <1>1, <1>14, <1>15, <3>2, <4>1, <4>2
    <3>3. CASE m # p /\ m # c
      <4>1. d[Kid(R, m, t)] = a[Kid(T, m, t)]
        BY <1>1, <1>2, <1>6, <1>8, <1>14, <1>15, <3>3, TurnedBalance
      <4>2. Kid(T, m, t) # outer
        BY <1>4, <3>3, OnlyParent
      <4>3. d[Kid(R, m, t)] = b[Kid(T, m, t)] /\ b[m] = Black(T, m) + b[Kid(T, m, t)] /\ d[m] = a[m]
        BY <1>12, <1>14, <1>15, <3>3, <4>1, <4>2
      <4>4. CASE m = outer
        <5>1. Black(R, m) = 1 /\ Black(T, m) = 0 /\ d[m] = b[c] /\ b[m] = b[n]
          BY <1>2, <1>5, <1>10, <1>13, <1>14, <4>3, <4>4 DEF Black
        <5> QED BY <1>12, <1>13, <4>3, <5>1
      <4>5. CASE m # outer
        <5>1. Black(R, m) = Black(T, m) /\ d[m] = b[m]
          BY <1>10, <1>12, <1>14, <3>3, <4>3, <4>5 DEF Black
        <5> QED BY <4>3, <5>1
      <4> QED BY <4>4, <4>5
    <3> QED BY <3>1, <3>2, <3>3
  <2>3. \A m \in Live(T), t \in Sides : m # Sentinel /\ d[Kid(R, m, t)] \in Nat /\ Black(R, m) \in {0, 1}
    BY <1>8, <1>9, <1>15, LiveAre DEF Shape, LinksOf, Black
  <2> QED BY <1>8, <1>15, <2>1, <2>2, <2>3 DEF Balanced
<1>17. Apart(R, Sentinel, Sentinel)
  <2>1. ASSUME NEW m \in Live(T), Color(R, m) = "red"
        PROVE  m # Root(R) /\ Color(R, Par(R, m)) = "black"
    <3>1. m \in Nodes /\ Par(T, m) \in Nodes /\ m # Sentinel /\ m # outer /\ m # p /\ m \in Live(R)
      BY <1>8, <1>10, <2>1, LiveAre, Names DEF Shape, LinksOf
    <3>2. ASSUME NEW l \in Live(T), Color(T, l) = "red"
          PROVE  l # Root(T) /\ Par(T, l) \in Live(T) /\ Color(T, Par(T, l)) = "black"
      <4>1. l # Root(T) /\ (Color(T, Par(T, l)) = "red" => Par(T, l) = Sentinel)
        BY <1>2, <3>2, LiveAre DEF Apart
      <4>2. Par(T, l) \in Live(T)
        BY <4>1, OnlyParent
      <4> QED BY <4>1, <4>2, LiveAre, Names, TreeParts DEF Shape
    <3>3. CASE m = c
      <4>1. Color(T, p) = "red"
        BY <1>1, <1>10, <2>1, <3>1, <3>3
      <4>2. Par(T, p) \in Live(T) /\ Color(T, Par(T, p)) = "black"
        BY <1>2, <3>2, <4>1
      <4>3. Par(T, p) \in Nodes /\ Par(T, p) # Sentinel
        BY <4>2, LiveAre, Names
      <4>4. Color(R, Par(T, p)) = "black"
        BY <1>1, <1>10, <4>2, <4>3
      <4> QED BY <1>9, <1>11, <3>1, <3>3, <4>3, <4>4, OnlyParent
    <3>4. CASE m # c
      <4>1. Color(T, m) = "red"
        BY <1>10, <2>1, <3>1, <3>4
      <4>2. m # Root(T) /\ Par(T, m) \in Live(T) /\ Color(T, Par(T, m)) = "black"
        BY <3>2, <4>1
      <4>3. CASE m = inner
        BY <1>5, <1>9, <1>10, <1>11, <3>1, <4>3, OnlyParent
      <4>4. CASE m # inner
        <5>1. Par(R, m) = Par(T, m)
          BY <1>11, <3>1, <3>4, <4>4
        <5>2. Par(T, m) # c
          <6>1. Par(T, m) = c => Kid(T, c, SideOf(T, m)) = m /\ SideOf(T, m) \in Sides
            BY <1>1, OnlyParent
          <6> QED BY <1>3, <1>6, <3>1, <4>4, <6>1
        <5>3. Color(R, Par(R, m)) = "black"
          BY <1>10, <3>1, <4>2, <5>1, <5>2
        <5> QED BY <1>9, <3>1, <4>2, <5>1, <5>3, OnlyParent, LiveAre
      <4> QED BY <4>3, <4>4
    <3> QED BY <3>3, <3>4
  <2> QED BY <1>8, <2>1 DEF Apart
<1>18. InOrder(R, d)
  BY <1>16, <1>17 DEF InOrder
<1>19. Par(R, Sentinel) = Par(T, Sentinel)
  BY <1>1, <1>5, <1>11
<1> QED BY <1>8, <1>18, <1>19 DEF o, c, outer, R, D

-----------------------------------------------------------------------------
(***************************************************************************)
(* Delete takes a node out                                                 *)
(***************************************************************************)
LEMMA ForgetIs ==
    ASSUME NEW T \in Trees, NEW d \in Keys
    PROVE  LET R == Forget(T, d)
           IN  /\ R \in Trees /\ Root(R) = Root(T)
               /\ \A n \in Nodes :
                     /\ Par(R, n) = IF n = d THEN Null ELSE Par(T, n)
                     /\ Color(R, n) = IF n = d THEN "black" ELSE Color(T, n)
                     /\ \A t \in Sides : Kid(R, n, t) = IF n = d THEN Null ELSE Kid(T, n, t)
<1> DEFINE A == SetKids(T, d, Null, Null)
           B == SetPar(A, d, Null)
           C == SetColor(B, d, "black")
<1>1. Forget(T, d) = C
  BY TreeIs DEF Forget, SetKids, SetPar, SetColor
<1>2. d \in Nodes /\ Null \in Pointers /\ "black" \in {"red", "black"}
  BY Names DEF Pointers
<1>3. /\ A \in Trees /\ Root(A) = Root(T)
      /\ \A m \in Nodes :
            /\ Par(A, m) = Par(T, m) /\ Color(A, m) = Color(T, m)
            /\ \A t \in Sides : Kid(A, m, t) = IF m = d THEN (IF t = "left" THEN Null ELSE Null)
                                               ELSE Kid(T, m, t)
  BY <1>2, WriteKids
<1> HIDE DEF A
<1>4. /\ B \in Trees /\ Root(B) = Root(A)
      /\ \A m \in Nodes : /\ Par(B, m) = IF m = d THEN Null ELSE Par(A, m)
                          /\ Color(B, m) = Color(A, m)
                          /\ \A t \in Sides : Kid(B, m, t) = Kid(A, m, t)
  BY <1>2, <1>3, WritePar
<1> HIDE DEF B
<1>5. /\ C \in Trees /\ Root(C) = Root(B)
      /\ \A m \in Nodes : /\ Par(C, m) = Par(B, m)
                          /\ Color(C, m) = IF m = d THEN "black" ELSE Color(B, m)
                          /\ \A t \in Sides : Kid(C, m, t) = Kid(B, m, t)
  BY <1>2, <1>4, WriteColor
<1> HIDE DEF C
<1> QED BY <1>1, <1>3, <1>4, <1>5

\* R is T without r, whose place c has taken.
Spliced(T, R, r, c) ==
    /\ R \in Trees
    /\ Root(R) = IF Par(T, r) = Sentinel THEN c ELSE Root(T)
    /\ \A n \in Nodes :
          /\ Par(R, n) = IF n = r THEN Null ELSE IF n = c THEN Par(T, r) ELSE Par(T, n)
          /\ Color(R, n) = IF n = r THEN "black" ELSE Color(T, n)
          /\ \A t \in Sides :
                Kid(R, n, t) = IF n = r THEN Null
                               ELSE IF n = Par(T, r) /\ n # Sentinel /\ t = SideOf(T, r) THEN c
                               ELSE Kid(T, n, t)

LEMMA SplicedIs ==
    ASSUME NEW T \in Trees, NEW r \in Keys, NEW c \in Nodes, Par(T, r) \in Nodes
    PROVE  Spliced(T, Forget(TransPlant(T, r, c), r), r, c)
<1> DEFINE A == TransPlant(T, r, c)
           R == Forget(A, r)
<1>1. /\ A \in Trees
      /\ Root(A) = IF Par(T, r) = Sentinel THEN c ELSE Root(T)
      /\ \A n \in Nodes :
            /\ Par(A, n) = IF n = c THEN Par(T, r) ELSE Par(T, n)
            /\ Color(A, n) = Color(T, n)
            /\ \A t \in Sides :
                  Kid(A, n, t) = IF n = Par(T, r) /\ Par(T, r) # Sentinel /\ t = SideOf(T, r) THEN c
                                 ELSE Kid(T, n, t)
  BY TransPlantIs
<1> HIDE DEF A
<1>2. /\ R \in Trees /\ Root(R) = Root(A)
      /\ \A n \in Nodes :
            /\ Par(R, n) = IF n = r THEN Null ELSE Par(A, n)
            /\ Color(R, n) = IF n = r THEN "black" ELSE Color(A, n)
            /\ \A t \in Sides : Kid(R, n, t) = IF n = r THEN Null ELSE Kid(A, n, t)
  BY <1>1, ForgetIs
<1> HIDE DEF R
<1>3. Spliced(T, R, r, c)
  BY <1>1, <1>2 DEF Spliced
<1> QED BY <1>3 DEF R, A

\* What a node that has one child at most leaves behind.
LEMMA SplicedLinks ==
    ASSUME NEW T, NEW u, Shape(T, u), NEW r \in Live(T), NEW s \in Sides,
           Kid(T, r, Other(s)) = Sentinel, NEW R, Spliced(T, R, r, Kid(T, r, s))
    PROVE  LET c == Kid(T, r, s)
               p == Par(T, r)
           IN  /\ Live(R) = Live(T) \ {r} /\ c \in Members(R) /\ c # r /\ p # r /\ p \in Members(R)
               /\ p # c \/ p = Sentinel
               /\ Par(R, c) = p
               /\ p # Sentinel => Root(R) = Root(T) /\ Kid(R, p, SideOf(T, r)) = c
                                  /\ SideOf(T, r) \in Sides /\ Root(R) # r
               /\ p = Sentinel => Root(R) = c /\ Root(T) = r
               /\ \A n \in Live(R) : n # c => Par(R, n) = Par(T, n) /\ Par(T, n) # r
               /\ \A n \in Live(R), t \in Sides :
                     ~(n = p /\ t = SideOf(T, r)) => /\ Kid(R, n, t) = Kid(T, n, t)
                                                     /\ Kid(T, n, t) # r
                                                     /\ (Kid(T, n, t) # Sentinel => Kid(T, n, t) # c)
               /\ \A n \in Live(R), t \in Sides : Kid(T, n, t) = r => n = p /\ t = SideOf(T, r)
               /\ \A n \in Members(R) : Color(R, n) = Color(T, n)
<1> DEFINE c == Kid(T, r, s)
           p == Par(T, r)
<1>1. /\ c \in Members(T) /\ p \in Members(T) /\ p # r /\ SideOf(T, r) \in Sides
      /\ p = Sentinel => Root(T) = r
      /\ p # Sentinel => p \in Live(T) /\ Kid(T, p, SideOf(T, r)) = r
      /\ r # Sentinel /\ r \in Keys /\ r \in Nodes
  BY OnlyParent, LiveAre, Names DEF Shape, LinksOf
<1>2. /\ c # Sentinel => c \in Live(T) /\ Par(T, c) = r
      /\ c # r
  BY <1>1, SideOfChild, OnlyParent, LiveAre
<1>3. p # Sentinel => p # c
  <2>1. CASE c # Sentinel
    <3>1. Par(T, r) # c
      BY <2>1, Family
    <3> QED BY <3>1
  <2>2. CASE c = Sentinel
    BY <2>2
  <2> QED BY <2>1, <2>2
<1>4. \A n \in Keys : n \in Nodes /\ n # Sentinel
  BY Names
<1>5. p # Null /\ c \in Nodes
  BY <1>1, LiveAre, Names
<1>6. \A n \in Live(T) : n \in Keys /\ (Par(T, n) = r => n = c)
  <2>1. ASSUME NEW n \in Live(T), Par(T, n) = r PROVE n = c
    <3>1. Kid(T, r, SideOf(T, n)) = n /\ SideOf(T, n) \in Sides /\ n # Sentinel
      BY <1>1, <2>1, OnlyParent, LiveAre
    <3> QED BY <3>1, SidesAre
  <2> QED BY <2>1, LiveAre
<1>7. \A n \in Live(T), t \in Sides : /\ Kid(T, n, t) = r => n = p /\ t = SideOf(T, r)
                                      /\ Kid(T, n, t) = c /\ c # Sentinel => n = r
  BY <1>2, OnlyParent
<1>8. Spliced(T, R, r, c)
  OBVIOUS
<1>8a. Root(T) = r => p = Sentinel
  BY OnlyParent
<1> HIDE DEF c, p
<1>9. /\ Root(R) = IF p = Sentinel THEN c ELSE Root(T)
      /\ \A n \in Nodes :
            /\ Par(R, n) = IF n = r THEN Null ELSE IF n = c THEN p ELSE Par(T, n)
            /\ Color(R, n) = IF n = r THEN "black" ELSE Color(T, n)
            /\ \A t \in Sides :
                  Kid(R, n, t) = IF n = r THEN Null
                                 ELSE IF n = p /\ n # Sentinel /\ t = SideOf(T, r) THEN c
                                 ELSE Kid(T, n, t)
  BY <1>8 DEF Spliced, p
<1>10. Live(R) = Live(T) \ {r}
  <2>1. ASSUME NEW n \in Keys PROVE Par(R, n) # Null <=> Par(T, n) # Null /\ n # r
    <3>1. n = c => Par(T, n) # Null
      BY <1>1, <1>2, <1>4, <2>1, LiveAre
    <3> QED BY <1>4, <1>5, <1>9, <3>1
  <2> QED BY <2>1 DEF Live, Par
<1>11. \A n \in Members(R) : n \in Nodes /\ n # r /\ (n \in Live(R) => n # Sentinel)
  BY <1>1, <1>10, LiveAre
<1>12. c \in Members(R) /\ p \in Members(R)
  BY <1>1, <1>2, <1>10, LiveAre
<1>13. ASSUME NEW n \in Live(R)
       PROVE  /\ n # c => Par(R, n) = Par(T, n) /\ Par(T, n) # r
              /\ \A t \in Sides :
                    ~(n = p /\ t = SideOf(T, r)) => /\ Kid(R, n, t) = Kid(T, n, t)
                                                    /\ Kid(T, n, t) # r
                                                    /\ (Kid(T, n, t) # Sentinel => Kid(T, n, t) # c)
  <2>1. n \in Live(T) /\ n # r /\ n \in Nodes /\ n # Sentinel
    BY <1>10, LiveAre, Names
  <2> QED BY <1>6, <1>7, <1>9, <2>1
<1>14. /\ Par(R, c) = p
       /\ p # Sentinel => Kid(R, p, SideOf(T, r)) = c
  BY <1>1, <1>2, <1>5, <1>9, <1>11, <1>12
<1> QED BY <1>1, <1>2, <1>3, <1>7, <1>8a, <1>9, <1>10, <1>11, <1>12, <1>13, <1>14 DEF c, p

LEMMA SplicedShape ==
    ASSUME NEW T, NEW u, Shape(T, u), NEW r \in Live(T), NEW s \in Sides,
           Kid(T, r, Other(s)) = Sentinel, NEW R, Spliced(T, R, r, Kid(T, r, s))
    PROVE  Shape(R, [n \in Nodes |-> u[n] \ {r}])
<1> DEFINE c == Kid(T, r, s)
           p == Par(T, r)
           h == SideOf(T, r)
           v == [n \in Nodes |-> u[n] \ {r}]
<1>1. /\ Live(R) = Live(T) \ {r} /\ c \in Members(R) /\ c # r /\ p # r /\ p \in Members(R)
      /\ p # c \/ p = Sentinel
      /\ Par(R, c) = p
      /\ p # Sentinel => Root(R) = Root(T) /\ Kid(R, p, h) = c
                         /\ h \in Sides /\ Root(R) # r
      /\ p = Sentinel => Root(R) = c /\ Root(T) = r
      /\ \A n \in Live(R) : n # c => Par(R, n) = Par(T, n) /\ Par(T, n) # r
      /\ \A n \in Live(R), t \in Sides :
            ~(n = p /\ t = h) => /\ Kid(R, n, t) = Kid(T, n, t) /\ Kid(T, n, t) # r
                                 /\ (Kid(T, n, t) # Sentinel => Kid(T, n, t) # c)
  BY SplicedLinks
<1>2. /\ Members(R) \subseteq Nodes /\ \A n \in Live(R) : n \in Live(T) /\ n # r /\ n \in Nodes
      /\ r \in Nodes /\ r # Sentinel /\ Sentinel \in Nodes /\ c \in Nodes
      /\ \A n \in Members(R) : n = Sentinel \/ n \in Live(R)
      /\ \A n \in Members(T) : n # r => n \in Members(R)
  BY <1>1, LiveAre, Names
<1>3. p # Sentinel => Kid(T, p, h) = r
  BY OnlyParent
<1>4. u[r] = {r} \union u[c] /\ r \notin u[c] /\ u[Sentinel] = {}
  <2>1. u[r] = {r} \union u[c]
    <3>1. u[r] = {r} \union u[Kid(T, r, "left")] \union u[Kid(T, r, "right")] /\ u[Sentinel] = {}
      BY DEF Shape, OrderOf
    <3> QED BY <3>1, SidesAre
  <2> QED BY <2>1, Under DEF Shape
<1> HIDE DEF c, p, h
<1>5. \A n \in Nodes : v[n] = u[n] \ {r}
  OBVIOUS
<1>6. v \in [Nodes -> SUBSET Live(R)]
  <2>1. \A n \in Nodes : u[n] \ {r} \subseteq Live(R)
    BY <1>1 DEF Shape
  <2> QED BY <2>1
<1> HIDE DEF v
<1>7. v[Sentinel] = {} /\ v[c] = u[r] \ {r}
  BY <1>2, <1>4, <1>5
<1>8. ASSUME NEW n \in Live(R), NEW t \in Sides
      PROVE  /\ Kid(R, n, t) \in Members(R)
             /\ Kid(R, n, t) # Sentinel => Par(R, Kid(R, n, t)) = n
             /\ v[Kid(R, n, t)] = u[Kid(T, n, t)] \ {r}
  <2>1. CASE n = p /\ t = h
    BY <1>1, <1>2, <1>3, <1>7, <2>1, LiveAre
  <2>2. CASE ~(n = p /\ t = h)
    <3>1. Kid(R, n, t) = Kid(T, n, t) /\ Kid(R, n, t) \in Members(T) /\ Kid(R, n, t) # r
          /\ (Kid(T, n, t) # Sentinel => Par(T, Kid(T, n, t)) = n)
      BY <1>1, <1>2, <2>2 DEF Shape, LinksOf
    <3>2. Kid(R, n, t) \in Members(R) /\ Kid(R, n, t) \in Nodes
      BY <1>2, <3>1
    <3>3. Kid(R, n, t) # Sentinel => Par(R, Kid(R, n, t)) = Par(T, Kid(R, n, t))
      BY <1>1, <1>2, <2>2, <3>1, <3>2
    <3> QED BY <1>5, <3>1, <3>2, <3>3
  <2> QED BY <2>1, <2>2
<1>9. ASSUME NEW n \in Live(R)
      PROVE  /\ Par(R, n) \in Members(R) /\ (Par(R, n) = Sentinel => n = Root(R))
             /\ Par(R, n) # Sentinel => Kid(R, Par(R, n), SideOf(R, n)) = n
  <2>0. n # Sentinel
    BY LiveAre
  <2>1. CASE n = c
    BY <1>1, <2>1, SideIs
  <2>2. CASE n # c
    <3>1. Par(R, n) = Par(T, n) /\ Par(T, n) # r /\ LinksOf(T, n)
      BY <1>1, <1>2, <2>2 DEF Shape
    <3>2. Par(R, n) \in Members(R)
      BY <1>2, <3>1 DEF LinksOf
    <3>3. Par(R, n) = Sentinel => n = Root(R)
      BY <1>1, <1>2, <3>1 DEF LinksOf
    <3>4. ASSUME Par(R, n) # Sentinel PROVE Kid(R, Par(R, n), SideOf(R, n)) = n
      <4>1. Par(R, n) \in Live(R) /\ Kid(T, Par(R, n), SideOf(T, n)) = n /\ SideOf(T, n) \in Sides
        BY <1>2, <3>1, <3>2, <3>4, SideIs DEF LinksOf
      <4>2. ~(Par(R, n) = p /\ SideOf(T, n) = h)
        BY <1>2, <1>3, <3>4, <4>1
      <4>3. Kid(R, Par(R, n), SideOf(T, n)) = n
        BY <1>1, <4>1, <4>2
      <4> QED BY <4>1, <4>3, SideIs
    <3> QED BY <3>2, <3>3, <3>4
  <2> QED BY <2>1, <2>2
<1>10. ASSUME NEW n \in Live(R) PROVE OrderOf(R, v, n)
  <2>1. OrderOf(T, u, n) /\ n # r /\ v[n] = u[n] \ {r}
    BY <1>2, <1>5 DEF Shape
  <2>2. v[n] = {n} \union v[Kid(R, n, "left")] \union v[Kid(R, n, "right")]
    BY <1>8, <2>1, SidesAre DEF OrderOf
  <2>3. \A t \in Sides : \A m \in v[Kid(R, n, t)] : m # n /\ Toward(m, n) = t
    BY <1>8, <2>1 DEF OrderOf
  <2> QED BY <2>2, <2>3 DEF OrderOf
<1>11. /\ Root(R) \in Members(R) /\ v[Root(R)] = Live(R)
       /\ Root(R) # Sentinel => Par(R, Root(R)) = Sentinel
  <2>1. Root(T) \in Members(T) /\ u[Root(T)] = Live(T)
        /\ (Root(T) # Sentinel => Par(T, Root(T)) = Sentinel)
    BY DEF Shape
  <2>2. CASE p = Sentinel
    BY <1>1, <1>7, <2>1, <2>2
  <2>3. CASE p # Sentinel
    <3>1. Root(R) = Root(T) /\ Root(R) \in Members(R) /\ Root(R) \in Nodes
      BY <1>1, <1>2, <2>1, <2>3
    <3>2. v[Root(R)] = Live(R)
      BY <1>1, <1>5, <2>1, <3>1
    <3>3. Root(R) # Sentinel => Root(R) # c
      <4>1. c # Sentinel => c \in Live(T) /\ Par(T, c) = r
        BY SideOfChild, Under DEF c
      <4> QED BY <1>2, <2>1, <3>1, <4>1
    <3> QED BY <1>1, <1>2, <2>1, <3>1, <3>2, <3>3
  <2> QED BY <2>2, <2>3
<1>12. /\ Par(R, Sentinel) \in Nodes
       /\ \A t \in Sides : Kid(R, Sentinel, t) = Sentinel
  <2>1. Par(R, Sentinel) \in {Par(T, r), Par(T, Sentinel)}
    BY <1>2 DEF Spliced
  <2>2. Par(T, r) \in Nodes /\ Par(T, Sentinel) \in Nodes
    BY LiveAre DEF Shape, LinksOf
  <2>3. \A t \in Sides : Kid(R, Sentinel, t) = Kid(T, Sentinel, t)
    BY <1>2 DEF Spliced
  <2> QED BY <2>1, <2>2, <2>3 DEF Shape
<1>13. R \in Trees
  BY DEF Spliced
<1>14. Shape(R, v)
  BY <1>6, <1>7, <1>8, <1>9, <1>10, <1>11, <1>12, <1>13 DEF Shape, LinksOf
<1> QED BY <1>14 DEF v

\* Without a red node everything is in order; the place of a black node lacks its black.
LEMMA SplicedKeeps ==
    ASSUME NEW T, NEW u, Shape(T, u), NEW b, InOrder(T, b), NEW r \in Live(T), NEW s \in Sides,
           Kid(T, r, Other(s)) = Sentinel, NEW R, Spliced(T, R, r, Kid(T, r, s))
    PROVE  LET c == Kid(T, r, s)
           IN  /\ Color(T, r) = "red" => c = Sentinel /\ InOrder(R, b)
               /\ Color(T, r) = "black" => Deleting(R, b, c) /\ (c = Sentinel \/ Color(R, c) = "red")
<1> DEFINE c == Kid(T, r, s)
           p == Par(T, r)
           h == SideOf(T, r)
           v == [n \in Nodes |-> u[n] \ {r}]
<1>1. /\ Live(R) = Live(T) \ {r} /\ c \in Members(R) /\ c # r /\ p # r /\ p \in Members(R)
      /\ p # c \/ p = Sentinel
      /\ Par(R, c) = p
      /\ p # Sentinel => Root(R) = Root(T) /\ Kid(R, p, h) = c
                         /\ h \in Sides /\ Root(R) # r
      /\ p = Sentinel => Root(R) = c /\ Root(T) = r
      /\ \A n \in Live(R) : n # c => Par(R, n) = Par(T, n) /\ Par(T, n) # r
      /\ \A n \in Live(R), t \in Sides :
            ~(n = p /\ t = h) => /\ Kid(R, n, t) = Kid(T, n, t) /\ Kid(T, n, t) # r
                                 /\ (Kid(T, n, t) # Sentinel => Kid(T, n, t) # c)
      /\ \A n \in Members(R) : Color(R, n) = Color(T, n)
  BY SplicedLinks
<1>2. /\ \A n \in Live(R) : n \in Live(T) /\ n # r /\ n \in Nodes /\ n # Sentinel
      /\ r \in Nodes /\ r # Sentinel /\ c \in Nodes /\ p \in Nodes
      /\ \A n \in Members(R) : n = Sentinel \/ n \in Live(R)
      /\ Sentinel \in Members(R)
  BY <1>1, LiveAre, Names
<1>3. p # Sentinel => Kid(T, p, h) = r
  BY OnlyParent
<1>4. /\ Balanced(T, b, Sentinel, "left") /\ Apart(T, Sentinel, Sentinel)
      /\ Color(T, Sentinel) = "black" /\ b[Sentinel] = 0 /\ b \in [Nodes -> Nat]
  BY DEF InOrder, Balanced
<1>5. /\ \A m \in Live(T), t \in Sides :
            /\ m \in Nodes /\ m # Sentinel /\ Kid(T, m, t) \in Nodes
            /\ b[m] = Black(T, m) + b[Kid(T, m, t)]
      /\ \A m \in Nodes : b[m] \in Nat /\ Black(T, m) \in {0, 1}
  BY <1>4, BalancedIs
<1>6. c # Sentinel => c \in Live(T) /\ Par(T, c) = r
  BY <1>1, <1>2, SideOfChild
<1>7. b[c] = 0 /\ b[r] = Black(T, r)
  <2>1. b[r] = Black(T, r) + b[c] /\ b[r] = Black(T, r) + b[Kid(T, r, Other(s))]
    BY <1>5, SidesAre
  <2> QED BY <1>2, <1>4, <1>5, <2>1
<1>8. c # Sentinel => Color(T, c) = "red" /\ Color(T, r) = "black"
  <2>1. ASSUME c # Sentinel PROVE Color(T, c) = "red" /\ Color(T, r) = "black"
    <3>1. b[c] = Black(T, c) + b[Kid(T, c, "left")] /\ Kid(T, c, "left") \in Nodes
      BY <1>5, <1>6, <2>1, SidesAre
    <3>2. Black(T, c) = 0
      BY <1>2, <1>5, <1>7, <3>1
    <3>3. Color(T, c) = "red"
      BY <1>2, <3>2, TreeParts DEF Shape, Black
    <3>4. Color(T, r) # "red"
      BY <1>2, <1>4, <1>6, <2>1, <3>3 DEF Apart
    <3> QED BY <1>2, <3>3, <3>4, TreeParts DEF Shape
  <2> QED BY <2>1
<1>9. r = Root(T) <=> p = Sentinel
  BY <1>1, OnlyParent
<1>10. c = Root(R) <=> p = Sentinel
  <2>1. p # Sentinel => Root(T) # c
    <3>1. Live(T) # {} /\ u[Root(T)] = Live(T) /\ u[Sentinel] = {}
      BY DEF Shape
    <3>2. Root(T) # Sentinel /\ Par(T, Root(T)) = Sentinel
      BY <3>1 DEF Shape
    <3> QED BY <1>2, <1>6, <3>2
  <2> QED BY <1>1, <2>1
<1>11. Shape(R, v)
  BY SplicedShape
<1> HIDE DEF c, p, h, v
<1>12. ASSUME NEW n \in Live(R), NEW t \in Sides
       PROVE  /\ n = p /\ t = h => b[n] = Black(R, n) + b[Kid(R, n, t)] + Black(T, r)
              /\ ~(n = p /\ t = h) => b[n] = Black(R, n) + b[Kid(R, n, t)]
  <2>1. b[n] = Black(T, n) + b[Kid(T, n, t)] /\ Black(R, n) = Black(T, n) /\ Black(T, n) \in {0, 1}
    BY <1>1, <1>2, <1>5 DEF Black, Members
  <2>2. n = p /\ t = h => Kid(T, n, t) = r /\ Kid(R, n, t) = c
    BY <1>1, <1>2, <1>3
  <2>3. b[r] = Black(T, r) + b[c] /\ Black(T, r) \in {0, 1}
    BY <1>2, <1>5, <1>7
  <2> QED BY <1>1, <1>7, <2>1, <2>2, <2>3
<1>13. Color(R, Sentinel) = "black"
  BY <1>1, <1>2, <1>4
<1>14. Apart(R, c, c) /\ (c = Sentinel => Apart(R, Sentinel, Sentinel))
  <2>1. ASSUME NEW n \in Live(R), Color(R, n) = "red", n # c
        PROVE  n # Root(R) /\ Color(R, Par(R, n)) # "red"
    <3>1. Color(T, n) = "red" /\ n \in Live(T) /\ n # Sentinel
      BY <1>1, <1>2, <2>1 DEF Members
    <3>2. n # Root(T) /\ Color(T, Par(T, n)) # "red"
      BY <1>4, <3>1 DEF Apart
    <3>3. Par(T, n) \in Members(T) /\ Par(R, n) = Par(T, n) /\ Par(T, n) # r
      BY <1>1, <2>1, <3>1 DEF Shape, LinksOf
    <3>4. Par(T, n) \in Members(R)
      BY <1>1, <1>2, <3>3, LiveAre
    <3> QED BY <1>1, <2>1, <3>2, <3>3, <3>4
  <2>2. \A n \in Live(R) : n # Sentinel
    BY <1>2
  <2> QED BY <2>1, <2>2 DEF Apart
<1>15. ASSUME Color(T, r) = "red" PROVE c = Sentinel /\ InOrder(R, b)
  <2>1. c = Sentinel
    BY <1>8, <1>15
  <2>2. Black(T, r) = 0
    BY <1>15 DEF Black
  <2>3. ASSUME NEW n \in Live(R), NEW t \in Sides
        PROVE  b[n] = Black(R, n) + b[Kid(R, n, t)] + (IF n = Sentinel /\ t = "left" THEN 1 ELSE 0)
    <3>1. b[Kid(R, n, t)] \in Nat /\ Black(R, n) \in {0, 1}
      BY <1>1, <1>2, <1>5 DEF Black
    <3> QED BY <1>2, <1>12, <2>2, <3>1
  <2>4. Balanced(R, b, Sentinel, "left")
    BY <1>4, <1>13, <2>3 DEF Balanced
  <2> QED BY <1>14, <2>1, <2>4 DEF InOrder
<1>16. ASSUME Color(T, r) = "black" PROVE Deleting(R, b, c)
  <2>1. Black(T, r) = 1 /\ b[r] = 1
    BY <1>7, <1>16 DEF Black
  <2>2. Balanced(R, b, p, h)
    <3>1. ASSUME NEW n \in Live(R), NEW t \in Sides
          PROVE  b[n] = Black(R, n) + b[Kid(R, n, t)] + (IF n = p /\ t = h THEN 1 ELSE 0)
      <4>1. Kid(R, n, t) \in Nodes /\ n \in Nodes
        BY <1>2, <1>11, LiveAre DEF Shape, LinksOf
      <4>2. b[Kid(R, n, t)] \in Nat /\ Black(R, n) \in {0, 1}
        BY <1>5, <4>1 DEF Black
      <4> QED BY <1>12, <2>1, <4>2
    <3> QED BY <1>4, <1>13, <3>1 DEF Balanced
  <2>3. CASE p = Sentinel
    <3>1. Balanced(R, b, Sentinel, "left")
      BY <1>2, <2>2, <2>3 DEF Balanced
    <3> QED BY <1>1, <1>10, <1>14, <2>3, <3>1 DEF Deleting
  <2>4. CASE p # Sentinel
    <3>1. p \in Live(R) /\ h \in Sides /\ Kid(R, p, h) = c /\ Par(R, c) = p
      BY <1>1, <1>2, <2>4
    <3>2. SideOf(R, c) = h
      <4>1. CASE h = "left"
        BY <3>1, <4>1 DEF SideOf, Kid, Par
      <4>2. CASE h # "left"
        <5>1. h = "right" /\ "left" \in Sides /\ p \in Live(T)
          BY <1>2, <3>1, <4>2, SidesAre
        <5>2. /\ Kid(R, p, "left") = Kid(T, p, "left")
              /\ Kid(T, p, "left") # Sentinel => Kid(T, p, "left") # c
          BY <1>1, <3>1, <5>1
        <5>3. b[p] = Black(T, p) + b[Kid(T, p, "left")] /\ b[p] = Black(T, p) + b[r]
              /\ Black(T, p) \in {0, 1} /\ b[Kid(T, p, "left")] \in Nat
          BY <1>3, <1>5, <2>4, <3>1, <5>1
        <5>4. Kid(T, p, "left") # Sentinel
          BY <1>4, <2>1, <5>3
        <5> QED BY <3>1, <5>1, <5>2, <5>4 DEF SideOf, Kid, Par
      <4> QED BY <4>1, <4>2
    <3> QED BY <1>1, <1>10, <1>14, <2>2, <2>4, <3>1, <3>2 DEF Deleting
  <2> QED BY <2>3, <2>4
<1>17. c = Sentinel \/ Color(R, c) = "red"
  BY <1>1, <1>8
<1> QED BY <1>15, <1>16, <1>17 DEF c

\* R is T, with r, which was not in it, in the place of d.
Renamed(T, R, d, r) ==
    /\ R \in Trees
    /\ Root(R) = IF Root(T) = d THEN r ELSE Root(T)
    /\ Par(R, d) = Null /\ Par(R, r) = Par(T, d) /\ Par(R, Sentinel) \in Nodes
    /\ \A n \in Live(T) : n # d => Par(R, n) = IF Par(T, n) = d THEN r ELSE Par(T, n)
    /\ \A n \in Keys : n \notin Live(T) /\ n # r => Par(R, n) = Null
    /\ \A t \in Sides : Kid(R, r, t) = Kid(T, d, t) /\ Kid(R, Sentinel, t) = Sentinel
    /\ \A n \in Live(T), t \in Sides :
          n # d => Kid(R, n, t) = IF Kid(T, n, t) = d THEN r ELSE Kid(T, n, t)
    /\ Color(R, r) = Color(T, d)
    /\ \A n \in Members(T) : n # d => Color(R, n) = Color(T, n)

\* No key of T lies between d and r.
Neighbors(T, u, d, r) ==
    \A n \in Live(T) : n # d =>
       /\ n # r
       /\ d \in u[n] => Toward(r, n) = Toward(d, n)
       /\ n \in u[d] => Toward(n, r) = Toward(n, d)

\* A node of T, and what it has become in R.
Become(d, r, n) == IF n = d THEN r ELSE n

LEMMA RenamedLinks ==
    ASSUME NEW T, NEW u, Shape(T, u), NEW d \in Live(T), NEW r \in Keys, r \notin Live(T),
           NEW R, Renamed(T, R, d, r)
    PROVE  /\ Live(R) = (Live(T) \ {d}) \union {r} /\ Members(R) = (Members(T) \ {d}) \union {r}
           /\ d # r /\ d # Sentinel /\ r # Sentinel
           /\ \A n \in Members(T) : /\ n \in Nodes /\ n # r /\ (n = Sentinel \/ n \in Live(T))
                                    /\ Become(d, r, n) \in Members(R)
                                    /\ Become(d, r, n) = Sentinel <=> n = Sentinel
                                    /\ Color(R, Become(d, r, n)) = Color(T, n)
           /\ \A n \in Live(T) :
                 /\ Par(T, n) \in Members(T) /\ Par(R, Become(d, r, n)) = Become(d, r, Par(T, n))
                 /\ \A t \in Sides : /\ Kid(T, n, t) \in Members(T)
                                      /\ Kid(R, Become(d, r, n), t) = Become(d, r, Kid(T, n, t))
           /\ \A n \in Live(R) : \E l \in Live(T) : n = Become(d, r, l)
           /\ Root(R) = Become(d, r, Root(T))
<1> DEFINE new_(n) == Become(d, r, n)
<1>1. /\ d \in Keys /\ d # r /\ d # Sentinel /\ r # Sentinel /\ r # Null /\ d # Null
      /\ \A n \in Live(T) : n \in Keys /\ n # Sentinel /\ n # r
      /\ \A n \in Members(T) : n \in Nodes /\ n # r /\ n # Null /\ (n = Sentinel \/ n \in Live(T))
      /\ \A n \in Keys : n \in Live(T) <=> Par(T, n) # Null
      /\ \A n \in Live(T) : n \in Members(T)
      /\ Sentinel \in Members(T)
  BY LiveAre, Names
<1>2. Live(R) = (Live(T) \ {d}) \union {r}
  <2>1. Par(T, d) # Null
    BY <1>1
  <2>2. ASSUME NEW n \in Keys PROVE Par(R, n) # Null <=> (n \in Live(T) /\ n # d) \/ n = r
    BY <1>1, <2>1, <2>2 DEF Renamed
  <2> QED BY <2>2 DEF Live, Par
<1>3. Members(R) = (Members(T) \ {d}) \union {r}
  BY <1>1, <1>2 DEF Members
<1>4. \A n \in Live(T) : Par(T, n) \in Members(T) /\ \A t \in Sides : Kid(T, n, t) \in Members(T)
  BY DEF Shape, LinksOf
<1>5. Par(T, d) # d /\ \A t \in Sides : Kid(T, d, t) # d
  BY <1>4, OnlyParent
<1>6. /\ \A n \in Live(T) : Par(R, new_(n)) = new_(Par(T, n))
      /\ \A n \in Live(T), t \in Sides : Kid(R, new_(n), t) = new_(Kid(T, n, t))
      /\ \A n \in Members(T) : Color(R, new_(n)) = Color(T, n)
      /\ Root(R) = new_(Root(T))
  BY <1>1, <1>5 DEF Renamed, Become
<1>7. /\ \A n \in Live(R) : \E l \in Live(T) : n = new_(l)
      /\ \A n \in Members(T) : new_(n) \in Members(R) /\ (new_(n) = Sentinel <=> n = Sentinel)
  BY <1>1, <1>2, <1>3 DEF Become
<1> QED BY <1>1, <1>2, <1>3, <1>4, <1>6, <1>7

LEMMA RenamedShape ==
    ASSUME NEW T, NEW u, Shape(T, u), NEW d \in Live(T), NEW r \in Keys, r \notin Live(T),
           Neighbors(T, u, d, r), NEW R, Renamed(T, R, d, r)
    PROVE  Live(R) = (Live(T) \ {d}) \union {r} /\ \E v : Shape(R, v)
<1> DEFINE new_(n) == IF n = d THEN r ELSE n
           v == [n \in Nodes |-> IF n = d THEN {} ELSE IF n = r THEN (u[d] \ {d}) \union {r}
                                 ELSE IF d \in u[n] THEN (u[n] \ {d}) \union {r} ELSE u[n]]
<1>1. /\ d \in Keys /\ d \in Nodes /\ r \in Nodes /\ d # r /\ d # Sentinel /\ r # Sentinel
      /\ r # Null /\ d # Null /\ Sentinel \in Nodes
      /\ \A n \in Live(T) : n \in Keys /\ n \in Nodes /\ n # Sentinel /\ n # r
      /\ \A n \in Members(T) : n \in Nodes /\ n # r /\ n # Null /\ (n = Sentinel \/ n \in Live(T))
      /\ \A n \in Keys : n \in Live(T) <=> Par(T, n) # Null
  BY LiveAre, Names
<1>2. Live(R) = (Live(T) \ {d}) \union {r} /\ Members(R) = (Members(T) \ {d}) \union {r}
  BY RenamedLinks
<1>4. \A n \in Live(T) : /\ Par(T, n) \in Members(T)
                         /\ Par(T, n) = Sentinel => n = Root(T)
                         /\ Par(T, n) # Sentinel => Kid(T, Par(T, n), SideOf(T, n)) = n
                                                    /\ Par(T, n) \in Live(T)
                         /\ SideOf(T, n) \in Sides
                         /\ \A t \in Sides :
                              /\ Kid(T, n, t) \in Members(T)
                              /\ Kid(T, n, t) # Sentinel => Par(T, Kid(T, n, t)) = n
  BY OnlyParent DEF Shape, LinksOf
<1>5. \A n \in Members(T) : new_(n) \in Members(R) /\ (new_(n) = Sentinel <=> n = Sentinel)
  BY RenamedLinks DEF Become
<1>6. /\ \A n \in Live(T) : Par(R, new_(n)) = new_(Par(T, n))
      /\ \A n \in Live(T), t \in Sides : Kid(R, new_(n), t) = new_(Kid(T, n, t))
      /\ \A n \in Live(R) : \E l \in Live(T) : n = new_(l)
  BY RenamedLinks DEF Become
<1>7. Root(R) = new_(Root(T))
  BY DEF Renamed
<1>8. ASSUME NEW n \in Live(R) PROVE LinksOf(R, n)
  <2>1. PICK l \in Live(T) : n = new_(l)
    BY <1>6
  <2>2. Par(R, n) = new_(Par(T, l)) /\ \A t \in Sides : Kid(R, n, t) = new_(Kid(T, l, t))
    BY <1>6, <2>1
  <2>3. Par(R, n) \in Members(R) /\ (Par(R, n) = Sentinel => n = Root(R))
    BY <1>4, <1>5, <1>7, <2>1, <2>2
  <2>4. Par(R, n) # Sentinel => Kid(R, Par(R, n), SideOf(R, n)) = n
    <3>1. Par(R, n) # Sentinel => Kid(R, Par(R, n), SideOf(T, l)) = n /\ SideOf(T, l) \in Sides
      BY <1>4, <1>5, <1>6, <2>1, <2>2
    <3> QED BY <3>1, SideIs
  <2>5. ASSUME NEW t \in Sides
        PROVE  /\ Kid(R, n, t) \in Members(R)
               /\ Kid(R, n, t) # Sentinel => Par(R, Kid(R, n, t)) = n
    <3>1. Kid(R, n, t) \in Members(R)
      BY <1>4, <1>5, <2>1, <2>2
    <3>2. ASSUME Kid(R, n, t) # Sentinel PROVE Par(R, Kid(R, n, t)) = n
      <4>1. Kid(T, l, t) # Sentinel /\ Kid(T, l, t) \in Live(T) /\ Par(T, Kid(T, l, t)) = l
        BY <1>1, <1>4, <1>5, <2>1, <2>2, <3>2
      <4> QED BY <1>6, <2>1, <2>2, <4>1
    <3> QED BY <3>1, <3>2
  <2> QED BY <2>3, <2>4, <2>5 DEF LinksOf
<1>9. /\ v[r] = (u[d] \ {d}) \union {r}
      /\ \A n \in Members(T) : n # d => v[n] = IF d \in u[n] THEN (u[n] \ {d}) \union {r} ELSE u[n]
  BY <1>1
<1>10. \A n \in Nodes : u[n] \subseteq Live(T)
  BY DEF Shape
<1>11. v \in [Nodes -> SUBSET Live(R)]
  <2>1. \A n \in Nodes : IF n = d THEN {} \subseteq Live(R) ELSE IF n = r THEN (u[d] \ {d}) \union {r} \subseteq Live(R)
                         ELSE IF d \in u[n] THEN (u[n] \ {d}) \union {r} \subseteq Live(R)
                         ELSE u[n] \subseteq Live(R)
    BY <1>1, <1>2, <1>10
  <2> QED BY <2>1
<1> HIDE DEF v
<1>12. d \in u[d]
  BY Under
<1>13. \A n \in Members(T) : v[new_(n)] = IF d \in u[n] THEN (u[n] \ {d}) \union {r} ELSE u[n]
  BY <1>9, <1>12
<1>14. ASSUME NEW n \in Live(R) PROVE OrderOf(R, v, n)
  <2>1. PICK l \in Live(T) : n = new_(l)
    BY <1>6
  <2>2. \A t \in Sides : Kid(R, n, t) = new_(Kid(T, l, t)) /\ Kid(T, l, t) \in Members(T)
    BY <1>4, <1>6, <2>1
  <2> DEFINE sub(X) == IF d \in X THEN (X \ {d}) \union {r} ELSE X
             X1 == u[Kid(T, l, "left")]
             X2 == u[Kid(T, l, "right")]
  <2>3. v[n] = sub(u[l]) /\ \A t \in Sides : v[Kid(R, n, t)] = sub(u[Kid(T, l, t)])
    BY <1>13, <2>1, <2>2, LiveAre
  <2>4. OrderOf(T, u, l) /\ l \in Members(T)
    BY LiveAre DEF Shape
  <2>5. u[l] = {l} \union X1 \union X2
    BY <2>4 DEF OrderOf
  <2>6. sub({l} \union X1 \union X2) = {n} \union sub(X1) \union sub(X2)
    <3>1. l \notin X1 /\ l \notin X2
      BY <2>4, SidesAre DEF OrderOf
    <3> HIDE DEF X1, X2
    <3>2. CASE l = d
      BY <2>1, <3>1, <3>2
    <3>3. CASE l # d
      BY <2>1, <3>3
    <3> QED BY <3>2, <3>3
  <2>7. v[n] = {n} \union v[Kid(R, n, "left")] \union v[Kid(R, n, "right")]
    BY <2>3, <2>5, <2>6, SidesAre
  <2>8. ASSUME NEW t \in Sides, NEW m \in v[Kid(R, n, t)] PROVE m # n /\ Toward(m, n) = t
    <3>1. \A x \in u[Kid(T, l, t)] : x # l /\ Toward(x, l) = t /\ x \in u[l] /\ x \in Live(T)
      BY <2>8, Under
    <3>2. (m \in u[Kid(T, l, t)] /\ m # d) \/ (m = r /\ d \in u[Kid(T, l, t)])
      BY <2>3
    <3>3. CASE m = r /\ d \in u[Kid(T, l, t)]
      <4>1. d # l /\ Toward(d, l) = t /\ d \in u[l]
        BY <3>1, <3>3
      <4>2. n = l /\ l # r /\ Toward(r, l) = Toward(d, l)
        BY <2>1, <4>1 DEF Neighbors
      <4> QED BY <3>3, <4>1, <4>2
    <3>4. CASE m \in u[Kid(T, l, t)] /\ m # d
      <4>1. m # l /\ Toward(m, l) = t /\ m \in u[l] /\ m \in Live(T)
        BY <3>1, <3>4
      <4>2. CASE l = d
        BY <2>1, <3>4, <4>1, <4>2 DEF Neighbors
      <4>3. CASE l # d
        BY <2>1, <4>1, <4>3
      <4> QED BY <4>2, <4>3
    <3> QED BY <3>2, <3>3, <3>4
  <2> QED BY <2>7, <2>8 DEF OrderOf
<1>15. /\ Root(R) \in Members(R) /\ v[Root(R)] = Live(R)
       /\ Root(R) # Sentinel => Par(R, Root(R)) = Sentinel
  <2>1. Root(T) \in Members(T) /\ u[Root(T)] = Live(T)
        /\ (Root(T) # Sentinel => Par(T, Root(T)) = Sentinel)
    BY DEF Shape
  <2>2. v[Root(R)] = Live(R)
    BY <1>2, <1>7, <1>13, <2>1
  <2>3. Root(R) # Sentinel => Par(R, Root(R)) = new_(Sentinel)
    BY <1>1, <1>5, <1>6, <1>7, <2>1
  <2> QED BY <1>1, <1>5, <1>7, <2>1, <2>2, <2>3
<1>16. v[Sentinel] = {}
  BY <1>1, <1>9, LiveAre DEF Shape
<1>17. Shape(R, v)
  BY <1>8, <1>11, <1>14, <1>15, <1>16 DEF Shape, Renamed
<1> QED BY <1>2, <1>17

LEMMA RenamedBalance ==
    ASSUME NEW T, NEW u, Shape(T, u), NEW d \in Live(T), NEW r \in Keys, r \notin Live(T),
           NEW R, Renamed(T, R, d, r),
           NEW b, NEW p \in Members(T), NEW t, Balanced(T, b, p, t)
    PROVE  Balanced(R, [b EXCEPT ![r] = b[d]], Become(d, r, p), t)
<1> DEFINE e == [b EXCEPT ![r] = b[d]]
<1>1. /\ Live(R) = (Live(T) \ {d}) \union {r}
      /\ d # r /\ d # Sentinel /\ r # Sentinel
      /\ \A n \in Members(T) : /\ n \in Nodes /\ n # r
                               /\ Color(R, Become(d, r, n)) = Color(T, n)
      /\ \A n \in Live(T), s \in Sides : /\ Kid(T, n, s) \in Members(T)
                                         /\ Kid(R, Become(d, r, n), s) = Become(d, r, Kid(T, n, s))
      /\ \A n \in Live(R) : \E l \in Live(T) : n = Become(d, r, l)
  BY RenamedLinks
<1>2. /\ b \in [Nodes -> Nat] /\ b[Sentinel] = 0 /\ Color(T, Sentinel) = "black"
      /\ \A n \in Live(T), s \in Sides :
            b[n] = Black(T, n) + b[Kid(T, n, s)] + (IF n = p /\ s = t THEN 1 ELSE 0)
  BY DEF Balanced
<1>3. \A n \in Live(T) : n \in Members(T)
  BY LiveAre
<1>4. d \in Nodes /\ r \in Nodes /\ Sentinel \in Nodes /\ Sentinel \in Members(T)
  BY LiveAre, Names
<1>5. e \in [Nodes -> Nat] /\ \A n \in Nodes : n # r => e[n] = b[n]
  BY <1>2, <1>4
<1>6. e[r] = b[d]
  BY <1>2, <1>4
<1> HIDE DEF e
<1>7. \A n \in Members(T) : e[Become(d, r, n)] = b[n]
  BY <1>1, <1>5, <1>6 DEF Become
<1>8. ASSUME NEW n \in Live(R), NEW s \in Sides
      PROVE  e[n] = Black(R, n) + e[Kid(R, n, s)]
                    + (IF n = Become(d, r, p) /\ s = t THEN 1 ELSE 0)
  <2>1. PICK l \in Live(T) : n = Become(d, r, l)
    BY <1>1
  <2>2. l \in Members(T) /\ Kid(T, l, s) \in Members(T)
        /\ Kid(R, n, s) = Become(d, r, Kid(T, l, s))
    BY <1>1, <1>3, <2>1
  <2>3. e[n] = b[l] /\ e[Kid(R, n, s)] = b[Kid(T, l, s)]
    BY <1>7, <2>1, <2>2
  <2>4. Black(R, n) = Black(T, l)
    BY <1>1, <2>1, <2>2 DEF Black
  <2>5. n = Become(d, r, p) <=> l = p
    BY <1>1, <2>1, <2>2 DEF Become
  <2> QED BY <1>2, <2>3, <2>4, <2>5
<1>9. e[Sentinel] = 0 /\ Color(R, Sentinel) = "black"
  BY <1>1, <1>2, <1>4, <1>5 DEF Become
<1>10. Balanced(R, e, Become(d, r, p), t)
  BY <1>5, <1>8, <1>9 DEF Balanced
<1> QED BY <1>10 DEF e

LEMMA RenamedApart ==
    ASSUME NEW T, NEW u, Shape(T, u), NEW d \in Live(T), NEW r \in Keys, r \notin Live(T),
           NEW R, Renamed(T, R, d, r),
           NEW n \in Members(T), n # d, Apart(T, n, n)
    PROVE  Apart(R, n, n)
<1>1. /\ n # r
      /\ \A m \in Members(T) : m # r /\ Color(R, Become(d, r, m)) = Color(T, m)
      /\ \A m \in Live(T) : m \in Members(T) /\ Par(T, m) \in Members(T)
                            /\ Par(R, Become(d, r, m)) = Become(d, r, Par(T, m))
      /\ \A m \in Live(R) : \E l \in Live(T) : m = Become(d, r, l)
      /\ Root(R) = Become(d, r, Root(T)) /\ Root(T) \in Members(T)
  BY RenamedLinks, LiveAre DEF Shape
<1>2. ASSUME NEW m \in Live(R), Color(R, m) = "red", m # n
      PROVE  m # Root(R) /\ (Color(R, Par(R, m)) = "red" => Par(R, m) = n)
  <2>1. PICK l \in Live(T) : m = Become(d, r, l)
    BY <1>1
  <2>2. Color(T, l) = "red" /\ l # n
    BY <1>1, <1>2, <2>1 DEF Become
  <2>3. l # Root(T) /\ (Color(T, Par(T, l)) = "red" => Par(T, l) = n)
    BY <2>2 DEF Apart
  <2> QED BY <1>1, <2>1, <2>3 DEF Become
<1> QED BY <1>2 DEF Apart

LEMMA RenamedInOrder ==
    ASSUME NEW T, NEW u, Shape(T, u), NEW d \in Live(T), NEW r \in Keys, r \notin Live(T),
           NEW R, Renamed(T, R, d, r), NEW b, InOrder(T, b)
    PROVE  \E e : InOrder(R, e)
<1>1. Sentinel \in Members(T) /\ Sentinel # d
  BY LiveAre
<1>2. Balanced(T, b, Sentinel, "left") /\ Apart(T, Sentinel, Sentinel)
  BY DEF InOrder
<1>3. Balanced(R, [b EXCEPT ![r] = b[d]], Become(d, r, Sentinel), "left")
  BY <1>1, <1>2, RenamedBalance
<1>4. Apart(R, Sentinel, Sentinel)
  BY <1>1, <1>2, RenamedApart
<1> QED BY <1>1, <1>3, <1>4 DEF InOrder, Become

LEMMA RenamedDeleting ==
    ASSUME NEW T, NEW u, Shape(T, u), NEW d \in Live(T), NEW r \in Keys, r \notin Live(T),
           NEW R, Renamed(T, R, d, r), NEW b, NEW n, Deleting(T, b, n), n # d,
           n = Sentinel => Par(R, n) = Become(d, r, Par(T, n))
    PROVE  \E e : Deleting(R, e, n)
<1> DEFINE e == [b EXCEPT ![r] = b[d]]
           p == Par(T, n)
           h == SideOf(T, n)
<1>1. n \in Members(T) /\ Apart(T, n, n) /\ Sentinel \in Members(T) /\ Sentinel # d
  BY LiveAre DEF Deleting
<1>2. /\ Live(R) = (Live(T) \ {d}) \union {r} /\ Members(R) = (Members(T) \ {d}) \union {r}
      /\ d # r /\ n # r /\ (n = Sentinel \/ n \in Live(T))
      /\ \A m \in Live(T) :
            /\ Par(R, Become(d, r, m)) = Become(d, r, Par(T, m))
            /\ \A t \in Sides : /\ Kid(T, m, t) \in Members(T) /\ Kid(T, m, t) # r
                                /\ Kid(R, Become(d, r, m), t) = Become(d, r, Kid(T, m, t))
      /\ Root(R) = Become(d, r, Root(T))
  BY <1>1, RenamedLinks
<1>3. n \in Members(R) /\ Apart(R, n, n)
  BY <1>1, <1>2, RenamedApart
<1>4. n = Root(R) <=> n = Root(T)
  BY <1>2 DEF Become
<1>5. CASE n = Root(T)
  <2>1. Balanced(T, b, Sentinel, "left")
    BY <1>5 DEF Deleting
  <2>2. Balanced(R, e, Become(d, r, Sentinel), "left")
    BY <1>1, <2>1, RenamedBalance
  <2>3. Balanced(R, e, Sentinel, "left")
    BY <1>1, <2>2 DEF Become
  <2> QED BY <1>3, <1>4, <1>5, <2>3 DEF Deleting
<1>6. CASE n # Root(T)
  <2>1. p \in Live(T) /\ Kid(T, p, h) = n /\ Balanced(T, b, p, h) /\ h \in Sides
    BY <1>6, SideIs DEF Deleting
  <2>2. p \in Members(T)
    BY <2>1, LiveAre
  <2>3. Balanced(R, e, Become(d, r, p), h)
    BY <2>1, <2>2, RenamedBalance
  <2>4. Par(R, n) = Become(d, r, p) /\ Become(d, r, p) \in Live(R)
    BY <1>2, <2>1 DEF Become
  <2>5. /\ Kid(R, Par(R, n), h) = n
        /\ Kid(R, Par(R, n), "left") = n <=> Kid(T, p, "left") = n
    BY <1>2, <2>1, <2>4, SidesAre DEF Become
  <2>6. SideOf(R, n) = h
    BY <2>5 DEF SideOf, Kid, Par
  <2> HIDE DEF p, h, e
  <2> QED BY <1>3, <1>4, <1>6, <2>3, <2>4, <2>5, <2>6 DEF Deleting
<1> QED BY <1>5, <1>6

-----------------------------------------------------------------------------
(***************************************************************************)
(* Delete puts the successor in the place of a node with two children      *)
(***************************************************************************)
\* r is the leftmost node to the right of d.
Succeeds(T, u, d, r) ==
    /\ \A s \in Sides : Kid(T, d, s) # Sentinel
    /\ Ends(T, u, Kid(T, d, "right"), [m \in Nodes |-> "left"], r)

LEMMA SuccessorIs ==
    ASSUME NEW T, NEW u, Shape(T, u), NEW d \in Live(T), NEW r, Succeeds(T, u, d, r)
    PROVE  LET l == Kid(T, d, "left")
               g == Kid(T, d, "right")
               q == Par(T, r)
               fix == Kid(T, r, "right")
           IN  /\ l \in Live(T) /\ g \in Live(T) /\ l # g /\ l # d /\ g # d
               /\ r \in Live(T) /\ r \in u[d] /\ r # d /\ r # l /\ Kid(T, r, "left") = Sentinel
               /\ r \in u[g]
               /\ q \in Live(T) /\ q \in u[d] /\ q # r
               /\ Kid(T, q, SideOf(T, r)) = r /\ SideOf(T, r) \in Sides
               /\ q = d <=> r = g
               /\ q = d => SideOf(T, r) = "right"
               /\ fix \in Members(T) /\ fix # d /\ fix # r /\ fix # l /\ fix # g
               /\ Par(T, d) \in Members(T) /\ Par(T, d) # q /\ Par(T, d) # r /\ Par(T, d) # d
<1> DEFINE l == Kid(T, d, "left")
           g == Kid(T, d, "right")
           q == Par(T, r)
           fix == Kid(T, r, "right")
           z == Par(T, d)
<1>1. /\ l # Sentinel /\ g # Sentinel /\ r \in u[g] /\ Kid(T, r, "left") = Sentinel
  <2>1. Ends(T, u, g, [m \in Nodes |-> "left"], r) /\ l # Sentinel /\ g # Sentinel
    BY SidesAre DEF Succeeds
  <2>2. r \in u[g] /\ Kid(T, r, [m \in Nodes |-> "left"][r]) = Sentinel
    BY <2>1 DEF Ends
  <2>3. r \in Nodes
    <3>1. g \in Live(T)
      BY <2>1, Under, SidesAre
    <3>2. r \in Live(T)
      BY <2>2, <3>1, Under
    <3> QED BY <3>2, LiveAre, Names
  <2> QED BY <2>1, <2>2, <2>3
<1>2. /\ l \in Live(T) /\ g \in Live(T) /\ l # d /\ g # d /\ l # g
      /\ l \in u[l] /\ u[g] \subseteq u[d] /\ d \notin u[g]
      /\ \A m \in u[g] : m \in Live(T) /\ m \notin u[l]
  <2>1. Other("right") = "left" /\ Other("left") = "right"
    BY DEF Other
  <2> QED BY <1>1, <2>1, Under, Family, SidesAre
<1>3. r \in Live(T) /\ r \in u[d] /\ r # d /\ r # l
  BY <1>1, <1>2
<1>4. q \in u[d] /\ q \in Live(T) /\ q # r
  BY <1>3, Nested, Under, OnlyParent
<1>5. q # Sentinel /\ Kid(T, q, SideOf(T, r)) = r /\ SideOf(T, r) \in Sides
  BY <1>3, <1>4, OnlyParent, LiveAre
<1>6. r # g => q # d
  <2>1. r # g => q \in u[g]
    BY <1>1, <1>2, Nested
  <2> QED BY <1>2, <2>1
<1>7. r = g => q = d /\ SideOf(T, r) = "right"
  BY <1>1, SideOfChild, SidesAre
<1>8. /\ fix \in Members(T)
      /\ fix # Sentinel => fix \in Live(T) /\ Par(T, fix) = r
  BY <1>3, SideOfChild, Under, SidesAre
<1>9. Par(T, l) = d /\ Par(T, g) = d /\ l # Sentinel /\ g # Sentinel /\ d # Sentinel
  BY <1>1, SideOfChild, SidesAre, LiveAre
<1>10. fix # r /\ fix # d
  <2>1. fix # Sentinel => Par(T, r) # fix /\ r # fix
    BY <1>3, Family, SidesAre
  <2>2. r # Sentinel
    BY <1>3, LiveAre
  <2>3. ASSUME fix = d PROVE FALSE
    <3>1. Par(T, d) = r /\ Kid(T, r, "right") = d
      BY <1>8, <1>9, <2>3
    <3>2. u[d] \subseteq u[Kid(T, r, "right")] /\ r \notin u[Kid(T, r, "right")]
      BY <1>3, <3>1, Under, SidesAre
    <3> QED BY <1>3, <3>2
  <2> QED BY <2>1, <2>2, <2>3
<1>11. fix # l /\ fix # g
  BY <1>3, <1>8, <1>9
<1>12. /\ z \in Members(T) /\ z # d
       /\ z \notin u[d]
  <2>1. z \in Members(T) /\ z # d
    BY OnlyParent DEF Shape, LinksOf
  <2>2. CASE z = Sentinel
    BY <2>2, Under, LiveAre
  <2>3. CASE z # Sentinel
    <3>1. z \in Live(T) /\ Kid(T, z, SideOf(T, d)) = d /\ SideOf(T, d) \in Sides
      BY <2>3, OnlyParent
    <3> QED BY <2>1, <3>1, Under
  <2> QED BY <2>1, <2>2, <2>3
<1> HIDE DEF l, g, q, fix, z
<1>13. z # q /\ z # r
  BY <1>3, <1>4, <1>12
<1> QED BY <1>1, <1>2, <1>3, <1>4, <1>5, <1>6, <1>7, <1>8, <1>10, <1>11, <1>12, <1>13 DEF l, g, q, fix, z

\* A walk down to one side ends at the last node of that side.
LEMMA EndIsOutermost ==
    ASSUME NEW T, NEW u, Shape(T, u), NEW g \in Live(T), NEW s \in Sides, NEW r,
           NEW way, \A m \in Nodes : way[m] = s, Ends(T, u, g, way, r)
    PROVE  \A m \in u[g] : m # r => Toward(m, r) = Other(s)
<1>1. /\ r \in u[g] /\ r \in Live(T) /\ r \in Nodes /\ r \in Keys
      /\ Kid(T, r, s) = Sentinel
      /\ \A k \in u[g], t \in Sides : r \in u[Kid(T, k, t)] => t = s
  <2>1. r \in u[g] /\ r \in Live(T) /\ r \in Nodes /\ r \in Keys
    BY Under, LiveAre, Names DEF Ends
  <2>2. \A k \in u[g] : k \in Nodes
    BY Under, LiveAre, Names
  <2> QED BY <2>1, <2>2 DEF Ends
<1> DEFINE B == {k \in u[g] : r \in u[k] /\ \E m \in u[k] : m # r /\ Toward(m, r) # Other(s)}
<1>2. ASSUME NEW k \in B, \A t \in Sides : Kid(T, k, t) \notin B PROVE FALSE
  <2>1. k \in u[g] /\ k \in Live(T) /\ k \in Keys /\ r \in u[k]
    BY Under, LiveAre
  <2>2. PICK m \in u[k] : m # r /\ Toward(m, r) # Other(s)
    OBVIOUS
  <2>3. m \in Live(T) /\ m \in Keys /\ Toward(m, r) \in Sides
    BY <1>1, <2>1, <2>2, Under, LiveAre, TowardIs
  <2>4. Toward(m, r) = s
    BY <2>2, <2>3, SidesAre
  <2>5. CASE k = r
    <3>1. m \in u[Kid(T, r, s)]
      BY <1>1, <2>2, <2>4, <2>5, Under
    <3> QED BY <1>1, <3>1, Under, SidesAre
  <2>6. CASE k # r
    <3>1. r \in u[Kid(T, k, Toward(r, k))] /\ Toward(r, k) \in Sides
      BY <1>1, <2>1, <2>6, Under, TowardIs
    <3>2. Toward(r, k) = s /\ r \in u[Kid(T, k, s)]
      BY <1>1, <2>1, <3>1
    <3>3. Toward(k, r) = Other(s)
      BY <1>1, <2>1, <2>6, <3>2, TowardIs
    <3>4. m # k
      BY <2>2, <3>3
    <3>5. CASE Toward(m, k) = s
      <4>1. m \in u[Kid(T, k, s)]
        BY <2>1, <2>2, <3>4, <3>5, Under
      <4>2. Kid(T, k, s) # Sentinel
        BY <2>1, <3>2, Under, SidesAre
      <4>3. Kid(T, k, s) \in u[k]
        BY <2>1, <4>2, Under, SidesAre
      <4>4. u[k] \subseteq u[g]
        BY <2>1, Nested
      <4>5. Kid(T, k, s) \in B
        BY <2>2, <3>2, <4>1, <4>3, <4>4
      <4> QED BY <1>2, <4>5, SidesAre
    <3>6. CASE Toward(m, k) # s
      <4>1. Toward(m, k) = Other(s)
        BY <2>1, <2>3, <3>6, TowardIs, SidesAre
      <4>2. Toward(m, r) = Other(s)
        BY <1>1, <2>1, <2>3, <2>6, <3>3, <3>4, <4>1, TowardTransitive, SidesAre
      <4> QED BY <2>2, <4>2
    <3> QED BY <3>5, <3>6
  <2> QED BY <2>5, <2>6
<1>3. B = {}
  <2>1. B \in SUBSET Live(T)
    BY Under
  <2> HIDE DEF B
  <2> QED BY <1>2, <2>1, Lowest
<1>4. g \in u[g]
  BY Under
<1> QED BY <1>1, <1>3, <1>4

LEMMA SuccessorIsNeighbor ==
    ASSUME NEW T, NEW u, Shape(T, u), NEW d \in Live(T), NEW r, Succeeds(T, u, d, r),
           NEW U, Live(U) = Live(T) \ {r}
    PROVE  Neighbors(U, [n \in Nodes |-> u[n] \ {r}], d, r)
<1> DEFINE l == Kid(T, d, "left")
           g == Kid(T, d, "right")
           v == [n \in Nodes |-> u[n] \ {r}]
<1>1. /\ r \in Live(T) /\ r \in u[d] /\ r # d /\ r \in u[g] /\ g \in Live(T) /\ g \in u[g]
      /\ r \in Keys /\ d \in Keys
  BY SuccessorIs, Under, LiveAre
<1>2. \A m \in u[g] : m # r => Toward(m, r) = "right"
  <2> DEFINE way == [m \in Nodes |-> "left"]
  <2>1. Ends(T, u, g, way, r) /\ \A m \in Nodes : way[m] = "left"
    BY DEF Succeeds
  <2> HIDE DEF g, way
  <2>2. \A m \in u[g] : m # r => Toward(m, r) = Other("left")
    BY <1>1, <2>1, EndIsOutermost, SidesAre
  <2> QED BY <2>2 DEF Other
<1>3. ASSUME NEW n \in Live(U), n # d
      PROVE  /\ n # r
             /\ d \in v[n] => Toward(r, n) = Toward(d, n)
             /\ n \in v[d] => Toward(n, r) = Toward(n, d)
  <2>1. n \in Live(T) /\ n # r /\ n \in Keys /\ v[n] = u[n] \ {r} /\ v[d] = u[d] \ {r}
    BY LiveAre, Names
  <2>2. ASSUME d \in u[n] PROVE Toward(r, n) = Toward(d, n)
    <3> DEFINE c == Kid(T, n, Toward(d, n))
    <3>1. d \in u[c] /\ Toward(d, n) \in Sides
      BY <1>1, <1>3, <2>1, <2>2, Under, TowardIs
    <3>2. c \in Live(T)
      BY <2>1, <3>1, Under
    <3>3. r \in u[c]
      BY <1>1, <3>1, <3>2, Nested
    <3> QED BY <2>1, <3>1, <3>3, Under
  <2>3. ASSUME n \in u[d] PROVE Toward(n, r) = Toward(n, d)
    <3>1. n \in u[Kid(T, d, Toward(n, d))] /\ Toward(n, d) \in Sides
      BY <1>1, <1>3, <2>1, <2>3, Under, TowardIs
    <3>2. CASE Toward(n, d) = "right"
      BY <1>2, <2>1, <3>1, <3>2
    <3>3. CASE Toward(n, d) = "left"
      <4>1. Toward(r, d) = "right"
        BY <1>1, Under, SidesAre
      <4>2. Toward(d, r) = "left"
        BY <1>1, <4>1, TowardIs DEF Other
      <4> QED BY <1>1, <1>3, <2>1, <3>3, <4>2, TowardTransitive, SidesAre
    <3> QED BY <3>1, <3>2, <3>3, SidesAre
  <2> QED BY <2>1, <2>2, <2>3
<1> HIDE DEF v
<1>4. Neighbors(U, v, d, r)
  BY <1>3 DEF Neighbors
<1> QED BY <1>4 DEF v

\* The assignments of Succeed, one after the other, amount to taking r out first and
\* giving it the place of d then.
LEMMA SucceedIs ==
    ASSUME NEW u, Shape(tree, u), NEW d \in Live(tree), NEW r, Succeeds(tree, u, d, r),
           NEW U, Spliced(tree, U, r, Kid(tree, r, "right"))
    PROVE  LET fix == Kid(tree, r, "right")
               R == Forget(Succeed(d, r), d)
           IN  /\ Renamed(U, R, d, r)
               /\ Par(U, fix) = Par(tree, r)
               /\ fix = Sentinel => Par(R, fix) = Become(d, r, Par(U, fix))
<1> DEFINE l == Kid(tree, d, "left")
           g == Kid(tree, d, "right")
           q == Par(tree, r)
           fix == Kid(tree, r, "right")
           z == Par(tree, d)
           h == SideOf(tree, r)
           e == SideOf(tree, d)
           out == TransPlant(tree, r, fix)
           hung == SetKid(out, r, "right", g)
           freed == IF q = d THEN SetPar(tree, fix, r) ELSE SetPar(hung, g, r)
           moved == TransPlant(freed, d, r)
           joined == SetKid(moved, r, "left", Kid(moved, d, "left"))
           child == SetPar(joined, Kid(moved, d, "left"), r)
           all == SetColor(child, r, Color(moved, d))
           R == Forget(all, d)
<1>1. Forget(Succeed(d, r), d) = R
  BY DEF Succeed, Par, Kid, Color, SetPar, SetKid, SetColor
<1>2. /\ l \in Live(tree) /\ g \in Live(tree) /\ l # g /\ l # d /\ g # d
      /\ r \in Live(tree) /\ r # d /\ r # l /\ Kid(tree, r, "left") = Sentinel
      /\ q \in Live(tree) /\ q # r
      /\ Kid(tree, q, h) = r /\ h \in Sides
      /\ q = d <=> r = g
      /\ q = d => h = "right"
      /\ fix \in Members(tree) /\ fix # d /\ fix # r /\ fix # l /\ fix # g
      /\ z \in Members(tree) /\ z # q /\ z # r /\ z # d
  BY SuccessorIs
<1>3. /\ tree \in Trees /\ \A t \in Sides : Kid(tree, Sentinel, t) = Sentinel
      /\ Par(tree, Sentinel) \in Nodes
      /\ Root(tree) = d <=> z = Sentinel
  BY OnlyParent, LiveAre DEF Shape
<1>4. Par(tree, l) = d /\ Par(tree, g) = d
  BY <1>2, SideOfChild, LiveAre, SidesAre
<1>5. \A n \in Live(tree) : Par(tree, n) = d => n = l \/ n = g
  <2>1. ASSUME NEW n \in Live(tree), Par(tree, n) = d PROVE n = l \/ n = g
    <3>1. Kid(tree, d, SideOf(tree, n)) = n /\ SideOf(tree, n) \in Sides
      BY <2>1, OnlyParent, LiveAre
    <3> QED BY <3>1, SidesAre
  <2> QED BY <2>1
<1>6. /\ e \in Sides
      /\ z # Sentinel => z \in Live(tree) /\ Kid(tree, z, e) = d
      /\ \A n \in Live(tree), t \in Sides : Kid(tree, n, t) = d => n = z /\ t = e
  BY OnlyParent
<1>7. /\ \A n \in Live(tree) : n \in Keys /\ n \in Nodes /\ n # Sentinel
      /\ \A n \in Members(tree) : n \in Nodes /\ n # Null /\ (n = Sentinel \/ n \in Live(tree))
      /\ Nodes \subseteq Pointers /\ Null \in Pointers /\ Sentinel \in Nodes /\ Null \notin Nodes
      /\ \A n \in Keys : n \in Nodes /\ (n \in Live(tree) <=> Par(tree, n) # Null)
      /\ Sentinel \notin Live(tree)
  BY LiveAre, Names DEF Pointers
<1>8. /\ \A t \in Sides : t = "left" \/ t = "right"
      /\ "left" \in Sides /\ "right" \in Sides /\ "left" # "right"
  BY SidesAre
<1>9. Spliced(tree, U, r, fix)
  OBVIOUS
<1> HIDE DEF l, g, q, fix, z, h
<1>10. /\ Root(U) = Root(tree)
       /\ \A n \in Nodes :
             /\ Par(U, n) = IF n = r THEN Null ELSE IF n = fix THEN q ELSE Par(tree, n)
             /\ Color(U, n) = IF n = r THEN "black" ELSE Color(tree, n)
             /\ \A t \in Sides :
                   Kid(U, n, t) = IF n = r THEN Null
                                  ELSE IF n = q /\ t = h THEN fix ELSE Kid(tree, n, t)
  BY <1>2, <1>7, <1>9 DEF Spliced, q, h
<1>11. /\ out \in Trees /\ Root(out) = Root(tree)
       /\ \A n \in Nodes :
             /\ Par(out, n) = IF n = fix THEN q ELSE Par(tree, n)
             /\ Color(out, n) = Color(tree, n)
             /\ \A t \in Sides : Kid(out, n, t) = IF n = q /\ t = h THEN fix ELSE Kid(tree, n, t)
  <2>1. r \in Keys /\ fix \in Nodes /\ Par(tree, r) \in Nodes
    BY <1>2, <1>7 DEF q
  <2>2. /\ out \in Trees
        /\ Root(out) = IF Par(tree, r) = Sentinel THEN fix ELSE Root(tree)
        /\ \A n \in Nodes :
              /\ Par(out, n) = IF n = fix THEN Par(tree, r) ELSE Par(tree, n)
              /\ Color(out, n) = Color(tree, n)
              /\ \A t \in Sides :
                    Kid(out, n, t) = IF n = Par(tree, r) /\ Par(tree, r) # Sentinel
                                        /\ t = SideOf(tree, r) THEN fix
                                     ELSE Kid(tree, n, t)
    BY <1>3, <2>1, TransPlantIs
  <2> HIDE DEF out
  <2> QED BY <1>2, <1>7, <2>2 DEF q, h
<1> HIDE DEF out
<1>12. /\ hung \in Trees /\ Root(hung) = Root(tree)
       /\ \A n \in Nodes :
             /\ Par(hung, n) = Par(out, n) /\ Color(hung, n) = Color(tree, n)
             /\ \A t \in Sides : Kid(hung, n, t) = IF n = r /\ t = "right" THEN g ELSE Kid(out, n, t)
  <2>1. r \in Nodes /\ g \in Pointers
    BY <1>2, <1>7
  <2> QED BY <1>8, <1>11, <2>1, WriteKid
<1> HIDE DEF hung
<1>13. /\ freed \in Trees /\ Root(freed) = Root(tree)
       /\ \A n \in Nodes :
             /\ Par(freed, n) = IF q = d THEN (IF n = fix THEN r ELSE Par(tree, n))
                                ELSE IF n = g THEN r ELSE IF n = fix THEN q ELSE Par(tree, n)
             /\ Color(freed, n) = Color(tree, n)
             /\ \A t \in Sides :
                   Kid(freed, n, t) = IF q = d THEN Kid(tree, n, t)
                                      ELSE IF n = r /\ t = "right" THEN g
                                      ELSE IF n = q /\ t = h THEN fix ELSE Kid(tree, n, t)
  <2>0. fix \in Nodes /\ g \in Nodes /\ r \in Pointers
    BY <1>2, <1>7
  <2>1. CASE q = d
    BY <1>3, <2>0, <2>1, WritePar
  <2>2. CASE q # d
    <3>1. /\ SetPar(hung, g, r) \in Trees /\ Root(SetPar(hung, g, r)) = Root(hung)
          /\ \A m \in Nodes :
                /\ Par(SetPar(hung, g, r), m) = IF m = g THEN r ELSE Par(hung, m)
                /\ Color(SetPar(hung, g, r), m) = Color(hung, m)
                /\ \A t \in Sides : Kid(SetPar(hung, g, r), m, t) = Kid(hung, m, t)
      BY <1>12, <2>0, WritePar
    <3>2. freed = SetPar(hung, g, r)
      BY <2>2
    <3> HIDE DEF freed
    <3> QED BY <1>11, <1>12, <2>2, <3>1, <3>2
  <2> QED BY <2>1, <2>2
<1> HIDE DEF freed
<1>14. Par(freed, d) = z /\ (z # Sentinel => SideOf(freed, d) = e)
  <2>1. Par(freed, d) = z
    BY <1>2, <1>7, <1>13 DEF z
  <2>2. z # Sentinel => Kid(freed, z, "left") = Kid(tree, z, "left")
    BY <1>2, <1>7, <1>8, <1>13
  <2> QED BY <2>1, <2>2 DEF SideOf, Kid, Par, z
<1> HIDE DEF e
<1>15. /\ moved \in Trees /\ Root(moved) = IF z = Sentinel THEN r ELSE Root(tree)
       /\ \A n \in Nodes :
             /\ Par(moved, n) = IF n = r THEN z ELSE Par(freed, n)
             /\ Color(moved, n) = Color(tree, n)
             /\ \A t \in Sides :
                   Kid(moved, n, t) = IF n = z /\ z # Sentinel /\ t = e THEN r ELSE Kid(freed, n, t)
  <2>1. d \in Keys /\ r \in Nodes /\ z \in Nodes
    BY <1>2, <1>7
  <2>2. /\ moved \in Trees
        /\ Root(moved) = IF Par(freed, d) = Sentinel THEN r ELSE Root(freed)
        /\ \A n \in Nodes :
              /\ Par(moved, n) = IF n = r THEN Par(freed, d) ELSE Par(freed, n)
              /\ Color(moved, n) = Color(freed, n)
              /\ \A t \in Sides :
                    Kid(moved, n, t) = IF n = Par(freed, d) /\ Par(freed, d) # Sentinel
                                          /\ t = SideOf(freed, d) THEN r
                                       ELSE Kid(freed, n, t)
    BY <1>13, <1>14, <2>1, TransPlantIs
  <2> HIDE DEF moved
  <2> QED BY <1>13, <1>14, <2>2
<1> HIDE DEF moved
<1>16. Kid(moved, d, "left") = l /\ Color(moved, d) = Color(tree, d)
  BY <1>2, <1>7, <1>8, <1>13, <1>15 DEF l
<1>17. /\ joined \in Trees /\ Root(joined) = Root(moved)
       /\ \A n \in Nodes :
             /\ Par(joined, n) = Par(moved, n) /\ Color(joined, n) = Color(moved, n)
             /\ \A t \in Sides :
                   Kid(joined, n, t) = IF n = r /\ t = "left" THEN l ELSE Kid(moved, n, t)
  <2>1. r \in Nodes /\ l \in Pointers
    BY <1>2, <1>7
  <2>2. joined = SetKid(moved, r, "left", l)
    BY <1>16
  <2> HIDE DEF joined
  <2> QED BY <1>8, <1>15, <2>1, <2>2, WriteKid
<1> HIDE DEF joined
<1>18. /\ child \in Trees /\ Root(child) = Root(moved)
       /\ \A n \in Nodes :
             /\ Par(child, n) = IF n = l THEN r ELSE Par(moved, n)
             /\ Color(child, n) = Color(moved, n)
             /\ \A t \in Sides : Kid(child, n, t) = Kid(joined, n, t)
  <2>1. l \in Nodes /\ r \in Pointers
    BY <1>2, <1>7
  <2>2. child = SetPar(joined, l, r)
    BY <1>16
  <2> HIDE DEF child
  <2>3. /\ SetPar(joined, l, r) \in Trees /\ Root(SetPar(joined, l, r)) = Root(joined)
        /\ \A m \in Nodes :
              /\ Par(SetPar(joined, l, r), m) = IF m = l THEN r ELSE Par(joined, m)
              /\ Color(SetPar(joined, l, r), m) = Color(joined, m)
              /\ \A t \in Sides : Kid(SetPar(joined, l, r), m, t) = Kid(joined, m, t)
    BY <1>17, <2>1, WritePar
  <2> QED BY <1>17, <2>2, <2>3
<1> HIDE DEF child
<1>19. /\ all \in Trees /\ Root(all) = Root(moved)
       /\ \A n \in Nodes :
             /\ Par(all, n) = Par(child, n)
             /\ Color(all, n) = IF n = r THEN Color(tree, d) ELSE Color(child, n)
             /\ \A t \in Sides : Kid(all, n, t) = Kid(child, n, t)
  <2>1. r \in Nodes /\ Color(tree, d) \in {"red", "black"}
    BY <1>2, <1>3, <1>7, TreeParts
  <2>2. all = SetColor(child, r, Color(tree, d))
    BY <1>16
  <2> HIDE DEF all
  <2> QED BY <1>18, <2>1, <2>2, WriteColor
<1> HIDE DEF all
<1>20. /\ R \in Trees /\ Root(R) = Root(all)
       /\ \A n \in Nodes :
             /\ Par(R, n) = IF n = d THEN Null ELSE Par(all, n)
             /\ Color(R, n) = IF n = d THEN "black" ELSE Color(all, n)
             /\ \A t \in Sides : Kid(R, n, t) = IF n = d THEN Null ELSE Kid(all, n, t)
  <2>1. d \in Keys
    BY <1>7
  <2> QED BY <1>19, <2>1, ForgetIs
<1> HIDE DEF R
<1>21. /\ Root(R) = IF z = Sentinel THEN r ELSE Root(tree)
       /\ \A n \in Nodes :
             /\ Par(R, n) = IF n = d THEN Null ELSE IF n = l THEN r ELSE IF n = r THEN z
                            ELSE Par(freed, n)
             /\ Color(R, n) = IF n = d THEN "black" ELSE IF n = r THEN Color(tree, d)
                              ELSE Color(tree, n)
             /\ \A t \in Sides :
                   Kid(R, n, t) = IF n = d THEN Null
                                  ELSE IF n = r /\ t = "left" THEN l
                                  ELSE IF n = z /\ z # Sentinel /\ t = e THEN r
                                  ELSE Kid(freed, n, t)
  BY <1>15, <1>17, <1>18, <1>19, <1>20
<1>22. d \in Nodes /\ r \in Nodes /\ l \in Nodes /\ g \in Nodes /\ q \in Nodes /\ z \in Nodes
       /\ fix \in Nodes
  BY <1>2, <1>7
<1>23. Live(U) = Live(tree) \ {r}
  <2>1. ASSUME NEW n \in Keys PROVE Par(U, n) # Null <=> Par(tree, n) # Null /\ n # r
    <3>1. q # Null /\ (n = fix => n \in Live(tree))
      BY <1>2, <1>7, Names
    <3> QED BY <1>7, <1>10, <3>1
  <2> QED BY <2>1 DEF Live, Par
<1>24. Root(R) = IF Root(U) = d THEN r ELSE Root(U)
  BY <1>3, <1>10, <1>21
<1>25. Par(R, d) = Null /\ Par(R, r) = Par(U, d) /\ Par(R, Sentinel) \in Nodes
  <2>1. Par(R, d) = Null /\ Par(R, r) = Par(U, d)
    BY <1>2, <1>10, <1>21, <1>22 DEF z
  <2>2. Sentinel # d /\ Sentinel # l /\ Sentinel # r /\ Sentinel # g
    BY <1>2, <1>7
  <2>3. Par(R, Sentinel) = Par(freed, Sentinel)
    BY <1>7, <1>21, <2>2
  <2>4. Par(freed, Sentinel) \in {r, q, Par(tree, Sentinel)}
    BY <1>7, <1>13
  <2> QED BY <1>3, <1>22, <2>1, <2>3, <2>4
<1>26. ASSUME NEW n \in Live(U), n # d
       PROVE  Par(R, n) = IF Par(U, n) = d THEN r ELSE Par(U, n)
  <2>1. n \in Live(tree) /\ n # r /\ n \in Nodes
    BY <1>7, <1>23
  <2>2. Par(R, n) = IF n = l THEN r ELSE Par(freed, n)
    BY <1>21, <1>26, <2>1
  <2>3. Par(U, n) = IF n = fix THEN q ELSE Par(tree, n)
    BY <1>10, <2>1
  <2>4. CASE n = l
    BY <1>2, <1>4, <2>2, <2>3, <2>4
  <2>5. CASE n = g
    <3>1. q # d /\ Par(freed, n) = r
      BY <1>2, <1>13, <1>22, <2>1, <2>5
    <3> QED BY <1>2, <1>4, <2>2, <2>3, <2>5, <3>1
  <2>6. CASE n = fix
    <3>1. Par(freed, n) = IF q = d THEN r ELSE q
      BY <1>2, <1>13, <1>22, <2>6
    <3> QED BY <1>2, <2>2, <2>3, <2>6, <3>1
  <2>7. CASE n # l /\ n # g /\ n # fix
    <3>1. Par(freed, n) = Par(tree, n) /\ Par(tree, n) # d
      BY <1>5, <1>13, <2>1, <2>7
    <3> QED BY <2>2, <2>3, <2>7, <3>1
  <2> QED BY <2>4, <2>5, <2>6, <2>7
<1>27. ASSUME NEW n \in Keys, n \notin Live(U), n # r PROVE Par(R, n) = Null
  <2>1. n \notin Live(tree) /\ n \in Nodes /\ Par(tree, n) = Null /\ n # Sentinel
    BY <1>7, <1>23, <1>27, Names
  <2>2. n # l /\ n # g /\ n # fix /\ n # d
    BY <1>2, <1>7, <2>1
  <2> QED BY <1>13, <1>21, <1>27, <2>1, <2>2
<1>28. ASSUME NEW t \in Sides PROVE Kid(R, r, t) = Kid(U, d, t) /\ Kid(R, Sentinel, t) = Sentinel
  <2>1. Kid(R, Sentinel, t) = Sentinel
    <3>1. Sentinel # d /\ Sentinel # r /\ Sentinel # q
      BY <1>2, <1>7
    <3> QED BY <1>3, <1>7, <1>13, <1>21, <3>1
  <2>2. Kid(U, d, t) = IF d = q /\ t = h THEN fix ELSE Kid(tree, d, t)
    BY <1>2, <1>10, <1>22
  <2>3. Kid(tree, d, "left") = l /\ Kid(tree, d, "right") = g /\ Kid(tree, r, "right") = fix
    BY DEF l, g, fix
  <2>4. Kid(R, r, t) = IF t = "left" THEN l ELSE Kid(freed, r, t)
    BY <1>2, <1>21, <1>22
  <2>5. Kid(freed, r, "right") = IF q = d THEN fix ELSE g
    BY <1>2, <1>8, <1>13, <1>22, <2>3
  <2>6. CASE t = "left"
    BY <1>2, <1>8, <2>1, <2>2, <2>3, <2>4, <2>6
  <2>7. CASE t = "right"
    BY <1>2, <1>8, <2>1, <2>2, <2>3, <2>4, <2>5, <2>7
  <2> QED BY <1>8, <2>1, <2>6, <2>7
<1>29. ASSUME NEW n \in Live(U), NEW t \in Sides, n # d
       PROVE  Kid(R, n, t) = IF Kid(U, n, t) = d THEN r ELSE Kid(U, n, t)
  <2>1. n \in Live(tree) /\ n # r /\ n \in Nodes /\ n # Sentinel
    BY <1>7, <1>23
  <2>2. Kid(R, n, t) = IF n = z /\ t = e THEN r ELSE Kid(freed, n, t)
    BY <1>21, <1>29, <2>1
  <2>3. Kid(U, n, t) = IF n = q /\ t = h THEN fix ELSE Kid(tree, n, t)
    BY <1>10, <2>1
  <2>4. Kid(freed, n, t) = IF n = q /\ t = h THEN fix ELSE Kid(tree, n, t)
    BY <1>13, <1>29, <2>1
  <2>5. Kid(tree, n, t) = d <=> n = z /\ t = e
    BY <1>6, <2>1
  <2> QED BY <1>2, <2>2, <2>3, <2>4, <2>5
<1>30. /\ Color(R, r) = Color(U, d)
       /\ \A n \in Members(U) : n # d => Color(R, n) = Color(U, n)
  <2>1. Color(R, r) = Color(U, d)
    BY <1>2, <1>10, <1>21, <1>22
  <2>2. \A n \in Members(U) : n \in Nodes /\ n # r
    BY <1>2, <1>7, <1>23, LiveAre
  <2> QED BY <1>10, <1>21, <2>1, <2>2
<1>31. Renamed(U, R, d, r)
  BY <1>20, <1>24, <1>25, <1>26, <1>27, <1>28, <1>29, <1>30 DEF Renamed
<1>32. Par(U, fix) = q
  BY <1>2, <1>10, <1>22
<1>33. fix = Sentinel => Par(R, fix) = Become(d, r, Par(U, fix))
  <2>1. fix = Sentinel => Par(R, fix) = Par(freed, fix)
    BY <1>2, <1>7, <1>21, <1>22
  <2>2. Par(freed, fix) = IF q = d THEN r ELSE q
    BY <1>2, <1>13, <1>22
  <2> QED BY <1>32, <2>1, <2>2 DEF Become
<1> QED BY <1>1, <1>31, <1>32, <1>33 DEF q, fix

-----------------------------------------------------------------------------
(***************************************************************************)
(* The invariant of the tree                                               *)
(***************************************************************************)
TreeInv ==
    /\ pc \in {"idle", "insert", "delete"} /\ at \in Nodes /\ m_NodeCount \in 0 .. Cardinality(Keys)
    /\ \E u : Shape(tree, u)
    /\ pc = "idle" => /\ at = Sentinel /\ Par(tree, Sentinel) \in Members(tree)
                      /\ m_NodeCount = Cardinality(Live(tree))
                      /\ \E b : InOrder(tree, b)
    /\ pc = "insert" => /\ Par(tree, Sentinel) \in Members(tree)
                        /\ m_NodeCount + 1 = Cardinality(Live(tree))
                        /\ \E b : Inserting(tree, b, at)
    /\ pc = "delete" => /\ m_NodeCount = Cardinality(Live(tree)) + 1
                        /\ \E b : Deleting(tree, b, at)
                        /\ Color(tree, at) = "black" => Par(tree, Sentinel) \in Members(tree)

LEMMA LiveCount ==
    ASSUME NEW T
    PROVE  /\ IsFiniteSet(Live(T)) /\ Cardinality(Live(T)) \in 0 .. Cardinality(Keys)
           /\ \A k \in Keys : k \notin Live(T) =>
                 Cardinality(Live(T) \union {k}) = Cardinality(Live(T)) + 1
           /\ \A k \in Live(T) : Cardinality(Live(T) \ {k}) = Cardinality(Live(T)) - 1
           /\ Cardinality(Keys) \in Nat /\ Cardinality({}) = 0
<1>1. IsFiniteSet(Live(T)) /\ Cardinality(Live(T)) <= Cardinality(Keys) /\ IsFiniteSet(Keys)
  BY Names, LiveAre, FS_Subset
<1>2. Cardinality(Live(T)) \in Nat /\ Cardinality(Keys) \in Nat
  BY <1>1, FS_CardinalityType
<1>3. \A k \in Keys : k \notin Live(T) => Cardinality(Live(T) \union {k}) = Cardinality(Live(T)) + 1
  BY <1>1, FS_AddElement
<1>4. \A k \in Live(T) : Cardinality(Live(T) \ {k}) = Cardinality(Live(T)) - 1
  BY <1>1, FS_RemoveElement
<1> QED BY <1>1, <1>2, <1>3, <1>4, FS_EmptySet

LEMMA InsertKeepsTree ==
    ASSUME TreeInv, NEW k \in Keys, Insert(k)
    PROVE  TreeInv' /\ Live(tree)' = Live(tree) \union {k} /\ k \notin Live(tree)
<1> DEFINE p == Position(tree, k)
<1>1. pc = "idle" /\ Search(tree, k) = Sentinel /\ pc' = "insert" /\ at' = k
      /\ m_NodeCount' = m_NodeCount
  BY DEF Insert
<1>2. PICK u : Shape(tree, u)
  BY DEF TreeInv
<1>3. PICK b : InOrder(tree, b)
  BY <1>1 DEF TreeInv
<1>4. k \notin Live(tree) /\ k # Sentinel /\ k \in Nodes
  BY <1>1, <1>2, SearchFinds, Names
<1>5. \/ Live(tree) = {} /\ Root(tree) = Sentinel /\ p = Sentinel
      \/ /\ p \in Live(tree) /\ Kid(tree, p, Toward(k, p)) = Sentinel
         /\ \A m \in Live(tree), s \in Sides : p \in u[Kid(tree, m, s)] => s = Toward(k, m)
  BY <1>2, PositionIs
<1>6. p \in Nodes /\ p # k
  BY <1>4, <1>5, LiveAre, Names
<1>7. Leafed(tree, tree', k, p)
  <2>1. tree \in Trees
    BY <1>2 DEF Shape
  <2> DEFINE leaf == [tree EXCEPT !.parent[k] = p, !.color[k] = "red",
                                  !.kid[k] = Kids(Sentinel, Sentinel)]
             R == IF p = Sentinel THEN [leaf EXCEPT !.root = k]
                                  ELSE [leaf EXCEPT !.kid[p][Toward(k, p)] = k]
  <2>2. tree' = R
    BY Zenon DEF Insert
  <2>3. Leafed(tree, R, k, p)
    <3> HIDE DEF p
    <3> QED BY <1>6, <2>1, LeafedIs
  <2> HIDE DEF R, p
  <2> QED BY <2>2, <2>3
<1> HIDE DEF p
<1>8. Live(tree') = Live(tree) \union {k} /\ \E v : Shape(tree', v)
  BY <1>2, <1>4, <1>5, <1>7, LeafedShape
<1>9. \E d : Inserting(tree', d, k)
  BY <1>2, <1>3, <1>4, <1>5, <1>7, LeafedKeeps
<1>10. Par(tree', Sentinel) \in Members(tree')
  <2>1. Par(tree, Sentinel) \in Members(tree)
    BY <1>1 DEF TreeInv
  <2>2. Par(tree', Sentinel) = Par(tree, Sentinel)
    BY <1>4, <1>7, Names DEF Leafed
  <2> QED BY <1>8, <2>1, <2>2 DEF Members
<1>11. m_NodeCount + 1 = Cardinality(Live(tree'))
  BY <1>1, <1>4, <1>8, LiveCount DEF TreeInv
<1>12. TreeInv'
  BY <1>1, <1>4, <1>8, <1>9, <1>10, <1>11 DEF TreeInv
<1> QED BY <1>4, <1>8, <1>12

\* What every round of Insert's loop has to give.
LEMMA InsertRound ==
    ASSUME TreeInv, pc = "insert", pc' = pc, m_NodeCount' = m_NodeCount,
           Live(tree') = Live(tree), \E v : Shape(tree', v), \E d : Inserting(tree', d, at'),
           Par(tree', Sentinel) = Par(tree, Sentinel)
    PROVE  TreeInv'
<1>1. at' \in Nodes
  BY LiveAre, Names DEF Inserting
<1>2. Members(tree') = Members(tree)
  BY DEF Members
<1> QED BY <1>1, <1>2 DEF TreeInv

LEMMA InsertRecolorKeepsTree ==
    ASSUME TreeInv, InsertRecolor
    PROVE  TreeInv' /\ Live(tree') = Live(tree)
<1>1. /\ pc = "insert" /\ pc' = pc /\ m_NodeCount' = m_NodeCount /\ at' = Grand
      /\ Parent = Par(tree, at) /\ Grand = Par(tree, Parent)
      /\ Uncle = Kid(tree, Grand, Other(SideOf(tree, Parent)))
      /\ Color(tree, Parent) = "red" /\ Color(tree, Uncle) = "red"
      /\ tree' = Dye(Dye(Dye(tree, Parent, "black"), Uncle, "black"), Grand, "red")
  BY DEF InsertRecolor, RedParent, Parent, Grand, Uncle, Par, Kid, Color
<1>2. PICK u : Shape(tree, u)
  BY DEF TreeInv
<1>3. PICK b : Inserting(tree, b, at)
  BY <1>1 DEF TreeInv
<1>4. /\ SameLinks(tree, tree') /\ Live(tree') = Live(tree) /\ Shape(tree', u)
      /\ \E d : Inserting(tree', d, at')
  BY <1>1, <1>2, <1>3, RecolorKeeps
<1>5. Par(tree', Sentinel) = Par(tree, Sentinel)
  BY <1>4, Names DEF SameLinks
<1> QED BY <1>1, <1>4, <1>5, InsertRound

LEMMA InsertRotateKeepsTree ==
    ASSUME TreeInv, InsertRotate
    PROVE  TreeInv' /\ Live(tree') = Live(tree) /\ ~RedParent'
<1> DEFINE s == SideOf(tree, Parent)
           inner == SideOf(tree, at) = Other(s)
           n == IF inner THEN Parent ELSE at
           T == IF inner THEN Rotate(tree, n, s) ELSE tree
           p == Par(T, n)
           g == Par(T, p)
           R == Rotate(Dye(Dye(T, p, "black"), g, "red"), g, Other(s))
<1>1. /\ pc = "insert" /\ pc' = pc /\ m_NodeCount' = m_NodeCount
      /\ Parent = Par(tree, at) /\ Grand = Par(tree, Parent)
      /\ Color(tree, Parent) = "red"
      /\ Color(tree, Kid(tree, Grand, Other(s))) = "black"
  BY DEF InsertRotate, RedParent, Parent, Grand, Uncle, Par, Kid, Color
<1>2. tree' = R /\ at' = n
  BY DEF InsertRotate, Par
<1>3. PICK u : Shape(tree, u)
  BY DEF TreeInv
<1>4. PICK b : Inserting(tree, b, at)
  BY <1>1 DEF TreeInv
<1>5. Parent \in Live(tree) /\ Grand \in Live(tree) /\ s \in Sides /\ SideOf(tree, at) \in Sides
      /\ Kid(tree, Parent, SideOf(tree, at)) = at /\ at \in Live(tree)
      /\ at \in Nodes /\ Kid(tree, Grand, Other(s)) \in Nodes
  <2>1. at \in Live(tree)
    BY <1>4 DEF Inserting
  <2> QED BY <1>1, <1>3, <1>4, <2>1, RedParentIs, LiveAre, Names
<1> HIDE DEF R, s
<1>6. /\ Live(T) = Live(tree) /\ (\E v : Shape(T, v)) /\ Inserting(T, b, n)
      /\ Par(T, Sentinel) = Par(tree, Sentinel)
      /\ SideOf(T, n) = s /\ SideOf(T, Par(T, n)) = s /\ Color(T, Par(T, n)) = "red"
      /\ Color(T, Kid(T, Par(T, Par(T, n)), Other(s))) = "black"
  <2>1. CASE inner
    <3> DEFINE Q == Rotate(tree, Parent, s)
    <3>1. n = Parent /\ T = Q
      BY <2>1
    <3>2. /\ Live(Q) = Live(tree) /\ (\E v : Shape(Q, v)) /\ Inserting(Q, b, Parent)
          /\ Par(Q, Parent) = at /\ Par(Q, at) = Grand /\ SideOf(Q, at) = s /\ SideOf(Q, Parent) = s
          /\ Kid(Q, Grand, Other(s)) = Kid(tree, Grand, Other(s))
          /\ \A m \in Nodes : Color(Q, m) = Color(tree, m)
      BY <1>1, <1>3, <1>4, <2>1, InnerTurns DEF s
    <3>3. Par(Q, Sentinel) = Par(tree, Sentinel)
      <4>1. Kid(tree, Parent, Other(s)) = at /\ at # Sentinel
        BY <1>5, <2>1, LiveAre
      <4>2. Turns(tree, Q, Parent, at, s)
        BY <1>3, <1>5, <4>1, RotateTurns
      <4>3. Parent # Sentinel
        BY <1>5, LiveAre
      <4> QED BY <4>1, <4>2, <4>3, Names DEF Turns
    <3> HIDE DEF Q, n, T
    <3>4. Color(tree, at) = "red"
      BY <1>4 DEF Inserting
    <3> QED BY <1>1, <1>5, <3>1, <3>2, <3>3, <3>4
  <2>2. CASE ~inner
    <3>1. n = at /\ T = tree
      BY <2>2
    <3>2. SideOf(tree, at) = s
      BY <1>5, <2>2, SidesAre
    <3> HIDE DEF n, T
    <3> QED BY <1>1, <1>3, <1>4, <3>1, <3>2 DEF s
  <2> QED BY <2>1, <2>2
<1> HIDE DEF n, T
<1>7. PICK v : Shape(T, v)
  BY <1>6
<1>8. /\ Live(R) = Live(T) /\ (\E w : Shape(R, w)) /\ (\E d : Inserting(R, d, n))
      /\ Par(R, Sentinel) = Par(T, Sentinel) /\ Color(R, Par(R, n)) = "black"
  <2>1. SideOf(T, n) = SideOf(T, Par(T, n)) /\ SideOf(T, n) = s
    BY <1>6
  <2>2. Color(T, Kid(T, Par(T, Par(T, n)), Other(SideOf(T, n)))) = "black"
    BY <1>6
  <2>3. R = Rotate(Dye(Dye(T, Par(T, n), "black"), Par(T, Par(T, n)), "red"),
                   Par(T, Par(T, n)), Other(SideOf(T, Par(T, n))))
    BY <2>1 DEF R
  <2> QED BY <1>6, <1>7, <2>1, <2>2, <2>3, OuterTurns
<1>9. ~RedParent'
  <2>1. Color(tree', Par(tree', at')) = "black"
    BY <1>2, <1>8
  <2> QED BY <2>1 DEF RedParent, Parent, Par, Color
<1>10. TreeInv'
  BY <1>1, <1>2, <1>6, <1>8, InsertRound
<1> QED BY <1>2, <1>6, <1>8, <1>9, <1>10

LEMMA InsertEndKeepsTree ==
    ASSUME TreeInv, InsertEnd
    PROVE  TreeInv' /\ Live(tree') = Live(tree)
<1>1. /\ pc = "insert" /\ pc' = "idle" /\ at' = Sentinel /\ m_NodeCount' = m_NodeCount + 1
      /\ Color(tree, Par(tree, at)) # "red"
      /\ tree' = Dye(tree, Root(tree), "black")
  BY DEF InsertEnd, RedParent, Parent, Par, Color, Root
<1>2. PICK u : Shape(tree, u)
  BY DEF TreeInv
<1>3. PICK b : Inserting(tree, b, at)
  BY <1>1 DEF TreeInv
<1>4. Deleting(tree, b, Root(tree))
  BY <1>1, <1>2, <1>3, InsertedIs
<1>5. /\ SameLinks(tree, tree') /\ Live(tree') = Live(tree) /\ Shape(tree', u)
      /\ \E d : InOrder(tree', d)
  BY <1>1, <1>2, <1>4, BlackenKeeps
<1>6. Par(tree', Sentinel) \in Members(tree')
  BY <1>1, <1>5, Names DEF SameLinks, Members, TreeInv
<1>7. m_NodeCount' = Cardinality(Live(tree')) /\ m_NodeCount' \in 0 .. Cardinality(Keys)
      /\ at' \in Nodes
  BY <1>1, <1>5, LiveCount, Names DEF TreeInv
<1> QED BY <1>1, <1>5, <1>6, <1>7 DEF TreeInv

\* Delete leaves the tree in order, or a node to be fixed.
Deleted(R, d, color, fix) ==
    /\ Live(R) = Live(tree) \ {d} /\ \E v : Shape(R, v)
    /\ fix = Sentinel => Par(R, Sentinel) \in Members(R)
    /\ color = "red" => fix = Sentinel /\ \E b : InOrder(R, b)
    /\ color = "black" => (fix = Sentinel \/ Color(R, fix) = "red") /\ \E b : Deleting(R, b, fix)

LEMMA DeleteOfOneIs ==
    ASSUME NEW u, Shape(tree, u), NEW b, InOrder(tree, b), NEW d \in Live(tree), NEW s \in Sides,
           Kid(tree, d, Other(s)) = Sentinel
    PROVE  Deleted(Forget(TransPlant(tree, d, Kid(tree, d, s)), d), d, Color(tree, d),
                   Kid(tree, d, s))
<1> DEFINE c == Kid(tree, d, s)
           R == Forget(TransPlant(tree, d, c), d)
<1>1. tree \in Trees /\ d \in Keys /\ c \in Nodes /\ Par(tree, d) \in Nodes
  BY LiveAre, Names DEF Shape, LinksOf
<1>2. Spliced(tree, R, d, c)
  BY <1>1, SplicedIs
<1> HIDE DEF R
<1>3. Live(R) = Live(tree) \ {d} /\ Par(tree, d) \in Members(R) /\ Par(R, c) = Par(tree, d)
  BY <1>2, SplicedLinks
<1>4. \E v : Shape(R, v)
  <2>1. Shape(R, [n \in Nodes |-> u[n] \ {d}])
    BY <1>2, SplicedShape
  <2> QED BY <2>1
<1>5. /\ Color(tree, d) = "red" => c = Sentinel /\ InOrder(R, b)
      /\ Color(tree, d) = "black" => Deleting(R, b, c) /\ (c = Sentinel \/ Color(R, c) = "red")
  BY <1>2, SplicedKeeps
<1> HIDE DEF c
<1>6. Deleted(R, d, Color(tree, d), c)
  BY <1>3, <1>4, <1>5 DEF Deleted
<1> QED BY <1>6 DEF R, c

LEMMA DeleteOfTwoIs ==
    ASSUME NEW u, Shape(tree, u), NEW b, InOrder(tree, b), NEW d \in Live(tree),
           NEW r, Succeeds(tree, u, d, r)
    PROVE  Deleted(Forget(Succeed(d, r), d), d, Color(tree, r), Kid(tree, r, "right"))
<1> DEFINE fix == Kid(tree, r, "right")
           U == Forget(TransPlant(tree, r, fix), r)
           v == [n \in Nodes |-> u[n] \ {r}]
           R == Forget(Succeed(d, r), d)
<1>1. /\ r \in Live(tree) /\ r # d /\ Kid(tree, r, "left") = Sentinel
      /\ Par(tree, r) \in Live(tree) /\ fix \in Members(tree) /\ fix # d
  BY SuccessorIs
<1>2. tree \in Trees /\ r \in Keys /\ fix \in Nodes /\ Par(tree, r) \in Nodes
      /\ "right" \in Sides /\ Kid(tree, r, Other("right")) = Sentinel
  BY <1>1, LiveAre, Names, SidesAre DEF Shape, Other
<1>3. Spliced(tree, U, r, fix)
  BY <1>2, SplicedIs
<1> HIDE DEF U
<1>4. Live(U) = Live(tree) \ {r} /\ Par(tree, r) \in Members(U)
  BY <1>1, <1>2, <1>3, SplicedLinks
<1>5. Shape(U, v)
  BY <1>1, <1>2, <1>3, SplicedShape
<1>6. /\ Color(tree, r) = "red" => fix = Sentinel /\ InOrder(U, b)
      /\ Color(tree, r) = "black" => Deleting(U, b, fix) /\ (fix = Sentinel \/ Color(U, fix) = "red")
  BY <1>1, <1>2, <1>3, SplicedKeeps
<1>7. Neighbors(U, v, d, r)
  BY <1>4, SuccessorIsNeighbor
<1>8. /\ Renamed(U, R, d, r) /\ Par(U, fix) = Par(tree, r)
      /\ fix = Sentinel => Par(R, fix) = Become(d, r, Par(U, fix))
  BY <1>3, SucceedIs
<1>9. d \in Live(U) /\ r \notin Live(U)
  BY <1>1, <1>4
<1> HIDE DEF R, v, fix
<1>10. Live(R) = (Live(U) \ {d}) \union {r} /\ \E w : Shape(R, w)
  BY <1>2, <1>5, <1>7, <1>8, <1>9, RenamedShape
<1>11. Live(R) = Live(tree) \ {d}
  BY <1>1, <1>4, <1>10
<1>12. /\ fix = Sentinel => Par(R, Sentinel) \in Members(R)
       /\ Color(tree, r) = "red" => fix = Sentinel /\ \E e : InOrder(R, e)
  <2>1. \A n \in Members(U) : Become(d, r, n) \in Members(R)
    BY <1>2, <1>5, <1>8, <1>9, RenamedLinks
  <2>2. InOrder(U, b) => \E e : InOrder(R, e)
    BY <1>2, <1>5, <1>8, <1>9, RenamedInOrder
  <2> QED BY <1>4, <1>6, <1>8, <2>1, <2>2
<1>13. Color(tree, r) = "black" =>
          (fix = Sentinel \/ Color(R, fix) = "red") /\ \E e : Deleting(R, e, fix)
  <2>1. ASSUME Deleting(U, b, fix) PROVE \E e : Deleting(R, e, fix)
    BY <1>1, <1>2, <1>5, <1>8, <1>9, <2>1, RenamedDeleting
  <2>2. Deleting(U, b, fix) => Color(R, fix) = Color(U, fix)
    BY <1>1, <1>8 DEF Renamed, Deleting
  <2> QED BY <1>6, <2>1, <2>2
<1>14. Deleted(R, d, Color(tree, r), fix)
  BY <1>10, <1>11, <1>12, <1>13 DEF Deleted
<1> QED BY <1>14 DEF R, fix

LEMMA DeleteKeepsTree ==
    ASSUME TreeInv, NEW k \in Keys, Delete(k)
    PROVE  TreeInv' /\ Live(tree') = Live(tree) \ {k} /\ k \in Live(tree)
<1> DEFINE l == Kid(tree, k, "left")
           g == Kid(tree, k, "right")
           two == l # Sentinel /\ g # Sentinel
           r == IF two THEN Outermost(tree, g, "left") ELSE k
           fix == IF l # Sentinel /\ ~two THEN l ELSE Kid(tree, r, "right")
           T == IF two THEN Succeed(k, r) ELSE TransPlant(tree, k, fix)
           black == Color(tree, r) = "black"
<1>1. /\ pc = "idle" /\ Search(tree, k) = k
      /\ tree' = Forget(T, k)
      /\ pc' = IF black THEN "delete" ELSE "idle"
      /\ at' = IF black THEN fix ELSE Sentinel
      /\ m_NodeCount' = IF black THEN m_NodeCount ELSE m_NodeCount - 1
  BY DEF Delete, Kid, Color
<1>2. PICK u : Shape(tree, u)
  BY DEF TreeInv
<1>3. PICK b : InOrder(tree, b)
  BY <1>1 DEF TreeInv
<1>4. k \in Live(tree)
  BY <1>1, <1>2, SearchFinds, Names
<1>5. Deleted(tree', k, Color(tree, r), fix) /\ r \in Live(tree)
  <2>1. CASE two
    <3>1. g \in Live(tree)
      BY <1>2, <1>4, <2>1, Under, SidesAre
    <3>2. [m \in Nodes |-> "left"] \in [Nodes -> Sides]
      BY SidesAre
    <3>3. Ends(tree, u, g, [m \in Nodes |-> "left"], Down(tree, g, [m \in Nodes |-> "left"]))
      <4> DEFINE way == [m \in Nodes |-> "left"]
      <4> HIDE DEF way
      <4>1. Ends(tree, u, g, way, Down(tree, g, way))
        BY <1>2, <3>1, <3>2, DownEnds DEF way
      <4> QED BY <4>1 DEF way
    <3>4. r = Down(tree, g, [m \in Nodes |-> "left"])
      BY <2>1 DEF Outermost
    <3>5. Succeeds(tree, u, k, r)
      BY <2>1, <3>3, <3>4, SidesAre DEF Succeeds
    <3>6. fix = Kid(tree, r, "right") /\ T = Succeed(k, r)
      BY <2>1
    <3> HIDE DEF r, fix, T
    <3>7. Deleted(Forget(Succeed(k, r), k), k, Color(tree, r), Kid(tree, r, "right"))
      BY <1>2, <1>3, <1>4, <3>5, DeleteOfTwoIs
    <3>8. r \in Live(tree)
      BY <1>2, <1>4, <3>5, SuccessorIs
    <3> QED BY <1>1, <3>6, <3>7, <3>8
  <2>2. CASE ~two
    <3> DEFINE s == IF l # Sentinel THEN "left" ELSE "right"
    <3>1. s \in Sides /\ Kid(tree, k, Other(s)) = Sentinel /\ fix = Kid(tree, k, s) /\ r = k
          /\ T = TransPlant(tree, k, fix)
      BY <2>2, SidesAre DEF Other
    <3> HIDE DEF s, fix, r, T
    <3>2. Deleted(Forget(TransPlant(tree, k, Kid(tree, k, s)), k), k, Color(tree, k),
                  Kid(tree, k, s))
      BY <1>2, <1>3, <1>4, <3>1, DeleteOfOneIs
    <3> QED BY <1>1, <1>4, <3>1, <3>2
  <2> QED BY <2>1, <2>2
<1> HIDE DEF r, fix, T
<1>6. Live(tree') = Live(tree) \ {k} /\ \E v : Shape(tree', v)
  BY <1>5 DEF Deleted
<1>7. /\ Cardinality(Live(tree')) = Cardinality(Live(tree)) - 1
      /\ Cardinality(Live(tree')) \in 0 .. Cardinality(Keys) /\ Cardinality(Keys) \in Nat
      /\ m_NodeCount = Cardinality(Live(tree)) /\ m_NodeCount \in 0 .. Cardinality(Keys)
  BY <1>1, <1>4, <1>6, LiveCount DEF TreeInv
<1>8. CASE black
  <2>1. /\ pc' = "delete" /\ at' = fix /\ m_NodeCount' = m_NodeCount
        /\ \E e : Deleting(tree', e, at')
        /\ Color(tree', at') = "black" => Par(tree', Sentinel) \in Members(tree')
    BY <1>1, <1>5, <1>8 DEF Deleted
  <2>2. at' \in Nodes
    BY <2>1, LiveAre DEF Deleting
  <2>3. m_NodeCount' = Cardinality(Live(tree')) + 1 /\ m_NodeCount' \in 0 .. Cardinality(Keys)
    BY <1>7, <2>1
  <2>4. TreeInv'
    BY <1>6, <2>1, <2>2, <2>3 DEF TreeInv
  <2> QED BY <1>4, <1>6, <2>4
<1>9. CASE ~black
  <2>1. Color(tree, r) = "red"
    BY <1>2, <1>5, <1>9, LiveAre, Names, TreeParts DEF Shape
  <2>2. /\ pc' = "idle" /\ at' = Sentinel /\ m_NodeCount' = m_NodeCount - 1
        /\ (\E e : InOrder(tree', e)) /\ Par(tree', Sentinel) \in Members(tree')
    BY <1>1, <1>5, <1>9, <2>1 DEF Deleted
  <2>3. m_NodeCount' = Cardinality(Live(tree')) /\ m_NodeCount' \in 0 .. Cardinality(Keys)
    BY <1>7, <2>2
  <2>4. TreeInv'
    BY <1>6, <2>2, <2>3, Names DEF TreeInv
  <2> QED BY <1>4, <1>6, <2>4
<1> QED BY <1>8, <1>9

\* What every round of Delete's loop has to give.
LEMMA DeleteRound ==
    ASSUME TreeInv, pc = "delete", pc' = pc, m_NodeCount' = m_NodeCount,
           Live(tree') = Live(tree), \E v : Shape(tree', v), \E d : Deleting(tree', d, at'),
           Color(tree, at) = "black", Par(tree', Sentinel) = Par(tree, Sentinel)
    PROVE  TreeInv'
<1>1. at' \in Nodes
  BY LiveAre DEF Deleting
<1>2. Members(tree') = Members(tree)
  BY DEF Members
<1> QED BY <1>1, <1>2 DEF TreeInv

\* What the rounds of Delete start from: the sibling is black.
LEMMA WithBlackSiblingIs ==
    ASSUME TreeInv, DoublyBlack
    PROVE  LET T == WithBlackSibling
               c == Kid(T, Par(T, at), Other(Side))
           IN  /\ Live(T) = Live(tree) /\ (\E v : Shape(T, v))
               /\ Par(T, at) = Parent /\ Par(T, Sentinel) = Par(tree, Sentinel)
               /\ \E d : Deep(T, d, at, Parent, Side)
               /\ Color(T, c) = "black"
               /\ T = tree \/ Color(T, Parent) = "red"
<1> DEFINE b == Kid(tree, Parent, Other(Side))
           Q == Rotate(Dye(Dye(tree, b, "black"), Parent, "red"), Parent, Side)
           T == WithBlackSibling
<1>1. /\ pc = "delete" /\ at # Root(tree) /\ Color(tree, at) = "black"
      /\ Parent = Par(tree, at) /\ Side = SideOf(tree, at)
      /\ T = IF Color(tree, b) = "red" THEN Q ELSE tree
  BY DEF DoublyBlack, Parent, Side, WithBlackSibling, Par, Kid, Color, Root
<1>2. PICK u : Shape(tree, u)
  BY DEF TreeInv
<1>3. PICK d : Deleting(tree, d, at)
  BY <1>1 DEF TreeInv
<1>4. Deep(tree, d, at, Parent, Side)
  BY <1>1, <1>2, <1>3, DeepIs
<1> HIDE DEF T
<1>5. CASE Color(tree, b) = "red"
  <2>1. /\ Live(Q) = Live(tree) /\ (\E v : Shape(Q, v)) /\ (\E e : Deep(Q, e, at, Parent, Side))
        /\ Color(Q, Kid(Q, Parent, Other(Side))) = "black" /\ Color(Q, Parent) = "red"
        /\ Par(Q, Sentinel) = Par(tree, Sentinel)
    BY <1>2, <1>4, <1>5, RedSiblingTurns
  <2>2. Par(Q, at) = Parent
    BY <2>1 DEF Deep
  <2>3. T = Q
    BY <1>1, <1>5
  <2> HIDE DEF Q
  <2> QED BY <2>1, <2>2, <2>3 DEF T
<1>6. CASE Color(tree, b) # "red"
  <2>1. T = tree
    BY <1>1, <1>6
  <2>2. b \in Live(tree)
    BY <1>2, <1>4, SiblingIs
  <2>3. Color(tree, b) = "black"
    BY <1>2, <1>6, <2>2, LiveAre, Names, TreeParts DEF Shape
  <2> QED BY <1>1, <1>2, <1>4, <2>1, <2>3 DEF T
<1> QED BY <1>5, <1>6

LEMMA DeletePushKeepsTree ==
    ASSUME TreeInv, DeletePush
    PROVE  /\ TreeInv' /\ Live(tree') = Live(tree) /\ at' = Parent
           /\ WithBlackSibling = tree \/ ~DoublyBlack'
           /\ WithBlackSibling = tree => SameLinks(tree, tree')
<1> DEFINE T == WithBlackSibling
           c == Kid(T, Par(T, at), Other(Side))
<1>1. /\ DoublyBlack /\ pc = "delete" /\ pc' = pc /\ m_NodeCount' = m_NodeCount
      /\ Color(tree, at) = "black"
      /\ \A t \in Sides : Color(T, Kid(T, c, t)) = "black"
      /\ tree' = Dye(T, c, "red") /\ at' = Par(T, at)
  BY DEF DeletePush, DoublyBlack, BlackKids, Par, Kid, Color
<1>2. /\ Live(T) = Live(tree) /\ (\E v : Shape(T, v)) /\ Par(T, at) = Parent
      /\ Par(T, Sentinel) = Par(tree, Sentinel)
      /\ (\E d : Deep(T, d, at, Parent, Side)) /\ Color(T, c) = "black"
      /\ T = tree \/ Color(T, Parent) = "red"
  BY <1>1, WithBlackSiblingIs
<1> HIDE DEF T
<1>3. PICK u : Shape(T, u)
  BY <1>2
<1>4. PICK d : Deep(T, d, at, Parent, Side)
  BY <1>2
<1>5. c = Kid(T, Parent, Other(Side))
  BY <1>2
<1> HIDE DEF c
<1>6. /\ SameLinks(T, tree') /\ Live(tree') = Live(T) /\ Shape(tree', u)
      /\ \E e : Deleting(tree', e, Parent)
  <2> DEFINE R == Dye(T, Kid(T, Parent, Other(Side)), "red")
  <2>1. /\ Color(T, Kid(T, Parent, Other(Side))) = "black"
        /\ \A t \in Sides : Color(T, Kid(T, Kid(T, Parent, Other(Side)), t)) = "black"
    BY <1>1, <1>2, <1>5
  <2>2. /\ SameLinks(T, R) /\ Live(R) = Live(T) /\ Shape(R, u) /\ \E e : Deleting(R, e, Parent)
    BY <1>3, <1>4, <2>1, PushKeeps
  <2>3. tree' = R
    BY <1>1, <1>5
  <2> HIDE DEF R
  <2> QED BY <2>2, <2>3
<1>7. TreeInv'
  <2>1. Par(tree', Sentinel) = Par(tree, Sentinel)
    BY <1>2, <1>6, Names DEF SameLinks
  <2> QED BY <1>1, <1>2, <1>6, <2>1, DeleteRound
<1>8. Color(T, Parent) = "red" => ~DoublyBlack'
  <2>1. c # Parent /\ c \in Live(T) /\ Parent \in Live(T)
    BY <1>3, <1>4, <1>5, SiblingIs DEF Deep
  <2>2. c \in Nodes /\ Parent \in Nodes
    BY <2>1, LiveAre, Names
  <2>3. SameLinks(T, T)
    BY <1>3 DEF SameLinks, Shape
  <2>4. Color(tree', Parent) = Color(T, Parent)
    BY <1>1, <2>1, <2>2, <2>3, Colors, Dyed
  <2>5. at' = Parent
    BY <1>1, <1>2
  <2> QED BY <2>4, <2>5 DEF DoublyBlack, Color
<1> QED BY <1>1, <1>2, <1>6, <1>7, <1>8 DEF T

LEMMA DeleteRotateKeepsTree ==
    ASSUME TreeInv, DeleteRotate
    PROVE  TreeInv' /\ Live(tree') = Live(tree) /\ ~DoublyBlack'
<1> DEFINE s == Side
           o == Other(s)
           T == WithBlackSibling
           p == Par(T, at)
           b == Kid(T, p, o)
           turned == Rotate(Dye(Dye(T, Kid(T, b, s), "black"), b, "red"), b, o)
           T2 == IF Color(T, Kid(T, b, o)) = "black" THEN turned ELSE T
           c == Kid(T2, p, o)
           dyed == Dye(Dye(Dye(T2, c, Color(T2, p)), p, "black"), Kid(T2, c, o), "black")
           R == Rotate(dyed, p, s)
<1>1. /\ DoublyBlack /\ pc = "delete" /\ pc' = pc /\ m_NodeCount' = m_NodeCount
      /\ Color(tree, at) = "black"
      /\ \E t \in Sides : Color(T, Kid(T, b, t)) # "black"
      /\ tree' = R /\ at' = Root(tree')
  BY DEF DeleteRotate, DoublyBlack, BlackKids, Par, Kid, Color, Root
<1>2. /\ Live(T) = Live(tree) /\ (\E v : Shape(T, v)) /\ p = Parent
      /\ Par(T, Sentinel) = Par(tree, Sentinel)
      /\ (\E d : Deep(T, d, at, Parent, s)) /\ Color(T, b) = "black"
  BY <1>1, WithBlackSiblingIs
<1> HIDE DEF T
<1>3. PICK u : Shape(T, u)
  BY <1>2
<1>4. PICK d : Deep(T, d, at, p, s)
  BY <1>2
<1>5. b \in Live(T) /\ s \in Sides /\ o \in Sides /\ o # s
      /\ \A t \in Sides : Color(T, Kid(T, b, t)) \in {"red", "black"}
  <2>1. b \in Live(T) /\ s \in Sides
    BY <1>3, <1>4, SiblingIs DEF Deep
  <2>2. \A t \in Sides : Kid(T, b, t) \in Nodes
    BY <1>3, <2>1, Under, LiveAre
  <2>3. T \in Trees
    BY <1>3 DEF Shape
  <2> QED BY <2>1, <2>2, <2>3, SidesAre, TreeParts
<1> HIDE DEF p, s, R
<1>6. /\ Live(T2) = Live(tree) /\ (\E v : Shape(T2, v)) /\ (\E e : Deep(T2, e, at, p, s))
      /\ Par(T2, Sentinel) = Par(tree, Sentinel)
      /\ Color(T2, c) = "black" /\ Color(T2, Kid(T2, c, o)) = "red"
  <2>1. CASE Color(T, Kid(T, b, o)) = "black"
    <3>1. Color(T, Kid(T, b, s)) = "red"
      BY <1>1, <1>5, <2>1, SidesAre
    <3>2. /\ Live(turned) = Live(T) /\ (\E v : Shape(turned, v))
          /\ (\E e : Deep(turned, e, at, p, s))
          /\ Par(turned, Sentinel) = Par(T, Sentinel)
          /\ Kid(turned, p, o) = Kid(T, b, s) /\ Kid(turned, Kid(T, b, s), o) = b
          /\ Color(turned, Kid(T, b, s)) = "black" /\ Color(turned, b) = "red"
      BY <1>2, <1>3, <1>4, <2>1, <3>1, InnerNephewTurns
    <3>3. T2 = turned
      BY <2>1
    <3> HIDE DEF turned, T2
    <3> QED BY <1>2, <3>2, <3>3
  <2>2. CASE Color(T, Kid(T, b, o)) # "black"
    <3>1. T2 = T /\ Color(T, Kid(T, b, o)) = "red"
      BY <1>5, <2>2
    <3> HIDE DEF T2
    <3> QED BY <1>2, <1>3, <1>4, <3>1
  <2> QED BY <2>1, <2>2
<1> HIDE DEF T2
<1>7. PICK v : Shape(T2, v)
  BY <1>6
<1>8. PICK e : Deep(T2, e, at, p, s)
  BY <1>6
<1>9. /\ Live(R) = Live(T2) /\ (\E w : Shape(R, w)) /\ (\E f : InOrder(R, f))
      /\ Par(R, Sentinel) = Par(T2, Sentinel)
  BY <1>6, <1>7, <1>8, SiblingTurns DEF R
<1>10. \E f : Deleting(tree', f, at')
  <2>1. PICK f : InOrder(R, f)
    BY <1>9
  <2>2. Root(R) \in Members(R) /\ Balanced(R, f, Sentinel, "left")
        /\ Apart(R, Sentinel, Sentinel) /\ Color(R, Sentinel) = "black"
    BY <1>9, <2>1 DEF InOrder, Shape, Balanced
  <2>3. Apart(R, Root(R), Root(R))
    BY <2>2 DEF Apart
  <2>4. Deleting(R, f, Root(R))
    BY <2>2, <2>3 DEF Deleting
  <2> QED BY <1>1, <2>4
<1>11. ~DoublyBlack'
  BY <1>1 DEF DoublyBlack, Root
<1>12. TreeInv'
  BY <1>1, <1>6, <1>9, <1>10, DeleteRound
<1> QED BY <1>1, <1>6, <1>9, <1>11, <1>12

LEMMA DeleteEndKeepsTree ==
    ASSUME TreeInv, DeleteEnd
    PROVE  TreeInv' /\ Live(tree') = Live(tree)
<1> DEFINE D == Dye(tree, at, "black")
<1>1. /\ pc = "delete" /\ pc' = "idle" /\ at' = Sentinel /\ m_NodeCount' = m_NodeCount - 1
      /\ (at = Root(tree) \/ Color(tree, at) # "black")
      /\ tree' = SetPar(D, Sentinel, Sentinel)
  BY DEF DeleteEnd, DoublyBlack, Color, Root, SetPar
<1>2. PICK u : Shape(tree, u)
  BY DEF TreeInv
<1>3. PICK b : Deleting(tree, b, at)
  BY <1>1 DEF TreeInv
<1>4. at = Root(tree) \/ Color(tree, at) = "red"
  <2>1. Color(tree, at) \in {"red", "black"}
    BY <1>2, TreeParts DEF Shape, TreeInv
  <2> QED BY <1>1, <2>1
<1>5. /\ SameLinks(tree, D) /\ Live(D) = Live(tree) /\ Shape(D, u) /\ \E e : InOrder(D, e)
  BY <1>2, <1>3, <1>4, BlackenKeeps
<1> HIDE DEF D
<1>6. /\ tree' \in Trees /\ Root(tree') = Root(D)
      /\ \A m \in Nodes : /\ Par(tree', m) = IF m = Sentinel THEN Sentinel ELSE Par(D, m)
                          /\ Color(tree', m) = Color(D, m)
                          /\ \A t \in Sides : Kid(tree', m, t) = Kid(D, m, t)
  <2>1. D \in Trees /\ Sentinel \in Nodes /\ Sentinel \in Pointers
    BY <1>5, Names DEF Shape, Pointers
  <2> QED BY <1>1, <2>1, WritePar
<1>7. Live(tree') = Live(D) /\ Members(tree') = Members(D)
  <2>1. \A n \in Keys : Par(tree', n) = Par(D, n)
    BY <1>6, Names
  <2> QED BY <2>1 DEF Live, Members, Par
<1>8. /\ \A n \in Live(D) : n \in Nodes /\ n # Sentinel /\ Par(D, n) \in Nodes
      /\ Sentinel \in Nodes /\ \A n \in Members(D) : n \in Nodes
      /\ Par(tree', Sentinel) = Sentinel /\ Sentinel \in Members(D)
  BY <1>5, <1>6, LiveAre, Names DEF Shape, LinksOf
<1>9. \A n \in Live(D) : SideOf(tree', n) = SideOf(D, n)
  BY <1>6, <1>8, SidesAre DEF SideOf, Kid, Par
<1>10. Shape(tree', u)
  <2>1. ASSUME NEW n \in Live(D) PROVE LinksOf(tree', n) /\ OrderOf(tree', u, n)
    <3>1. LinksOf(D, n) /\ OrderOf(D, u, n) /\ n \in Nodes /\ n # Sentinel
      BY <1>5, <1>8 DEF Shape
    <3>2. \A t \in Sides : Kid(tree', n, t) = Kid(D, n, t) /\ Kid(D, n, t) \in Nodes
      BY <1>6, <1>8, <3>1 DEF LinksOf
    <3>3. Par(tree', n) = Par(D, n) /\ Par(D, n) \in Nodes
      BY <1>6, <1>8, <3>1
    <3>4. SideOf(D, n) \in Sides
      BY SideIs
    <3>5. LinksOf(tree', n)
      BY <1>6, <1>7, <1>9, <3>1, <3>2, <3>3, <3>4 DEF LinksOf
    <3>6. OrderOf(tree', u, n)
      BY <3>1, <3>2, SidesAre DEF OrderOf
    <3> QED BY <3>5, <3>6
  <2>2. Root(D) \in Nodes
    BY <1>5, <1>8 DEF Shape
  <2> QED BY <1>5, <1>6, <1>7, <1>8, <2>1, <2>2 DEF Shape
<1>11. \E e : InOrder(tree', e)
  <2>1. PICK e : InOrder(D, e)
    BY <1>5
  <2>2. Balanced(tree', e, Sentinel, "left")
    <3>1. ASSUME NEW n \in Live(D), NEW s \in Sides
          PROVE  Black(tree', n) = Black(D, n) /\ Kid(tree', n, s) = Kid(D, n, s)
      BY <1>6, <1>8 DEF Black
    <3> QED BY <1>6, <1>7, <1>8, <2>1, <3>1 DEF InOrder, Balanced
  <2>3. Apart(tree', Sentinel, Sentinel)
    BY <1>6, <1>7, <1>8, <2>1 DEF InOrder, Apart
  <2> QED BY <2>2, <2>3 DEF InOrder
<1>12. m_NodeCount' = Cardinality(Live(tree')) /\ m_NodeCount' \in 0 .. Cardinality(Keys)
  BY <1>1, <1>5, <1>7, LiveCount DEF TreeInv
<1> QED BY <1>1, <1>5, <1>7, <1>8, <1>10, <1>11, <1>12 DEF TreeInv

LEMMA EmptyIsTree ==
    /\ Live(Empty) = {} /\ Members(Empty) = {Sentinel}
    /\ Shape(Empty, [n \in Nodes |-> {}]) /\ InOrder(Empty, [n \in Nodes |-> 0])
    /\ Par(Empty, Sentinel) = Sentinel
<1>1. Empty \in Trees
  BY Names DEF Empty, Trees, Kids, Pointers
<1>2. /\ Root(Empty) = Sentinel /\ Par(Empty, Sentinel) = Sentinel
      /\ Color(Empty, Sentinel) = "black"
      /\ \A s \in Sides : Kid(Empty, Sentinel, s) = Sentinel
  BY Names DEF Empty, Root, Par, Color, Kid, Kids, Sides
<1>3. Live(Empty) = {}
  BY Names DEF Empty, Live
<1>4. Members(Empty) = {Sentinel}
  BY <1>3 DEF Members
<1>5. Shape(Empty, [n \in Nodes |-> {}])
  BY <1>1, <1>2, <1>3, <1>4, Names DEF Shape
<1>6. InOrder(Empty, [n \in Nodes |-> 0])
  BY <1>2, <1>3, Names DEF InOrder, Balanced, Apart
<1> QED BY <1>2, <1>3, <1>4, <1>5, <1>6

LEMMA InitIsTree ==
    ASSUME Init
    PROVE  TreeInv /\ Live(tree) = {}
BY EmptyIsTree, LiveCount, Names DEF Init, TreeInv

LEMMA ClearKeepsTree ==
    ASSUME TreeInv, Clear
    PROVE  TreeInv' /\ Live(tree') = {}
BY EmptyIsTree, LiveCount, Names DEF Clear, TreeInv

LEMMA TreeStays ==
    ASSUME TreeInv, UNCHANGED vars
    PROVE  TreeInv' /\ Live(tree') = Live(tree)
BY DEF TreeInv, vars

\* The rounds move the nodes, and neither make any nor lose one.
LEMMA FixUpKeepsTree ==
    ASSUME TreeInv, FixUp
    PROVE  TreeInv' /\ Live(tree') = Live(tree)
<1>1. CASE InsertRecolor
  BY <1>1, InsertRecolorKeepsTree
<1>2. CASE InsertRotate
  BY <1>2, InsertRotateKeepsTree
<1>3. CASE InsertEnd
  BY <1>3, InsertEndKeepsTree
<1>4. CASE DeletePush
  BY <1>4, DeletePushKeepsTree
<1>5. CASE DeleteRotate
  BY <1>5, DeleteRotateKeepsTree
<1>6. CASE DeleteEnd
  BY <1>6, DeleteEndKeepsTree
<1> QED BY <1>1, <1>2, <1>3, <1>4, <1>5, <1>6 DEF FixUp, InsertFixUp, DeleteFixUp

-----------------------------------------------------------------------------
(***************************************************************************)
(* What the invariant says of the tree                                     *)
(***************************************************************************)
LEMMA TreeIsTyped ==
    ASSUME TreeInv
    PROVE  TypeOK
<1>1. PICK u : Shape(tree, u)
  BY DEF TreeInv
<1>2. Elements = Live(tree)
  BY <1>1, ElementsAre
<1>3. \A n \in Live(tree), s \in Sides :
         tree.kid[n][s] # Sentinel => tree.parent[tree.kid[n][s]] = n
  BY <1>1 DEF Shape, LinksOf, Kid, Par
<1>4. tree \in Trees /\ (tree.root # Sentinel => tree.parent[tree.root] = Sentinel)
  BY <1>1 DEF Shape, Root, Par
<1> QED BY <1>2, <1>3, <1>4 DEF TypeOK, TreeInv

LEMMA SentinelIsLeaf ==
    ASSUME TreeInv
    PROVE  SentinelIsSound
<1>1. PICK u : Shape(tree, u)
  BY DEF TreeInv
<1>2. Elements = Live(tree)
  BY <1>1, ElementsAre
<1>3. \E b, p, t : Balanced(tree, b, p, t)
  BY DEF TreeInv, InOrder, Inserting, Deleting
<1>4. tree.color[Sentinel] = "black"
  BY <1>3 DEF Balanced, Color
<1>5. tree.kid[Sentinel] = Kids(Sentinel, Sentinel)
  <2>1. tree.kid[Sentinel] \in [left : Pointers, right : Pointers]
    BY <1>1, Names, TreeParts DEF Shape
  <2>2. tree.kid[Sentinel].left = Sentinel /\ tree.kid[Sentinel].right = Sentinel
    BY <1>1, SidesAre DEF Shape, Kid
  <2> QED BY <2>1, <2>2 DEF Kids
<1>6. pc # "delete" => tree.parent[Sentinel] \in Elements \union {Sentinel}
  BY <1>2 DEF TreeInv, Members, Par
<1>7. ASSUME DoublyBlack, at = Sentinel
      PROVE  Parent # Sentinel /\ \E s \in Sides : tree.kid[Parent][s] = Sentinel
  <2>1. /\ Par(tree, at) \in Live(tree) /\ Kid(tree, Par(tree, at), SideOf(tree, at)) = at
        /\ SideOf(tree, at) \in Sides
    BY <1>7, SideIs DEF TreeInv, Deleting, DoublyBlack, Root
  <2> QED BY <1>7, <2>1, LiveAre DEF Parent, Par, Kid
<1> QED BY <1>4, <1>5, <1>6, <1>7 DEF SentinelIsSound

LEMMA BlacksAreBalanced ==
    ASSUME TreeInv
    PROVE  RedBlack
<1>1. PICK u : Shape(tree, u)
  BY DEF TreeInv
<1>2. Elements = Live(tree)
  BY <1>1, ElementsAre
<1>3. \A n \in Live(tree) : n # Sentinel /\ n \in Nodes
  BY LiveAre, Names
<1>4. ASSUME NEW n \in Live(tree), Color(tree, n) = "red",
             n = Root(tree) \/ Color(tree, Par(tree, n)) = "red"
      PROVE  (pc # "idle" /\ n = at) \/ (pc = "delete" /\ Par(tree, n) = at)
  <2>1. CASE pc = "idle" \/ pc = "insert"
    <3>1. PICK e \in {at} : Apart(tree, e, Sentinel) /\ (pc = "idle" => e = Sentinel)
                            /\ Color(tree, Sentinel) = "black"
      BY <2>1 DEF TreeInv, InOrder, Inserting, Balanced
    <3>2. n # e => Par(tree, n) = Sentinel /\ Color(tree, Par(tree, n)) = "red"
      BY <1>4, <3>1 DEF Apart
    <3> QED BY <1>3, <2>1, <3>1, <3>2
  <2>2. CASE pc = "delete"
    <3>1. Apart(tree, at, at)
      BY <2>2 DEF TreeInv, Deleting
    <3> QED BY <1>4, <2>2, <3>1 DEF Apart
  <2> QED BY <2>1, <2>2 DEF TreeInv
<1>5. \E b, p, t : /\ Balanced(tree, b, p, t)
                   /\ \A n \in Live(tree), s \in Sides :
                         Extra(n, s) = IF n = p /\ s = t THEN 1 ELSE 0
  <2>1. CASE pc # "delete"
    <3>1. \A n, s : Extra(n, s) = 0
      BY <2>1 DEF Extra
    <3>2. \E b : Balanced(tree, b, Sentinel, "left")
      BY <2>1 DEF TreeInv, InOrder, Inserting
    <3> QED BY <1>3, <3>1, <3>2
  <2>2. CASE pc = "delete" /\ at = Root(tree)
    <3>1. \E b : Balanced(tree, b, Sentinel, "left")
      BY <2>2 DEF TreeInv, Deleting
    <3>2. ASSUME NEW n \in Live(tree), NEW s \in Sides PROVE Extra(n, s) = 0
      <4>1. Root(tree) # Sentinel /\ Par(tree, at) = Sentinel
        BY <1>1, <2>2 DEF Shape
      <4> QED BY <1>3, <4>1 DEF Extra, Par
    <3> QED BY <1>3, <3>1, <3>2
  <2>3. CASE pc = "delete" /\ at # Root(tree)
    <3>1. PICK b : /\ Kid(tree, Par(tree, at), SideOf(tree, at)) = at
                   /\ Balanced(tree, b, Par(tree, at), SideOf(tree, at))
      BY <2>3 DEF TreeInv, Deleting
    <3>2. ASSUME NEW n \in Live(tree), NEW s \in Sides
          PROVE  Extra(n, s) = IF n = Par(tree, at) /\ s = SideOf(tree, at) THEN 1 ELSE 0
      BY <2>3, <3>1 DEF Extra, Side, Par, Kid
    <3> QED BY <3>1, <3>2
  <2> QED BY <2>1, <2>2, <2>3
<1>6. \E c : BlackCounts = {c}
  <2>1. PICK b, p, t : /\ Balanced(tree, b, p, t)
                       /\ \A n \in Live(tree), s \in Sides :
                             Extra(n, s) = IF n = p /\ s = t THEN 1 ELSE 0
    BY <1>5
  <2>2. Balanced(tree, b, p, t)
    BY <2>1
  <2>3. \A n \in Live(tree), s \in Sides : Extra(n, s) = IF n = p /\ s = t THEN 1 ELSE 0
    BY <2>1
  <2>4. BlackCounts = {b[Root(tree)]}
    BY <1>1, <2>2, <2>3, BlackCountsAre
  <2> QED BY <2>4
<1>7. Cardinality(BlackCounts) = 1
  BY <1>6, FS_Singleton
<1> QED BY <1>2, <1>4, <1>7 DEF RedBlack, Color, Par, Root

LEMMA TreeStep ==
    ASSUME TreeInv, [Next]_vars
    PROVE  TreeInv'
<1>1. CASE FixUp
  BY <1>1, FixUpKeepsTree
<1>2. CASE Clear
  BY <1>2, ClearKeepsTree
<1>3. ASSUME NEW k \in Keys, Insert(k) \/ Delete(k) PROVE TreeInv'
  BY <1>3, InsertKeepsTree, DeleteKeepsTree
<1>4. CASE UNCHANGED vars
  BY <1>4, TreeStays
<1> QED BY <1>1, <1>2, <1>3, <1>4 DEF Next

\* What holds of the tree between any two rounds.
THEOREM TreeInvariant == Spec => []TreeInv
<1>1. Init => TreeInv
  BY InitIsTree
<1>2. TreeInv /\ [Next]_vars => TreeInv'
  BY TreeStep
<1> QED BY <1>1, <1>2, PTL DEF Spec

\* The colors are right between calls, and wrong at one node at most in a fix-up.
THEOREM TreeIsRedBlack == Spec => []RedBlack
<1>1. TreeInv => RedBlack
  BY BlacksAreBalanced
<1> QED BY <1>1, TreeInvariant, PTL

\* The sentinel stays a black leaf, and Delete's loop finds in it where the leaf hangs.
THEOREM SentinelStaysSound == Spec => []SentinelIsSound
<1>1. TreeInv => SentinelIsSound
  BY SentinelIsLeaf
<1> QED BY <1>1, TreeInvariant, PTL

-----------------------------------------------------------------------------
(***************************************************************************)
(* The fix-up loops climb                                                  *)
(***************************************************************************)
\* Two nodes are not under each other.
LEMMA NotBoth ==
    ASSUME NEW T, NEW u, Shape(T, u), NEW m \in Live(T), NEW k \in u[m], m \in u[k]
    PROVE  k = m
<1>1. SUFFICES ASSUME k # m PROVE FALSE
  OBVIOUS
<1> DEFINE c == Kid(T, m, Toward(k, m))
<1>2. k \in Live(T) /\ k \in u[c] /\ Toward(k, m) \in Sides
  BY <1>1, Under, TowardIs, LiveAre
<1>3. c \in Live(T) /\ m \notin u[c]
  BY <1>2, Under
<1>4. u[k] \subseteq u[c]
  BY <1>2, <1>3, Nested
<1> QED BY <1>3, <1>4

\* What the root has, and a child has whenever its parent does, all nodes have.
LEMMA TopDown ==
    ASSUME NEW T, NEW u, Shape(T, u), NEW G,
           Root(T) # Sentinel => Root(T) \in G,
           \A c \in Live(T) : Par(T, c) # Sentinel /\ Par(T, c) \in G => c \in G
    PROVE  Live(T) \subseteq G
<1> DEFINE B == {k \in Live(T) : k \in G /\ \E m \in u[k] : m \notin G}
<1>1. ASSUME NEW k \in B, \A s \in Sides : Kid(T, k, s) \notin B PROVE FALSE
  <2>1. PICK m \in u[k] : m \notin G
    OBVIOUS
  <2>2. k \in Live(T) /\ k \in G /\ m # k
    BY <2>1
  <2> DEFINE s == Toward(m, k)
             c == Kid(T, k, s)
  <2>3. m \in Live(T) /\ m \in u[c]
    BY <2>1, <2>2, Under
  <2>4. s \in Sides
    BY <2>2, <2>3, TowardIs, LiveAre
  <2>5. c \in Live(T) /\ Par(T, c) = k /\ k # Sentinel
    BY <2>2, <2>3, <2>4, Under, SideOfChild, LiveAre
  <2> HIDE DEF s, c
  <2>6. c \in B
    BY <2>1, <2>2, <2>3, <2>5
  <2> QED BY <1>1, <2>4, <2>6 DEF c
<1>2. B = {}
  <2>1. B \in SUBSET Live(T)
    OBVIOUS
  <2> HIDE DEF B
  <2> QED BY <1>1, <2>1, Lowest
<1>3. CASE Live(T) = {}
  BY <1>3
<1>4. CASE Live(T) # {}
  <2>1. Root(T) \in Live(T) /\ u[Root(T)] = Live(T) /\ Root(T) # Sentinel
    BY <1>4, LiveAre DEF Shape
  <2> QED BY <1>2, <2>1
<1> QED BY <1>3, <1>4

\* The nodes that a node is under, itself included.
Above(T, u, n) == {m \in Live(T) : n \in u[m]}

LEMMA AboveIs ==
    ASSUME NEW T, NEW u, Shape(T, u), NEW n \in Live(T)
    PROVE  LET count(m) == Cardinality(Above(T, u, m))
           IN  /\ count(n) \in Nat
               /\ Par(T, n) = Sentinel => count(n) = 1
               /\ Par(T, n) # Sentinel => Par(T, n) \in Live(T) /\ count(n) = 1 + count(Par(T, n))
<1> DEFINE p == Par(T, n)
<1>1. n \in u[n] /\ Above(T, u, n) \subseteq Live(T)
  BY Under DEF Above
<1>2. \A X \in SUBSET Live(T) : IsFiniteSet(X) /\ Cardinality(X) \in Nat
  BY LiveCount, FS_Subset, FS_CardinalityType
<1>3. ASSUME p = Sentinel PROVE Cardinality(Above(T, u, n)) = 1
  <2>1. n = Root(T)
    BY <1>3 DEF Shape, LinksOf
  <2>2. ASSUME NEW m \in Live(T), n \in u[m], m # n PROVE FALSE
    <3>1. m \in u[n]
      BY <2>1 DEF Shape
    <3> QED BY <2>2, <3>1, NotBoth
  <2>3. Above(T, u, n) = {n}
    BY <1>1, <2>2 DEF Above
  <2> QED BY <2>3, FS_Singleton
<1>4. ASSUME p # Sentinel PROVE p \in Live(T) /\ Cardinality(Above(T, u, n)) = 1 + Cardinality(Above(T, u, p))
  <2> DEFINE s == SideOf(T, n)
  <2>1. p \in Live(T) /\ Kid(T, p, s) = n /\ s \in Sides /\ n # Sentinel
    BY <1>4, OnlyParent, LiveAre
  <2>2. u[n] \subseteq u[p] /\ p \notin u[n] /\ p \in u[p]
    BY <2>1, Under
  <2>3. \A m \in Live(T) : n \in u[m] /\ m # n => p \in u[m]
    BY Nested
  <2>4. \A m \in Live(T) : p \in u[m] => n \in u[m]
    BY <1>1, <2>1, <2>2, Nested
  <2> HIDE DEF p, s
  <2>5. Above(T, u, n) = Above(T, u, p) \union {n} /\ n \notin Above(T, u, p)
    BY <1>1, <2>2, <2>3, <2>4 DEF Above
  <2>6. Above(T, u, p) \in SUBSET Live(T)
    BY DEF Above
  <2>7. Cardinality(Above(T, u, n)) = Cardinality(Above(T, u, p)) + 1
    BY <1>2, <2>5, <2>6, FS_AddElement
  <2> QED BY <1>2, <2>1, <2>6, <2>7
<1> QED BY <1>1, <1>2, <1>3, <1>4

LEMMA DepthIs ==
    ASSUME NEW u, Shape(tree, u), Par(tree, Sentinel) \in Members(tree)
    PROVE  /\ \A n \in Members(tree) :
                 Depth(n) = IF Par(tree, n) = Sentinel THEN 0 ELSE 1 + Depth(Par(tree, n))
           /\ \A n \in Live(tree) : Depth(n) \in Nat
<1> DEFINE IsUp(f) == f = [m \in Members(tree) |->
                             IF Par(tree, m) = Sentinel THEN 0 ELSE 1 + f[Par(tree, m)]]
           F == CHOOSE f : IsUp(f)
           count(m) == Cardinality(Above(tree, u, m)) - 1
           g == [m \in Members(tree) |->
                   IF m # Sentinel THEN count(m)
                   ELSE IF Par(tree, m) = Sentinel THEN 0 ELSE 1 + count(Par(tree, m))]
<1>1. /\ \A m \in Members(tree) : Par(tree, m) \in Members(tree) /\ (m # Sentinel <=> m \in Live(tree))
      /\ Sentinel \in Members(tree)
  BY LiveAre DEF Shape, LinksOf
<1>2. \A m \in Live(tree) : /\ count(m) \in Int
                            /\ count(m) = IF Par(tree, m) = Sentinel THEN 0 ELSE 1 + count(Par(tree, m))
  <2>1. \A m \in Live(tree) : Par(tree, m) # Sentinel => Par(tree, m) \in Live(tree)
    BY <1>1, OnlyParent
  <2>2. \A m \in Live(tree) : Cardinality(Above(tree, u, m)) \in Nat
    BY AboveIs
  <2> QED BY <2>1, <2>2, AboveIs
<1> HIDE DEF count
<1>3. \A m \in Members(tree) :
         g[m] = IF Par(tree, m) = Sentinel THEN 0 ELSE 1 + g[Par(tree, m)]
  BY <1>1, <1>2
<1>4. IsUp(g)
  <2>1. g = [m \in Members(tree) |-> g[m]]
    OBVIOUS
  <2> HIDE DEF g
  <2> QED BY <1>3, <2>1
<1>5. IsUp(F)
  BY <1>4
<1>6. \A n : Depth(n) = F[n]
  BY Zenon DEF Depth, Par
<1>7. \A m \in Members(tree) : F[m] = IF Par(tree, m) = Sentinel THEN 0 ELSE 1 + F[Par(tree, m)]
  BY <1>5
<1> HIDE DEF F
<1> DEFINE G == {k \in Live(tree) : F[k] \in Nat}
<1>8. Root(tree) # Sentinel => Root(tree) \in G
  <2>1. Root(tree) # Sentinel => Root(tree) \in Live(tree) /\ Par(tree, Root(tree)) = Sentinel
    BY <1>1 DEF Shape
  <2>2. Root(tree) # Sentinel => F[Root(tree)] = 0
    <3>1. Root(tree) \in Members(tree)
      BY DEF Shape
    <3> QED BY <1>7, <2>1, <3>1
  <2> QED BY <2>1, <2>2
<1>9. ASSUME NEW c \in Live(tree), Par(tree, c) # Sentinel, Par(tree, c) \in G PROVE c \in G
  <2>1. F[c] = 1 + F[Par(tree, c)] /\ F[Par(tree, c)] \in Nat
    <3>1. c \in Members(tree)
      BY LiveAre
    <3> QED BY <1>7, <1>9, <3>1
  <2> QED BY <2>1
<1>10. Live(tree) \subseteq G
  <2> HIDE DEF G
  <2> QED BY <1>8, <1>9, TopDown
<1> QED BY <1>6, <1>7, <1>10

LEMMA SameDepth ==
    ASSUME tree \in Trees, SameLinks(tree, tree')
    PROVE  \A n : Depth(n)' = Depth(n)
<1>1. \A n \in Nodes : Par(tree', n) = Par(tree, n)
  BY DEF SameLinks
<1>2. tree'.parent = tree.parent
  <2>1. tree'.parent \in [Nodes -> Pointers] /\ tree.parent \in [Nodes -> Pointers]
    BY TreeParts DEF SameLinks
  <2> QED BY <1>1, <2>1 DEF Par
<1>3. Members(tree') = Members(tree)
  BY <1>2 DEF Members, Live
<1> QED BY <1>2, <1>3 DEF Depth

LEMMA RoundClimbs ==
    ASSUME TreeInv, FixUp, pc' = pc
    PROVE  Depth(at)' < Depth(at) \/ ~(RedParent \/ DoublyBlack)'
<1>1. PICK u : Shape(tree, u)
  BY DEF TreeInv
<1>2. tree \in Trees
  BY <1>1 DEF Shape
<1>3. CASE InsertRecolor
  <2>1. /\ pc = "insert" /\ at' = Grand
        /\ Parent = Par(tree, at) /\ Grand = Par(tree, Parent)
        /\ Color(tree, Parent) = "red" /\ Color(tree, Uncle) = "red"
        /\ Uncle = Kid(tree, Grand, Other(SideOf(tree, Parent)))
        /\ tree' = Dye(Dye(Dye(tree, Parent, "black"), Uncle, "black"), Grand, "red")
    BY <1>3 DEF InsertRecolor, RedParent, Parent, Grand, Uncle, Par, Kid, Color
  <2>2. PICK b : Inserting(tree, b, at)
    BY <2>1 DEF TreeInv
  <2>3. Parent \in Live(tree) /\ Grand \in Live(tree) /\ at \in Live(tree)
    BY <1>1, <2>1, <2>2, RedParentIs DEF Inserting
  <2>4. SameLinks(tree, tree')
    BY <1>1, <2>1, <2>2, RecolorKeeps
  <2>5. Par(tree, Sentinel) \in Members(tree)
    BY <2>1 DEF TreeInv
  <2>6. Depth(at) = 1 + Depth(Parent) /\ Depth(Parent) = 1 + Depth(Grand) /\ Depth(Grand) \in Nat
    BY <1>1, <2>1, <2>3, <2>5, DepthIs, LiveAre
  <2>7. Depth(at)' = Depth(Grand)
    <3>1. \A n : Depth(n)' = Depth(n)
      BY <1>2, <2>4, SameDepth
    <3> QED BY <2>1, <3>1
  <2> QED BY <2>6, <2>7
<1>4. CASE InsertRotate
  <2>1. ~RedParent' /\ pc = "insert"
    BY <1>4, InsertRotateKeepsTree DEF InsertRotate, RedParent
  <2> QED BY <2>1 DEF DoublyBlack
<1>5. CASE DeletePush
  <2>1. /\ pc = "delete" /\ at' = Parent /\ DoublyBlack
        /\ WithBlackSibling = tree \/ ~DoublyBlack'
        /\ WithBlackSibling = tree => SameLinks(tree, tree')
    BY <1>5, DeletePushKeepsTree DEF DeletePush, DoublyBlack
  <2>2. ~RedParent'
    BY <2>1 DEF RedParent
  <2>3. CASE WithBlackSibling = tree
    <3>1. SameLinks(tree, tree')
      BY <2>1, <2>3
    <3>2. /\ Parent = Par(tree, at) /\ Parent \in Live(tree) /\ at \in Members(tree)
          /\ Par(tree, Sentinel) \in Members(tree)
      BY <2>1 DEF TreeInv, Deleting, DoublyBlack, Parent, Par, Color, Root
    <3>3. Depth(at) = 1 + Depth(Parent) /\ Depth(Parent) \in Nat
      BY <1>1, <3>2, DepthIs, LiveAre
    <3>4. Depth(at)' = Depth(Parent)
      <4>1. \A n : Depth(n)' = Depth(n)
        BY <1>2, <3>1, SameDepth
      <4> QED BY <2>1, <4>1
    <3> QED BY <3>3, <3>4
  <2>4. CASE ~DoublyBlack'
    BY <2>2, <2>4
  <2> QED BY <2>1, <2>3, <2>4
<1>6. CASE DeleteRotate
  <2>1. ~DoublyBlack' /\ pc = "delete"
    BY <1>6, DeleteRotateKeepsTree DEF DeleteRotate, DoublyBlack
  <2> QED BY <2>1 DEF RedParent
<1>7. CASE InsertEnd \/ DeleteEnd
  BY <1>7 DEF InsertEnd, DeleteEnd
<1> QED BY <1>3, <1>4, <1>5, <1>6, <1>7 DEF FixUp, InsertFixUp, DeleteFixUp

\* Every round of a loop brings the node nearer to the root, or is the last: the loops end.
THEOREM FixUpsClimb == Spec => FixUpClimbs
<1> DEFINE Climb == pc # "idle" /\ pc' = pc =>
                       Depth(at)' < Depth(at) \/ ~(RedParent \/ DoublyBlack)'
<1>1. ASSUME TreeInv, Next, pc # "idle", pc' = pc
      PROVE  Depth(at)' < Depth(at) \/ ~(RedParent \/ DoublyBlack)'
  <2>1. FixUp
    BY <1>1 DEF Next, Clear, Insert, Delete
  <2> QED BY <1>1, <2>1, RoundClimbs
<1>2. TreeInv /\ [Next]_vars => [Climb]_vars
  BY <1>1
<1> QED BY <1>2, TreeInvariant, PTL DEF Spec, FixUpClimbs

-----------------------------------------------------------------------------
(***************************************************************************)
(* The iterators                                                           *)
(***************************************************************************)
\* What lies on side s of n, and which of it comes next.
Beyond(T, n, s) == {m \in Live(T) : m # n /\ Toward(m, n) = s}

IsNext(T, n, s, m) ==
    IF Beyond(T, n, s) = {} THEN m = Sentinel
    ELSE m \in Beyond(T, n, s) /\ \A x \in Beyond(T, n, s) : x # m => Toward(x, m) = s

\* All that is under n lies on the same side of a node that is not.
LEMMA Together ==
    ASSUME NEW T, NEW u, Shape(T, u), NEW n \in Live(T), NEW x \in Live(T), x \notin u[n],
           NEW a \in u[n], NEW b \in u[n]
    PROVE  Toward(a, x) = Toward(b, x)
<1> DEFINE B == {k \in Live(T) : x \in u[k] /\ n \in u[k]}
<1>1. B # {}
  <2>1. Root(T) \in Live(T) /\ u[Root(T)] = Live(T)
    BY LiveAre DEF Shape
  <2> QED BY <2>1
<1>2. PICK k \in B : \A s \in Sides : Kid(T, k, s) \notin B
  <2>1. B \in SUBSET Live(T)
    OBVIOUS
  <2> HIDE DEF B
  <2> QED BY <1>1, <2>1, Lowest
<1>3. k \in Live(T) /\ x \in u[k] /\ n \in u[k] /\ n \in u[n] /\ n \in Keys /\ x \in Keys /\ k \in Keys
  BY Under, LiveAre
<1>4. k # n
  BY <1>3
<1> DEFINE t == Toward(n, k)
           c == Kid(T, k, t)
<1>5. t \in Sides /\ n \in u[c] /\ c \in Live(T)
  BY <1>3, <1>4, Under, TowardIs
<1>6. u[n] \subseteq u[c]
  BY <1>5, Nested
<1>7. \A m \in u[n] : Toward(m, k) = t /\ m \in Keys /\ m # k
  BY <1>3, <1>5, <1>6, Under, LiveAre
<1>8. CASE k = x
  BY <1>7, <1>8
<1>9. CASE k # x
  <2>1. x \in u[Kid(T, k, Toward(x, k))] /\ Toward(x, k) \in Sides
    BY <1>3, <1>9, Under, TowardIs
  <2>2. Kid(T, k, Toward(x, k)) \in Live(T)
    BY <1>3, <2>1, Under
  <2>3. Toward(x, k) # t
    BY <1>2, <1>5, <2>1, <2>2
  <2>4. Toward(k, x) = t
    BY <1>3, <1>5, <1>9, <2>1, <2>3, TowardIs, SidesAre
  <2>5. \A m \in u[n] : Toward(m, x) = t
    BY <1>3, <1>5, <1>7, <1>9, <2>4, TowardTransitive
  <2> QED BY <2>5
<1> QED BY <1>8, <1>9

\* Of some keys, one has all others on a side of it.
LEMMA FirstOf ==
    ASSUME NEW B \in SUBSET Keys, B # {}, NEW s \in Sides
    PROVE  \E n \in B : \A m \in B : m # n => Toward(m, n) = s
<1> DEFINE Behind(n) == {m \in B : m # n /\ Toward(m, n) = Other(s)}
           size(n) == Cardinality(Behind(n))
           Z == {size(n) : n \in B}
<1>1. IsFiniteSet(B)
  BY Names, FS_Subset
<1>2. \A n \in B : IsFiniteSet(Behind(n)) /\ size(n) \in Nat
  <2>1. \A n \in B : Behind(n) \in SUBSET B
    OBVIOUS
  <2> HIDE DEF Behind
  <2> QED BY <1>1, <2>1, FS_Subset, FS_CardinalityType
<1> HIDE DEF Behind
<1>3. Z \subseteq Nat /\ Z # {}
  BY <1>2
<1>4. PICK x \in Z : \A y \in Z : ~(<<y, x>> \in OpToRel(<, Nat))
  BY <1>3, NatLessThanWellFounded, WFMin
<1>5. PICK n \in B : x = size(n)
  OBVIOUS
<1>6. ASSUME NEW m \in B, m # n, Toward(m, n) # s PROVE FALSE
  <2>1. m \in Keys /\ n \in Keys /\ Toward(m, n) = Other(s) /\ Toward(n, m) = s
    BY <1>6, TowardIs, SidesAre
  <2>2. m \in Behind(n) /\ m \notin Behind(m) /\ n \notin Behind(m)
    BY <1>6, <2>1, SidesAre DEF Behind
  <2>3. Behind(m) \subseteq Behind(n)
    <3>1. ASSUME NEW k \in Behind(m) PROVE k \in Behind(n)
      <4>1. k \in B /\ k # m /\ Toward(k, m) = Other(s) /\ k \in Keys
        BY DEF Behind
      <4>2. k # n /\ Toward(k, n) = Other(s)
        BY <1>6, <2>1, <4>1, TowardTransitive, SidesAre
      <4> QED BY <4>1, <4>2 DEF Behind
    <3> QED BY <3>1
  <2>4. size(m) <= size(n) /\ size(m) # size(n)
    BY <1>2, <2>2, <2>3, FS_Subset
  <2>5. ~(size(m) < size(n))
    <3>1. size(m) \in Z /\ size(n) \in Z
      OBVIOUS
    <3> QED BY <1>3, <1>4, <1>5, <3>1 DEF OpToRel
  <2> QED BY <1>2, <2>4, <2>5
<1> QED BY <1>6

\* Where the loop of ++ stops that climbs from n as long as it comes from side s.
Climbed(T, n, s) ==
    LET Climb[m \in Live(T)] ==
          LET p == T.parent[m] IN
          IF p # Sentinel /\ m = T.kid[p][s] THEN Climb[p] ELSE m
    IN  Climb[n]

ChildOn(T, m, s) == Par(T, m) # Sentinel /\ m = Kid(T, Par(T, m), s)

\* q is above n, all between them are children on side s, and q is none.
Rises(T, u, s, n, q) ==
    /\ q \in Live(T) /\ n \in u[q] /\ ~ChildOn(T, q, s)
    /\ \A k \in u[q] : n \in u[k] /\ k # q => ChildOn(T, k, s)

LEMMA ClimbEnds ==
    ASSUME NEW T, NEW u, Shape(T, u), NEW n \in Live(T), NEW s \in Sides
    PROVE  Rises(T, u, s, n, Climbed(T, n, s))
<1> DEFINE IsClimb(f) == f = [m \in Live(T) |-> IF ChildOn(T, m, s) THEN f[Par(T, m)] ELSE m]
           F == CHOOSE f : IsClimb(f)
           E(m, q) == Rises(T, u, s, m, q)
           g == [m \in Live(T) |-> CHOOSE q : E(m, q)]
<1>1. ASSUME NEW m \in Live(T), ~ChildOn(T, m, s), NEW q PROVE E(m, q) <=> q = m
  <2>1. m \in u[m]
    BY Under
  <2>2. \A k \in u[m] : m \in u[k] => k = m
    BY NotBoth
  <2> QED BY <1>1, <2>1, <2>2 DEF Rises
<1>2. ASSUME NEW m \in Live(T), ChildOn(T, m, s), NEW q
      PROVE  Par(T, m) \in Live(T) /\ (E(m, q) <=> E(Par(T, m), q))
  <2> DEFINE p == Par(T, m)
  <2>1. p \in Live(T) /\ m \in u[p]
    <3>1. p \in Live(T) /\ m = Kid(T, p, s) /\ m # Sentinel
      BY <1>2, OnlyParent, LiveAre DEF ChildOn
    <3>2. m \in u[m] /\ u[m] \subseteq u[p]
      BY <3>1, Under
    <3> QED BY <3>1, <3>2
  <2>2. ASSUME E(m, q) PROVE E(p, q)
    <3>1. q \in Live(T) /\ m \in u[q] /\ m # q
      BY <1>2, <2>2 DEF Rises
    <3>2. p \in u[q]
      BY <3>1, Nested
    <3>3. ASSUME NEW k \in u[q], p \in u[k] PROVE m \in u[k]
      <4>1. k \in Live(T)
        BY <3>1, Under
      <4> QED BY <2>1, <3>3, <4>1, Nested
    <3> QED BY <2>2, <3>1, <3>2, <3>3 DEF Rises
  <2>3. ASSUME E(p, q) PROVE E(m, q)
    <3>1. q \in Live(T) /\ p \in u[q] /\ u[p] \subseteq u[q] /\ m \in u[q]
      BY <2>1, <2>3, Nested DEF Rises
    <3>2. ASSUME NEW k \in u[q], m \in u[k], k # m PROVE p \in u[k]
      <4>1. k \in Live(T)
        BY <3>1, Under
      <4> QED BY <3>2, <4>1, Nested
    <3> QED BY <1>2, <2>3, <3>1, <3>2 DEF Rises
  <2> QED BY <2>1, <2>2, <2>3
<1>3. ASSUME NEW m \in Live(T), ChildOn(T, m, s) PROVE g[m] = g[Par(T, m)]
  <2>1. Par(T, m) \in Live(T) /\ \A q : E(m, q) <=> E(Par(T, m), q)
    BY <1>2, <1>3
  <2>2. (CHOOSE q : E(m, q)) = (CHOOSE q : E(Par(T, m), q))
    BY <2>1
  <2> QED BY <2>1, <2>2
<1>4. ASSUME NEW m \in Live(T), ~ChildOn(T, m, s) PROVE g[m] = m
  BY <1>1, <1>4
<1>5. IsClimb(g)
  <2>1. g = [m \in Live(T) |-> g[m]]
    OBVIOUS
  <2> HIDE DEF g
  <2> QED BY <1>3, <1>4, <2>1
<1>6. IsClimb(F)
  BY <1>5
<1>7. Climbed(T, n, s) = F[n]
  BY Zenon DEF Climbed, ChildOn, Kid, Par
<1>8. \A m \in Live(T) : F[m] = IF ChildOn(T, m, s) THEN F[Par(T, m)] ELSE m
  BY <1>6
<1> HIDE DEF F
<1> DEFINE G == {m \in Live(T) : E(m, F[m])}
<1>9. ASSUME NEW m \in Live(T), ~ChildOn(T, m, s) PROVE m \in G
  BY <1>1, <1>8, <1>9
<1>10. ASSUME NEW m \in Live(T), Par(T, m) \in G PROVE m \in G
  BY <1>2, <1>8, <1>9, <1>10
<1>11. Root(T) # Sentinel => Root(T) \in G
  <2>1. Root(T) # Sentinel => Root(T) \in Live(T) /\ Par(T, Root(T)) = Sentinel
    BY LiveAre DEF Shape
  <2> QED BY <1>9, <2>1 DEF ChildOn
<1>12. Live(T) \subseteq G
  <2> HIDE DEF G
  <2> QED BY <1>10, <1>11, TopDown
<1> QED BY <1>7, <1>12

\* ++ and -- go to the next node of their side, or to the end.
LEMMA AdvanceIs ==
    ASSUME NEW T, NEW u, Shape(T, u), NEW n \in Live(T), NEW s \in Sides
    PROVE  IsNext(T, n, s, Advance(T, n, s))
<1> DEFINE c == Kid(T, n, s)
           q == Climbed(T, n, s)
           p == Par(T, q)
<1>1. Advance(T, n, s) = IF c # Sentinel THEN Outermost(T, c, Other(s))
                         ELSE IF p # Sentinel /\ q # Kid(T, p, Other(s)) THEN q ELSE p
  BY Zenon DEF Advance, Climbed, Kid, Par
<1>2. n \in Keys /\ \A m \in Live(T) : m \in Keys /\ Toward(m, n) \in Sides
  BY LiveAre, TowardIs
<1>3. CASE c # Sentinel
  <2> DEFINE r == Outermost(T, c, Other(s))
             way == [m \in Nodes |-> Other(s)]
  <2>1. c \in Live(T) /\ way \in [Nodes -> Sides] /\ Other(s) \in Sides
    BY <1>3, Under, SidesAre
  <2>2. Ends(T, u, c, way, r)
    BY <2>1, DownEnds DEF Outermost
  <2>3. r \in u[c] /\ r \in Live(T) /\ r \in u[n] /\ r # n /\ Toward(r, n) = s /\ r \in Keys
    BY <1>2, <2>2, Under DEF Ends
  <2>4. \A m \in u[c] : m # r => Toward(m, r) = s
    <3> HIDE DEF c, r
    <3>1. \A m \in Nodes : way[m] = Other(s)
      OBVIOUS
    <3> HIDE DEF way
    <3>2. \A m \in u[c] : m # r => Toward(m, r) = Other(Other(s))
      BY <2>1, <2>2, <3>1, EndIsOutermost
    <3> QED BY <3>2, SidesAre
  <2>5. ASSUME NEW x \in Live(T), x # n, x # r, Toward(x, n) = s PROVE Toward(x, r) = s
    <3>1. CASE x \in u[n]
      BY <2>4, <2>5, <3>1, Under
    <3>2. CASE x \notin u[n]
      <4>1. Toward(r, x) = Toward(n, x)
        BY <2>3, <3>2, Together, Under
      <4>2. Toward(n, x) = Other(s)
        BY <1>2, <2>5, TowardIs
      <4> QED BY <1>2, <2>3, <2>5, <4>1, <4>2, TowardIs, SidesAre
    <3> QED BY <3>1, <3>2
  <2> QED BY <1>1, <1>3, <2>3, <2>5 DEF IsNext, Beyond
<1>4. CASE c = Sentinel
  <2>1. Rises(T, u, s, n, q)
    BY ClimbEnds
  <2>2. q \in Live(T) /\ n \in u[q]
    BY <2>1 DEF Rises
  <2> DEFINE way == [m \in Nodes |-> s]
  <2>3. Ends(T, u, q, way, n)
    <3>1. ASSUME NEW m \in u[q], NEW t \in Sides, n \in u[Kid(T, m, t)] PROVE t = s
      <4> DEFINE d == Kid(T, m, t)
      <4>1. m \in Live(T) /\ d \in Live(T) /\ d \in u[m] /\ m \notin u[d] /\ Par(T, d) = m /\ d \in u[d]
        BY <2>2, <3>1, Under, SideOfChild, LiveAre
      <4>2. d \in u[q] /\ d # q
        BY <2>2, <4>1, Nested
      <4>3. ChildOn(T, d, s)
        BY <2>1, <3>1, <4>2 DEF Rises
      <4>4. Kid(T, m, s) = d
        BY <4>1, <4>3 DEF ChildOn
      <4>5. t # s => t = Other(s) /\ d \notin u[Kid(T, m, Other(s))]
        BY <4>1, <4>4, Under, SidesAre
      <4> QED BY <4>1, <4>5
    <3>2. n \in Nodes /\ \A m \in u[q] : m \in Nodes
      BY <1>2, <2>2, Under, LiveAre, Names
    <3> QED BY <1>4, <2>2, <3>1, <3>2 DEF Ends
  <2>4. \A m \in u[q] : m # n => Toward(m, n) = Other(s)
    <3>1. \A m \in Nodes : way[m] = s
      OBVIOUS
    <3> HIDE DEF c, q, p, way
    <3> QED BY <2>2, <2>3, <3>1, EndIsOutermost
  <2>5. \A x \in Beyond(T, n, s) : x \in Live(T) /\ x # n /\ Toward(x, n) = s /\ x \notin u[q] /\ x \in Keys
    BY <1>2, <2>4, SidesAre DEF Beyond
  <2>6. CASE p = Sentinel
    <3>1. u[q] = Live(T)
      BY <2>2, <2>6 DEF Shape, LinksOf
    <3>2. Beyond(T, n, s) = {}
      BY <2>5, <3>1
    <3> QED BY <1>1, <1>4, <2>6, <3>2 DEF IsNext
  <2>7. CASE p # Sentinel
    <3>1. p \in Live(T) /\ Kid(T, p, SideOf(T, q)) = q /\ SideOf(T, q) \in Sides
      BY <2>2, <2>7, OnlyParent
    <3>2. Kid(T, p, Other(s)) = q
      BY <2>1, <2>7, <3>1, SidesAre DEF Rises, ChildOn
    <3>3. Advance(T, n, s) = p
      BY <1>1, <1>4, <3>2
    <3>4. n # p /\ Toward(n, p) = Other(s) /\ n \in u[p] /\ p \in u[p]
      BY <2>2, <3>1, <3>2, Under, SidesAre
    <3>5. p \in Beyond(T, n, s)
      BY <1>2, <3>1, <3>4, TowardIs, SidesAre DEF Beyond
    <3>6. ASSUME NEW x \in Beyond(T, n, s), x # p PROVE Toward(x, p) = s
      <4>1. x \in Live(T) /\ x # n /\ Toward(x, n) = s /\ x \notin u[q] /\ x \in Keys /\ p \in Keys
        BY <1>2, <2>5, <3>1
      <4>2. CASE x \in u[p]
        <5>1. x \in u[Kid(T, p, Toward(x, p))] /\ Toward(x, p) \in Sides
          BY <3>1, <3>6, <4>1, <4>2, Under, TowardIs
        <5> QED BY <3>2, <4>1, <5>1, SidesAre
      <4>3. CASE x \notin u[p]
        <5>1. Toward(n, x) = Toward(p, x)
          BY <3>1, <3>4, <4>1, <4>3, Together
        <5> QED BY <1>2, <3>6, <4>1, <5>1, TowardIs, SidesAre
      <4> QED BY <4>2, <4>3
    <3> QED BY <3>3, <3>5, <3>6 DEF IsNext
  <2> QED BY <2>6, <2>7
<1> QED BY <1>3, <1>4

\* Each element lies on side s of those before it.
InLine(v, s) == \A i, j \in DOMAIN v : i < j => v[j] # v[i] /\ Toward(v[j], v[i]) = s

\* The keys of a set can be lined up to a side in one way only.
LEMMA SameLine ==
    ASSUME NEW s \in Sides, NEW v \in Seq(Keys), NEW w \in Seq(Keys),
           Len(v) = Len(w), ToSet(v) = ToSet(w), InLine(v, s), InLine(w, s)
    PROVE  v = w
<1> DEFINE L == Len(v)
           D == {i \in 1 .. L : v[i] # w[i]}
<1>1. /\ L \in Nat /\ DOMAIN v = 1 .. L /\ DOMAIN w = 1 .. L
      /\ \A i \in 1 .. L : v[i] \in Keys /\ w[i] \in Keys
  BY LenProperties
<1>2. ASSUME D # {} PROVE FALSE
  <2>1. D \subseteq Nat
    BY <1>1
  <2>2. PICK i \in D : \A j \in D : ~(<<j, i>> \in OpToRel(<, Nat))
    BY <1>2, <2>1, NatLessThanWellFounded, WFMin
  <2>3. i \in 1 .. L /\ v[i] # w[i] /\ \A j \in 1 .. L : j < i => v[j] = w[j]
    BY <1>1, <2>1, <2>2 DEF OpToRel
  <2>4. PICK j \in 1 .. L : v[i] = w[j]
    BY <1>1, <2>3 DEF ToSet
  <2>5. PICK k \in 1 .. L : w[i] = v[k]
    BY <1>1, <2>3 DEF ToSet
  <2>6. i < j
    BY <1>1, <2>3, <2>4 DEF InLine
  <2>7. i < k
    BY <1>1, <2>3, <2>5 DEF InLine
  <2>8. Toward(v[i], w[i]) = s /\ Toward(w[i], v[i]) = s
    BY <1>1, <2>3, <2>4, <2>5, <2>6, <2>7 DEF InLine
  <2> QED BY <1>1, <2>3, <2>8, TowardIs, SidesAre
<1> QED BY <1>1, <1>2, SeqEqual

\* v is n and what is beyond it, in order.
From(T, s, n, v) ==
    /\ v \in Seq(Keys) /\ InLine(v, s)
    /\ ToSet(v) = {n} \union Beyond(T, n, s)
    /\ Len(v) = 1 + Cardinality(Beyond(T, n, s))

LEMMA FromIsUnique ==
    ASSUME NEW T, NEW s \in Sides, NEW n, NEW v, NEW w, From(T, s, n, v), From(T, s, n, w)
    PROVE  v = w
BY SameLine DEF From

\* n is in front of what comes from the next node on.
LEMMA FromNext ==
    ASSUME NEW T, NEW n \in Live(T), NEW s \in Sides, NEW a, IsNext(T, n, s, a), NEW v,
           IF a = Sentinel THEN v = << >> ELSE From(T, s, a, v)
    PROVE  From(T, s, n, <<n>> \o v)
<1> DEFINE w == <<n>> \o v
           W == Beyond(T, n, s)
<1>1. n \in Keys /\ Live(T) \subseteq Keys /\ Sentinel \notin Live(T) /\ W \subseteq Live(T)
  BY LiveAre DEF Beyond
<1>2. \A X \in SUBSET Live(T) : IsFiniteSet(X) /\ Cardinality(X) \in Nat
  BY LiveCount, FS_Subset, FS_CardinalityType
<1>3. v \in Seq(Keys) /\ InLine(v, s) /\ ToSet(v) = W /\ Len(v) = Cardinality(W)
  <2>1. CASE W = {}
    <3>1. v = << >>
      BY <2>1 DEF IsNext
    <3>2. v \in Seq(Keys) /\ Len(v) = 0 /\ DOMAIN v = {}
      BY <3>1
    <3> QED BY <2>1, <3>2, FS_EmptySet DEF InLine, ToSet
  <2>2. CASE W # {}
    <3> DEFINE A == Beyond(T, a, s)
    <3>1. a \in W /\ a \in Live(T) /\ a # n /\ Toward(a, n) = s /\ a # Sentinel /\ a \in Keys
          /\ \A x \in W : x # a => Toward(x, a) = s
      BY <1>1, <2>2 DEF IsNext, Beyond
    <3>2. From(T, s, a, v)
      BY <3>1
    <3>3. ASSUME NEW x \in A PROVE x \in W
      <4>1. x \in Live(T) /\ x # a /\ Toward(x, a) = s /\ x \in Keys
        BY <1>1 DEF Beyond
      <4>2. x # n /\ Toward(x, n) = s
        BY <1>1, <3>1, <4>1, TowardTransitive
      <4> QED BY <4>1, <4>2 DEF Beyond
    <3>4. W = A \union {a} /\ a \notin A /\ A \in SUBSET Live(T)
      BY <1>1, <3>1, <3>3 DEF Beyond
    <3> HIDE DEF A, W
    <3>5. Cardinality(W) = 1 + Cardinality(A)
      BY <1>2, <3>4, FS_AddElement
    <3> QED BY <3>2, <3>4, <3>5 DEF From, A
  <2> QED BY <2>1, <2>2
<1>4. <<n>> \in Seq(Keys) /\ Len(<<n>>) = 1 /\ <<n>>[1] = n
  BY <1>1
<1>5. Len(v) \in Nat /\ DOMAIN v = 1 .. Len(v)
  BY <1>3, LenProperties
<1>6. /\ w \in Seq(Keys) /\ Len(w) = 1 + Len(v)
      /\ \A i \in 1 .. 1 + Len(v) : w[i] = IF i <= 1 THEN <<n>>[i] ELSE v[i - 1]
  <2> HIDE DEF W
  <2> QED BY <1>3, <1>4, ConcatProperties
<1>7. DOMAIN w = 1 .. 1 + Len(v)
  BY <1>6, LenProperties
<1>8. w[1] = n /\ \A i \in 2 .. 1 + Len(v) : w[i] = v[i - 1] /\ i - 1 \in DOMAIN v
  BY <1>4, <1>5, <1>6
<1> HIDE DEF w, W
<1>9. ToSet(w) = {n} \union W
  <2>1. \A x \in ToSet(w) : x = n \/ x \in ToSet(v)
    <3>1. ASSUME NEW i \in DOMAIN w PROVE w[i] = n \/ w[i] \in ToSet(v)
      <4>1. i = 1 \/ i \in 2 .. 1 + Len(v)
        BY <1>5, <1>7
      <4> QED BY <1>8, <4>1 DEF ToSet
    <3> QED BY <3>1 DEF ToSet
  <2>2. n \in ToSet(w)
    <3>1. 1 \in DOMAIN w
      BY <1>5, <1>7
    <3> QED BY <1>8, <3>1 DEF ToSet
  <2>3. ASSUME NEW i \in DOMAIN v PROVE v[i] \in ToSet(w)
    <3>1. i + 1 \in 2 .. 1 + Len(v) /\ i + 1 \in DOMAIN w /\ (i + 1) - 1 = i
      BY <1>5, <1>7
    <3>2. w[i + 1] = v[i]
      BY <1>8, <3>1
    <3> QED BY <3>1, <3>2 DEF ToSet
  <2> QED BY <1>3, <2>1, <2>2, <2>3 DEF ToSet
<1>10. InLine(w, s)
  <2>1. ASSUME NEW i \in DOMAIN w, NEW j \in DOMAIN w, i < j
        PROVE  w[j] # w[i] /\ Toward(w[j], w[i]) = s
    <3>1. j \in 2 .. 1 + Len(v) /\ w[j] = v[j - 1] /\ j - 1 \in DOMAIN v
      BY <1>5, <1>7, <1>8, <2>1
    <3>2. CASE i = 1
      <4>1. w[j] \in W
        BY <1>3, <3>1 DEF ToSet
      <4> QED BY <1>8, <3>2, <4>1 DEF W, Beyond
    <3>3. CASE i # 1
      <4>1. i \in 2 .. 1 + Len(v) /\ w[i] = v[i - 1] /\ i - 1 \in DOMAIN v /\ i - 1 < j - 1
        BY <1>5, <1>7, <1>8, <2>1, <3>1, <3>3
      <4> QED BY <1>3, <3>1, <4>1 DEF InLine
    <3> QED BY <3>2, <3>3
  <2> QED BY <2>1 DEF InLine
<1>11. Len(w) = 1 + Cardinality(W)
  BY <1>3, <1>6
<1> QED BY <1>6, <1>9, <1>10, <1>11 DEF From, w, W

\* From Begin or ReverseBegin to End, an iterator meets every node once, in order.
LEMMA VisitedIs ==
    ASSUME NEW u, Shape(tree, u), NEW s \in Sides
    PROVE  /\ Visited(s) \in Seq(Keys) /\ InLine(Visited(s), s)
           /\ ToSet(Visited(s)) = Live(tree)
           /\ Len(Visited(s)) = Cardinality(Live(tree))
<1> DEFINE next(n) == Advance(tree, n, s)
           IsFrom(f) == f = [n \in Members(tree) |->
                               IF n = Sentinel THEN << >> ELSE <<n>> \o f[next(n)]]
           F == CHOOSE f : IsFrom(f)
           E(n, v) == From(tree, s, n, v)
           g == [n \in Members(tree) |-> IF n = Sentinel THEN << >> ELSE CHOOSE v : E(n, v)]
           begin == Outermost(tree, Root(tree), Other(s))
<1>1. /\ Live(tree) \subseteq Keys /\ Sentinel \in Members(tree)
      /\ \A n \in Members(tree) : n \in Live(tree) <=> n # Sentinel
      /\ \A n \in Live(tree) : n \in Members(tree) /\ n # Sentinel
  BY LiveAre
<1>2. ASSUME NEW n \in Live(tree)
      PROVE  /\ IsNext(tree, n, s, next(n)) /\ next(n) \in Members(tree)
             /\ next(n) # Sentinel => next(n) # n /\ Toward(next(n), n) = s
  BY <1>1, AdvanceIs DEF IsNext, Beyond
<1> HIDE DEF next
<1>3. ASSUME NEW B \in SUBSET Live(tree),
             \A n \in Live(tree) : next(n) = Sentinel \/ next(n) \notin B => n \notin B
      PROVE  B = {}
  <2>1. SUFFICES ASSUME B # {} PROVE FALSE
    OBVIOUS
  <2>2. PICK n \in B : \A m \in B : m # n => Toward(m, n) = Other(s)
    BY <1>1, <2>1, FirstOf, SidesAre
  <2>3. next(n) \in B /\ next(n) # Sentinel
    BY <1>3
  <2> QED BY <1>2, <2>2, <2>3, SidesAre
<1>4. \A n \in Live(tree) : \E v : E(n, v)
  <2> DEFINE B == {n \in Live(tree) : ~\E v : E(n, v)}
  <2>1. ASSUME NEW n \in Live(tree), next(n) = Sentinel \/ next(n) \notin B PROVE n \notin B
    <3>1. CASE next(n) = Sentinel
      BY <1>2, <3>1, FromNext
    <3>2. CASE next(n) # Sentinel
      <4>1. PICK v : E(next(n), v)
        BY <1>1, <1>2, <2>1, <3>2
      <4> QED BY <1>2, <3>2, <4>1, FromNext
    <3> QED BY <3>1, <3>2
  <2>2. B \in SUBSET Live(tree)
    OBVIOUS
  <2> HIDE DEF B
  <2>3. B = {}
    BY <1>3, <2>1, <2>2
  <2> QED BY <2>3 DEF B
<1>5. \A n \in Live(tree) : E(n, g[n])
  BY <1>1, <1>4
<1>6. g[Sentinel] = << >> /\ g = [n \in Members(tree) |-> g[n]]
  BY <1>1
<1> HIDE DEF g
<1>7. ASSUME NEW n \in Live(tree) PROVE g[n] = <<n>> \o g[next(n)]
  <2>1. E(n, <<n>> \o g[next(n)])
    BY <1>1, <1>2, <1>5, <1>6, FromNext
  <2> QED BY <1>5, <2>1, FromIsUnique
<1>8. \A n \in Members(tree) : g[n] = IF n = Sentinel THEN << >> ELSE <<n>> \o g[next(n)]
  BY <1>1, <1>6, <1>7
<1>9. IsFrom(g)
  BY <1>6, <1>8
<1>10. IsFrom(F)
  BY <1>9
<1>11. Visited(s) = F[begin]
  BY Zenon DEF Visited, Root, next
<1>12. \A n \in Members(tree) : F[n] = IF n = Sentinel THEN << >> ELSE <<n>> \o F[next(n)]
  BY <1>10
<1> HIDE DEF F
<1>13. \A n \in Live(tree) : E(n, F[n])
  <2> DEFINE B == {n \in Live(tree) : ~E(n, F[n])}
  <2>1. ASSUME NEW n \in Live(tree), next(n) = Sentinel \/ next(n) \notin B PROVE n \notin B
    <3>1. next(n) # Sentinel => E(next(n), F[next(n)])
      BY <1>1, <1>2, <2>1
    <3>2. next(n) = Sentinel => F[next(n)] = << >>
      BY <1>1, <1>12
    <3>3. F[n] = <<n>> \o F[next(n)] /\ IsNext(tree, n, s, next(n))
      BY <1>1, <1>2, <1>12
    <3>4. IF next(n) = Sentinel THEN F[next(n)] = << >> ELSE From(tree, s, next(n), F[next(n)])
      BY <3>1, <3>2
    <3>5. From(tree, s, n, <<n>> \o F[next(n)])
      BY <3>3, <3>4, FromNext
    <3> QED BY <3>3, <3>5
  <2>2. B \in SUBSET Live(tree)
    OBVIOUS
  <2> HIDE DEF B
  <2>3. B = {}
    BY <1>3, <2>1, <2>2
  <2> QED BY <2>3 DEF B
<1> DEFINE way == [m \in Nodes |-> Other(s)]
<1>14. way \in [Nodes -> Sides] /\ \A m \in Nodes : way[m] = Other(s)
  BY SidesAre
<1>15. begin = Down(tree, Root(tree), way)
  BY DEF Outermost
<1> HIDE DEF way, begin
<1>16. CASE Root(tree) = Sentinel
  <2>1. begin = Sentinel /\ Live(tree) = {}
    BY <1>14, <1>15, <1>16, NothingDown
  <2>2. Visited(s) = << >>
    BY <1>1, <1>11, <1>12, <2>1
  <2>3. Visited(s) \in Seq(Keys) /\ Len(Visited(s)) = 0 /\ DOMAIN Visited(s) = {}
    BY <2>2
  <2> QED BY <2>1, <2>3, FS_EmptySet DEF InLine, ToSet
<1>17. CASE Root(tree) # Sentinel
  <2>1. Root(tree) \in Live(tree) /\ u[Root(tree)] = Live(tree)
    BY <1>1, <1>17 DEF Shape
  <2>2. Ends(tree, u, Root(tree), way, begin)
    BY <1>14, <1>15, <2>1, DownEnds
  <2>3. begin \in Live(tree)
    BY <2>1, <2>2 DEF Ends
  <2>4. \A m \in Live(tree) : m # begin => Toward(m, begin) = Other(Other(s))
    BY <1>14, <2>1, <2>2, EndIsOutermost, SidesAre
  <2> DEFINE A == Beyond(tree, begin, s)
  <2>5. Live(tree) = {begin} \union A /\ begin \notin A /\ A \in SUBSET Live(tree)
    BY <2>3, <2>4, SidesAre DEF Beyond
  <2> HIDE DEF A
  <2>6. Cardinality(Live(tree)) = 1 + Cardinality(A)
    <3>1. IsFiniteSet(A) /\ Cardinality(A) \in Nat
      BY <2>5, LiveCount, FS_Subset, FS_CardinalityType
    <3> QED BY <2>5, <3>1, FS_AddElement
  <2> QED BY <1>11, <1>13, <2>3, <2>5, <2>6 DEF From, A
<1> QED BY <1>16, <1>17

\* -- goes the way of ++ back.
LEMMA IteratorsAgree ==
    ASSUME NEW u, Shape(tree, u)
    PROVE  Visited("left") = Reverse(Visited("right"))
<1> DEFINE up == Visited("right")
           down == Visited("left")
           back == Reverse(up)
           L == Len(up)
<1>1. /\ up \in Seq(Keys) /\ InLine(up, "right") /\ ToSet(up) = Live(tree)
      /\ down \in Seq(Keys) /\ InLine(down, "left") /\ ToSet(down) = Live(tree)
      /\ L = Cardinality(Live(tree)) /\ Len(down) = Cardinality(Live(tree))
  BY VisitedIs, SidesAre
<1> HIDE DEF up, down
<1>2. L \in Nat /\ DOMAIN up = 1 .. L /\ \A i \in 1 .. L : up[i] \in Keys
  BY <1>1, LenProperties
<1>3. back = [i \in 1 .. L |-> up[(L - i) + 1]]
  BY DEF Reverse
<1>4. \A i \in 1 .. L : (L - i) + 1 \in 1 .. L /\ (L - ((L - i) + 1)) + 1 = i
  BY <1>2
<1>5. back \in Seq(Keys) /\ Len(back) = L /\ DOMAIN back = 1 .. L
  <2>1. back \in [1 .. L -> Keys]
    BY <1>2, <1>3, <1>4
  <2>2. back \in Seq(Keys)
    BY <1>2, <2>1, SeqDef
  <2> QED BY <1>2, <2>1, <2>2, LenProperties
<1>6. \A i \in 1 .. L : back[i] = up[(L - i) + 1]
  BY <1>3
<1> HIDE DEF back
<1>7. ToSet(back) = ToSet(up)
  <2>1. \A i \in 1 .. L : \E j \in 1 .. L : back[i] = up[j]
    BY <1>4, <1>6
  <2>2. \A j \in 1 .. L : back[(L - j) + 1] = up[j]
    BY <1>4, <1>6
  <2>3. \A x \in ToSet(back) : x \in ToSet(up)
    BY <1>2, <1>5, <2>1 DEF ToSet
  <2>4. \A j \in 1 .. L : up[j] \in ToSet(back)
    BY <1>4, <1>5, <2>2 DEF ToSet
  <2> QED BY <1>2, <2>3, <2>4 DEF ToSet
<1>8. InLine(back, "left")
  <2>1. ASSUME NEW i \in 1 .. L, NEW j \in 1 .. L, i < j
        PROVE  back[j] # back[i] /\ Toward(back[j], back[i]) = "left"
    <3> DEFINE k == (L - i) + 1
               m == (L - j) + 1
    <3>1. k \in 1 .. L /\ m \in 1 .. L /\ m < k
      BY <1>2, <2>1
    <3>2. up[k] # up[m] /\ Toward(up[k], up[m]) = "right"
      BY <1>1, <1>2, <3>1 DEF InLine
    <3>3. Toward(up[m], up[k]) = "left"
      BY <1>2, <3>1, <3>2, TowardIs DEF Other
    <3> QED BY <1>6, <3>2, <3>3
  <2> QED BY <1>5, <2>1 DEF InLine
<1>9. down = back
  BY <1>1, <1>5, <1>7, <1>8, SameLine, SidesAre
<1> QED BY <1>9 DEF up, down, back

\* Forwards and backwards, between calls and in between the rounds of a fix-up, an iterator
\* shows all keys in order, and between calls as many as Size says.
THEOREM IteratorsAreComplete == Spec => []IteratorsVisitAll
<1>1. ASSUME TreeInv PROVE IteratorsVisitAll
  <2>1. PICK u : Shape(tree, u)
    BY <1>1 DEF TreeInv
  <2> DEFINE up == Visited("right")
  <2>2. /\ up \in Seq(Keys) /\ InLine(up, "right") /\ ToSet(up) = Live(tree)
        /\ Len(up) = Cardinality(Live(tree))
    BY <2>1, VisitedIs, SidesAre
  <2>3. Visited("left") = Reverse(up)
    BY <2>1, IteratorsAgree
  <2>4. ToSet(up) = Elements
    BY <2>1, <2>2, ElementsAre
  <2>5. pc = "idle" => Len(up) = m_NodeCount
    BY <1>1, <2>2 DEF TreeInv
  <2> HIDE DEF up
  <2>6. ASSUME NEW i \in 1 .. Len(up) - 1 PROVE up[i] < up[i + 1]
    <3>1. i \in 1 .. Len(up) /\ i + 1 \in 1 .. Len(up) /\ i < i + 1
      BY <2>2, LenProperties
    <3>2. /\ up[i] \in Keys /\ up[i + 1] \in Keys
          /\ up[i + 1] # up[i] /\ Toward(up[i + 1], up[i]) = "right"
      BY <2>2, <3>1, LenProperties DEF InLine
    <3>3. ~(up[i] > up[i + 1])
      BY <3>2 DEF Toward
    <3>4. up[i] \in Nat /\ up[i + 1] \in Nat
      BY <3>2, Names
    <3> QED BY <3>2, <3>3, <3>4
  <2> QED BY <2>3, <2>4, <2>5, <2>6 DEF IteratorsVisitAll, up
<1> QED BY <1>1, TreeInvariant, PTL

-----------------------------------------------------------------------------
(***************************************************************************)
(* The layered visit                                                       *)
(***************************************************************************)
\* The children of some nodes, and what is i layers under some nodes.
Lower(T, X) == {Kid(T, n, s) : n \in X, s \in Sides} \ {Sentinel}

Level(T, u, X, i) ==
    {n \in Live(T) : \E m \in X : /\ n \in u[m]
                                  /\ Cardinality(Above(T, u, n)) = Cardinality(Above(T, u, m)) + i}

LEMMA LevelsAre ==
    ASSUME NEW T, NEW u, Shape(T, u), NEW X \in SUBSET Live(T)
    PROVE  /\ Level(T, u, X, 0) = X
           /\ Lower(T, X) \in SUBSET Live(T)
           /\ \A i \in Nat : Level(T, u, Lower(T, X), i) = Level(T, u, X, i + 1)
<1> DEFINE depth(n) == Cardinality(Above(T, u, n))
<1>1. \A n \in Live(T) : Above(T, u, n) \in SUBSET Live(T)
  BY DEF Above
<1>2. \A n \in Live(T) : depth(n) \in Nat /\ depth(n) <= Cardinality(Live(T)) /\ IsFiniteSet(Above(T, u, n))
  BY <1>1, LiveCount, FS_Subset, FS_CardinalityType
<1>3. ASSUME NEW m \in Live(T), NEW n \in u[m], n # m PROVE depth(m) < depth(n)
  <2>1. n \in Live(T) /\ n \in u[n]
    BY <1>3, Under
  <2>2. n \notin Above(T, u, m) /\ n \in Above(T, u, n)
    BY <1>3, <2>1, NotBoth DEF Above
  <2>3. Above(T, u, m) \subseteq Above(T, u, n)
    BY <1>3, Nested DEF Above
  <2>4. depth(m) <= depth(n) /\ depth(m) # depth(n)
    BY <1>2, <2>1, <2>2, <2>3, FS_Subset
  <2> QED BY <1>2, <2>1, <2>4
<1>4. ASSUME NEW m \in Live(T), NEW s \in Sides, Kid(T, m, s) # Sentinel
      PROVE  Kid(T, m, s) \in Live(T) /\ depth(Kid(T, m, s)) = depth(m) + 1
  <2> DEFINE c == Kid(T, m, s)
  <2>1. c \in Live(T) /\ Par(T, c) = m /\ m # Sentinel
    BY <1>4, Under, SideOfChild, LiveAre
  <2> HIDE DEF c
  <2>2. depth(c) = 1 + depth(m)
    BY <2>1, AboveIs
  <2> QED BY <1>2, <2>1, <2>2 DEF c
<1>5. Lower(T, X) \in SUBSET Live(T)
  BY <1>4 DEF Lower
<1> HIDE DEF depth
<1>6. \A Y \in SUBSET Live(T) : \A i : \A n :
         n \in Level(T, u, Y, i) <=>
            n \in Live(T) /\ \E m \in Y : n \in u[m] /\ depth(n) = depth(m) + i
  BY DEF Level, depth
<1>7. Level(T, u, X, 0) = X
  <2>1. \A n \in X : n \in Live(T) /\ n \in u[n] /\ depth(n) = depth(n) + 0
    BY <1>2, Under
  <2>2. ASSUME NEW n \in Live(T), NEW m \in X, n \in u[m], depth(n) = depth(m) + 0 PROVE n = m
    BY <1>2, <1>3, <2>2
  <2> QED BY <1>6, <2>1, <2>2
<1>8. ASSUME NEW i \in Nat PROVE Level(T, u, Lower(T, X), i) = Level(T, u, X, i + 1)
  <2>1. ASSUME NEW n \in Live(T), NEW m \in X, NEW s \in Sides, Kid(T, m, s) # Sentinel,
               n \in u[Kid(T, m, s)], depth(n) = depth(Kid(T, m, s)) + i
        PROVE  n \in u[m] /\ depth(n) = depth(m) + (i + 1)
    BY <1>2, <1>4, <2>1, Under
  <2>2. ASSUME NEW n \in Live(T), NEW m \in X, n \in u[m], depth(n) = depth(m) + (i + 1)
        PROVE  \E s \in Sides : /\ Kid(T, m, s) # Sentinel /\ n \in u[Kid(T, m, s)]
                                /\ depth(n) = depth(Kid(T, m, s)) + i
    <3> DEFINE s == Toward(n, m)
    <3>1. n # m
      BY <1>2, <2>2
    <3>2. s \in Sides /\ n \in u[Kid(T, m, s)]
      BY <2>2, <3>1, Under, TowardIs, LiveAre
    <3>3. Kid(T, m, s) # Sentinel
      BY <3>2, Under
    <3> HIDE DEF s
    <3> QED BY <1>2, <1>4, <2>2, <3>2, <3>3
  <2>3. Level(T, u, Lower(T, X), i) \subseteq Level(T, u, X, i + 1)
    <3>1. ASSUME NEW n \in Level(T, u, Lower(T, X), i) PROVE n \in Level(T, u, X, i + 1)
      <4>1. PICK c \in Lower(T, X) : n \in Live(T) /\ n \in u[c] /\ depth(n) = depth(c) + i
        BY <1>5, <1>6
      <4>2. PICK m \in X, s \in Sides : c = Kid(T, m, s) /\ c # Sentinel
        BY DEF Lower
      <4>3. n \in u[m] /\ depth(n) = depth(m) + (i + 1)
        BY <2>1, <4>1, <4>2
      <4> QED BY <1>6, <4>1, <4>3
    <3> QED BY <3>1
  <2>4. Level(T, u, X, i + 1) \subseteq Level(T, u, Lower(T, X), i)
    <3>1. ASSUME NEW n \in Level(T, u, X, i + 1) PROVE n \in Level(T, u, Lower(T, X), i)
      <4>1. PICK m \in X : n \in Live(T) /\ n \in u[m] /\ depth(n) = depth(m) + (i + 1)
        BY <1>6
      <4>2. PICK s \in Sides : /\ Kid(T, m, s) # Sentinel /\ n \in u[Kid(T, m, s)]
                               /\ depth(n) = depth(Kid(T, m, s)) + i
        BY <2>2, <4>1
      <4>3. Kid(T, m, s) \in Lower(T, X)
        BY <4>2 DEF Lower
      <4> QED BY <1>5, <1>6, <4>1, <4>2, <4>3
    <3> QED BY <3>1
  <2> QED BY <2>3, <2>4
<1> QED BY <1>5, <1>7, <1>8

\* No level is deeper than there are nodes.
LEMMA LevelsEnd ==
    ASSUME NEW T, NEW u, Shape(T, u), NEW X \in SUBSET Live(T)
    PROVE  \E i \in Nat : Level(T, u, X, i) = {}
<1> DEFINE i == Cardinality(Live(T)) + 1
<1>1. \A n \in Live(T) : Above(T, u, n) \in SUBSET Live(T)
  BY DEF Above
<1>2. \A n \in Live(T) : /\ Cardinality(Above(T, u, n)) \in Nat
                         /\ Cardinality(Above(T, u, n)) <= Cardinality(Live(T))
  BY <1>1, LiveCount, FS_Subset, FS_CardinalityType
<1>3. i \in Nat /\ Cardinality(Live(T)) \in Nat
  BY LiveCount
<1>4. ASSUME NEW n \in Level(T, u, X, i) PROVE FALSE
  <2>1. PICK m \in X : Cardinality(Above(T, u, n)) = Cardinality(Above(T, u, m)) + i /\ n \in Live(T)
    BY DEF Level
  <2>2. m \in Live(T)
    OBVIOUS
  <2> QED BY <1>2, <1>3, <2>1, <2>2
<1>5. Level(T, u, X, i) = {}
  BY <1>4
<1> HIDE DEF i
<1> QED BY <1>3, <1>5

\* v has the levels under X, up to the first that is empty.
Layered(T, u, X, v) ==
    /\ v \in Seq(SUBSET Live(T))
    /\ \A i \in 1 .. Len(v) : v[i] = Level(T, u, X, i - 1) /\ v[i] # {}
    /\ Level(T, u, X, Len(v)) = {}

LEMMA LayeredIs ==
    ASSUME NEW T, NEW u, Shape(T, u), NEW X \in SUBSET Live(T)
    PROVE  /\ \E v : Layered(T, u, X, v)
           /\ \A v, w : Layered(T, u, X, v) /\ Layered(T, u, X, w) => v = w
<1>0. \E j \in Nat : Level(T, u, X, j) = {}
  BY LevelsEnd
<1> DEFINE N == {i \in Nat : Level(T, u, X, i) = {}}
<1>1. PICK i \in N : \A j \in N : ~(<<j, i>> \in OpToRel(<, Nat))
  <2>1. N \subseteq Nat /\ N # {}
    BY <1>0
  <2> HIDE DEF N
  <2> QED BY <2>1, NatLessThanWellFounded, WFMin
<1>2. i \in Nat /\ Level(T, u, X, i) = {} /\ \A j \in Nat : j < i => Level(T, u, X, j) # {}
  BY <1>1 DEF OpToRel
<1> DEFINE v == [k \in 1 .. i |-> Level(T, u, X, k - 1)]
<1>3. Layered(T, u, X, v)
  <2>1. \A j : Level(T, u, X, j) \in SUBSET Live(T)
    BY DEF Level
  <2>2. v \in Seq(SUBSET Live(T)) /\ Len(v) = i
    <3>1. v \in [1 .. i -> SUBSET Live(T)]
      BY <2>1
    <3>2. v \in Seq(SUBSET Live(T))
      BY <1>2, <3>1, SeqDef
    <3> QED BY <1>2, <3>1, <3>2, LenProperties
  <2>3. \A k \in 1 .. i : v[k] = Level(T, u, X, k - 1) /\ k - 1 \in Nat /\ k - 1 < i
    BY <1>2
  <2> HIDE DEF v
  <2> QED BY <1>2, <2>2, <2>3 DEF Layered
<1>4. ASSUME NEW x, NEW y, Layered(T, u, X, x), Layered(T, u, X, y) PROVE x = y
  <2>1. /\ x \in Seq(SUBSET Live(T)) /\ y \in Seq(SUBSET Live(T)) /\ Len(x) \in Nat /\ Len(y) \in Nat
        /\ \A k \in 1 .. Len(x) : x[k] = Level(T, u, X, k - 1) /\ x[k] # {}
        /\ \A k \in 1 .. Len(y) : y[k] = Level(T, u, X, k - 1) /\ y[k] # {}
        /\ Level(T, u, X, Len(x)) = {} /\ Level(T, u, X, Len(y)) = {}
    BY <1>4, LenProperties DEF Layered
  <2>2. ~(Len(x) < Len(y))
    <3>1. Len(x) < Len(y) => Len(x) + 1 \in 1 .. Len(y) /\ (Len(x) + 1) - 1 = Len(x)
      BY <2>1
    <3> QED BY <2>1, <3>1
  <2>3. ~(Len(y) < Len(x))
    <3>1. Len(y) < Len(x) => Len(y) + 1 \in 1 .. Len(x) /\ (Len(y) + 1) - 1 = Len(y)
      BY <2>1
    <3> QED BY <2>1, <3>1
  <2>4. Len(x) = Len(y)
    BY <2>1, <2>2, <2>3
  <2> QED BY <2>1, <2>4, SeqEqual
<1> QED BY <1>3, <1>4

\* One layer in front of those under it.
LEMMA LayeredNext ==
    ASSUME NEW T, NEW u, Shape(T, u), NEW X \in SUBSET Live(T), X # {},
           NEW v, Layered(T, u, Lower(T, X), v)
    PROVE  Layered(T, u, X, <<X>> \o v) /\ Len(<<X>> \o v) = Len(v) + 1
<1> DEFINE w == <<X>> \o v
           L == Len(v)
<1>1. /\ v \in Seq(SUBSET Live(T)) /\ L \in Nat
      /\ \A i \in 1 .. L : v[i] = Level(T, u, Lower(T, X), i - 1) /\ v[i] # {}
      /\ Level(T, u, Lower(T, X), L) = {}
  BY LenProperties DEF Layered
<1>2. <<X>> \in Seq(SUBSET Live(T)) /\ Len(<<X>>) = 1 /\ <<X>>[1] = X
  OBVIOUS
<1>3. /\ w \in Seq(SUBSET Live(T)) /\ Len(w) = 1 + L
      /\ \A i \in 1 .. 1 + L : w[i] = IF i <= 1 THEN <<X>>[i] ELSE v[i - 1]
  BY <1>1, <1>2, ConcatProperties
<1> HIDE DEF w
<1>4. ASSUME NEW i \in 1 .. Len(w) PROVE w[i] = Level(T, u, X, i - 1) /\ w[i] # {}
  <2>1. CASE i = 1
    <3>1. w[i] = X
      BY <1>1, <1>2, <1>3, <2>1
    <3>2. i - 1 = 0
      BY <2>1
    <3> QED BY <3>1, <3>2, LevelsAre
  <2>2. CASE i # 1
    <3> DEFINE k == i - 1
    <3>1. k \in 1 .. L /\ k - 1 \in Nat /\ (k - 1) + 1 = k /\ w[i] = v[k]
      BY <1>1, <1>3, <2>2
    <3>2. v[k] = Level(T, u, Lower(T, X), k - 1) /\ v[k] # {}
      BY <1>1, <3>1
    <3>3. Level(T, u, Lower(T, X), k - 1) = Level(T, u, X, (k - 1) + 1)
      BY <3>1, LevelsAre
    <3> QED BY <3>1, <3>2, <3>3
  <2> QED BY <2>1, <2>2
<1>5. Level(T, u, X, Len(w)) = {}
  <2>1. Level(T, u, X, L + 1) = {}
    BY <1>1, LevelsAre
  <2>2. Len(w) = L + 1
    BY <1>1, <1>3
  <2> QED BY <2>1, <2>2
<1> QED BY <1>1, <1>3, <1>4, <1>5 DEF Layered, w

LEMMA LayersAre ==
    ASSUME NEW u, Shape(tree, u)
    PROVE  Layered(tree, u, {Root(tree)} \ {Sentinel}, Layers)
<1> DEFINE D == SUBSET Live(tree)
           IsFrom(f) == f = [X \in D |-> IF X = {} THEN << >> ELSE <<X>> \o f[Lower(tree, X)]]
           F == CHOOSE f : IsFrom(f)
           E(X, v) == Layered(tree, u, X, v)
           g == [X \in D |-> CHOOSE v : E(X, v)]
           first == {Root(tree)} \ {Sentinel}
<1>1. \A X \in D : E(X, g[X]) /\ Lower(tree, X) \in D
  BY LayeredIs, LevelsAre
<1>2. g = [X \in D |-> g[X]]
  OBVIOUS
<1> HIDE DEF g
<1>3. ASSUME NEW X \in D, X # {}
      PROVE  g[X] = <<X>> \o g[Lower(tree, X)] /\ Len(g[X]) = Len(g[Lower(tree, X)]) + 1
  <2>1. E(X, <<X>> \o g[Lower(tree, X)])
        /\ Len(<<X>> \o g[Lower(tree, X)]) = Len(g[Lower(tree, X)]) + 1
    BY <1>1, <1>3, LayeredNext
  <2>2. g[X] = <<X>> \o g[Lower(tree, X)]
    BY <1>1, <2>1, LayeredIs
  <2> QED BY <2>1, <2>2
<1>4. g[{}] = << >>
  <2>1. {} \in D /\ Level(tree, u, {}, 0) = {}
    BY DEF Level
  <2>2. << >> \in Seq(SUBSET Live(tree)) /\ Len(<< >>) = 0
    OBVIOUS
  <2>3. E({}, << >>)
    BY <2>1, <2>2 DEF Layered
  <2> QED BY <1>1, <2>1, <2>3, LayeredIs
<1>5. \A X \in D : g[X] = IF X = {} THEN << >> ELSE <<X>> \o g[Lower(tree, X)]
  BY <1>3, <1>4
<1>6. IsFrom(g)
  BY <1>2, <1>5
<1>7. IsFrom(F)
  BY <1>6
<1>8. Layers = F[first]
  BY DEF Layers, Lower, Kid, Root
<1>9. \A X \in D : F[X] = IF X = {} THEN << >> ELSE <<X>> \o F[Lower(tree, X)]
  BY <1>7
<1> HIDE DEF F
<1> DEFINE B == {X \in D : F[X] # g[X]}
           Z == {Len(g[X]) : X \in B}
<1>10. ASSUME B # {} PROVE FALSE
  <2>1. \A X \in D : Len(g[X]) \in Nat
    BY <1>1, LenProperties DEF Layered
  <2>2. Z \subseteq Nat /\ Z # {}
    BY <1>10, <2>1
  <2>3. PICK x \in Z : \A y \in Z : ~(<<y, x>> \in OpToRel(<, Nat))
    BY <2>2, NatLessThanWellFounded, WFMin
  <2>4. PICK X \in B : x = Len(g[X])
    OBVIOUS
  <2>5. X # {}
    BY <1>4, <1>9, <2>4
  <2> DEFINE Y == Lower(tree, X)
  <2>6. Y \in B
    <3>1. X \in D /\ Y \in D
      BY <1>1
    <3>2. F[X] = <<X>> \o F[Y] /\ g[X] = <<X>> \o g[Y]
      BY <1>3, <1>9, <2>5, <3>1
    <3> QED BY <3>1, <3>2
  <2>7. Len(g[X]) = Len(g[Y]) + 1 /\ Len(g[X]) \in Nat /\ Len(g[Y]) \in Nat
    BY <1>3, <2>1, <2>5, <2>6
  <2>8. ~(Len(g[Y]) < Len(g[X]))
    <3>1. Len(g[Y]) \in Z /\ Len(g[X]) \in Z
      BY <2>6
    <3> QED BY <2>2, <2>3, <2>4, <3>1 DEF OpToRel
  <2> QED BY <2>7, <2>8
<1>11. first \in D
  BY LiveAre DEF Shape
<1> QED BY <1>1, <1>8, <1>10, <1>11

\* The layered visit shows every node once, also in between the rounds of a fix-up.
THEOREM LayersAreComplete == Spec => []LayersShowAll
<1>1. ASSUME TreeInv PROVE LayersShowAll
  <2>1. PICK u : Shape(tree, u)
    BY <1>1 DEF TreeInv
  <2> DEFINE shown == Layers
             X == {Root(tree)} \ {Sentinel}
             depth(n) == Cardinality(Above(tree, u, n))
             G == UNION ToSet(shown)
  <2>2. Layered(tree, u, X, shown)
    BY <2>1, LayersAre
  <2> HIDE DEF shown
  <2>3. /\ shown \in Seq(SUBSET Live(tree)) /\ Len(shown) \in Nat /\ DOMAIN shown = 1 .. Len(shown)
        /\ \A i \in 1 .. Len(shown) : shown[i] = Level(tree, u, X, i - 1) /\ shown[i] \in SUBSET Live(tree)
        /\ Level(tree, u, X, Len(shown)) = {}
    BY <2>2, LenProperties, ElementOfSeq DEF Layered
  <2>4. \A n \in Live(tree) : depth(n) \in Nat
    BY <2>1, AboveIs
  <2>5. Root(tree) # Sentinel => Root(tree) \in Live(tree) /\ u[Root(tree)] = Live(tree)
    BY <2>1, LiveAre DEF Shape
  <2>6. \A i \in Nat : \A n \in Level(tree, u, X, i) :
           n \in Live(tree) /\ Root(tree) \in X /\ Root(tree) \in Live(tree) /\ depth(n) = depth(Root(tree)) + i
    BY <2>5 DEF Level
  <2>7. \A i \in Nat : \A n \in Live(tree) :
           Root(tree) # Sentinel /\ depth(n) = depth(Root(tree)) + i => n \in Level(tree, u, X, i)
    BY <2>5 DEF Level
  <2> HIDE DEF depth, X
  <2>8. \A x \in G : \E i \in 1 .. Len(shown) : x \in shown[i]
    BY <2>3 DEF ToSet
  <2>9. \A i \in 1 .. Len(shown) : \A x \in shown[i] : x \in G
    BY <2>3 DEF ToSet
  <2> HIDE DEF G
  <2>10. ASSUME NEW n \in Live(tree), NEW i \in Nat, n \in Level(tree, u, X, i), i <= Len(shown)
         PROVE  n \in G
    <3>1. i # Len(shown)
      BY <2>3, <2>10
    <3>2. i + 1 \in 1 .. Len(shown) /\ (i + 1) - 1 = i
      <4>1. i \in Nat /\ Len(shown) \in Nat /\ i <= Len(shown)
        BY <2>3, <2>10
      <4> QED BY <3>1, <4>1
    <3> QED BY <2>3, <2>9, <2>10, <3>2
  <2>11. Root(tree) # Sentinel => Root(tree) \in G
    <3>1. ASSUME Root(tree) # Sentinel PROVE Root(tree) \in G
      <4>1. Root(tree) \in Live(tree) /\ depth(Root(tree)) = depth(Root(tree)) + 0
        BY <2>4, <2>5, <3>1
      <4>2. Root(tree) \in Level(tree, u, X, 0)
        BY <2>7, <3>1, <4>1
      <4> QED BY <2>3, <2>10, <4>1, <4>2
    <3> QED BY <3>1
  <2>12. ASSUME NEW c \in Live(tree), Par(tree, c) # Sentinel, Par(tree, c) \in G PROVE c \in G
    <3>1. PICK i \in 1 .. Len(shown) : Par(tree, c) \in shown[i]
      BY <2>8, <2>12
    <3>2. i \in Nat /\ i - 1 \in Nat /\ i <= Len(shown)
      BY <2>3
    <3>3. /\ depth(Par(tree, c)) = depth(Root(tree)) + (i - 1)
          /\ Root(tree) \in Live(tree) /\ Root(tree) # Sentinel
      BY <2>3, <2>6, <3>1, <3>2, LiveAre
    <3>4. depth(c) = 1 + depth(Par(tree, c)) /\ depth(Root(tree)) \in Nat
      BY <2>1, <2>4, <2>12, <3>3, AboveIs DEF depth
    <3>5. depth(c) = depth(Root(tree)) + i
      BY <3>2, <3>3, <3>4
    <3> QED BY <2>7, <2>10, <3>2, <3>3, <3>5
  <2>13. Live(tree) \subseteq G
    BY <2>1, <2>11, <2>12, TopDown
  <2>14. G \subseteq Live(tree)
    BY <2>3, <2>8
  <2>15. ASSUME NEW i \in DOMAIN shown, NEW j \in DOMAIN shown, NEW n \in shown[i], n \in shown[j]
         PROVE  i = j
    <3>1. i - 1 \in Nat /\ j - 1 \in Nat /\ i \in Int /\ j \in Int
      BY <2>3
    <3>2. /\ depth(n) = depth(Root(tree)) + (i - 1) /\ depth(n) = depth(Root(tree)) + (j - 1)
          /\ Root(tree) \in Live(tree)
      BY <2>3, <2>6, <2>15, <3>1
    <3> QED BY <2>4, <3>1, <3>2
  <2> QED BY <2>13, <2>14, <2>15 DEF LayersShowAll, G, shown
<1> QED BY <1>1, TreeInvariant, PTL

-----------------------------------------------------------------------------
(***************************************************************************)
(* The map                                                                 *)
(***************************************************************************)
MapInv ==
    /\ TreeInv
    /\ m_Value \in [Keys -> Values] /\ ref \in Nodes /\ new \in Values
    /\ ref # Sentinel => ref \in Live(tree)

LEMMA MapInitIs ==
    ASSUME MapInit
    PROVE  MapInv /\ Dict!Init
<1>1. TreeInv /\ Live(tree) = {}
  BY InitIsTree DEF MapInit
<1> QED BY <1>1, Names, MapAssumption DEF MapInit, MapInv, Dict!Init, Contents, Live

LEMMA FixUpIsSilent ==
    ASSUME MapInv, MapFixUp
    PROVE  MapInv' /\ Contents' = Contents
<1>1. TreeInv' /\ Live(tree') = Live(tree) /\ UNCHANGED <<m_Value, ref, new>>
  BY FixUpKeepsTree DEF MapInv, MapFixUp
<1> QED BY <1>1 DEF MapInv, Contents, Live

LEMMA AssignIsSilent ==
    ASSUME MapInv, Assign
    PROVE  MapInv' /\ Contents' = Contents
<1>1. TreeInv' /\ Live(tree') = Live(tree)
  BY TreeStays DEF MapInv, Assign
<1>2. /\ ref \in Live(tree) /\ ref \in Keys /\ ref' = Sentinel
      /\ m_Value' = [m_Value EXCEPT ![ref] = new] /\ new' = Value0
  BY LiveAre DEF MapInv, Assign
<1>3. Contents' = Contents
  <2>1. \A k \in Keys : Contents'[k] = Contents[k]
    BY <1>1, <1>2, Names DEF Contents, Live, MapInv
  <2> QED BY <2>1 DEF Contents, Live
<1>4. MapInv'
  BY <1>1, <1>2, Names, MapAssumption DEF MapInv
<1> QED BY <1>3, <1>4

\* Insert(Key) leaves a key with the value it has, or makes it with the default.
LEMMA FindOrInsertIs ==
    ASSUME MapInv, Ready, NEW k \in Keys, FindOrInsert(k)
    PROVE  /\ TreeInv' /\ Live(tree') = Live(tree) \union {k}
           /\ k \in Live(tree) => m_Value' = m_Value
           /\ k \notin Live(tree) => m_Value' = [m_Value EXCEPT ![k] = Value0]
<1>1. PICK u : Shape(tree, u)
  BY DEF MapInv, TreeInv
<1>2. Search(tree, k) = IF k \in Live(tree) THEN k ELSE Sentinel
  BY <1>1, SearchFinds
<1>3. CASE k \in Live(tree)
  <2>1. UNCHANGED <<vars, m_Value>>
    BY <1>2, <1>3 DEF FindOrInsert
  <2> QED BY <1>3, <2>1, TreeStays DEF MapInv
<1>4. CASE k \notin Live(tree)
  <2>1. Insert(k) /\ m_Value' = [m_Value EXCEPT ![k] = Value0]
    BY <1>2, <1>4, Names DEF FindOrInsert
  <2> QED BY <1>4, <2>1, InsertKeepsTree DEF MapInv
<1> QED BY <1>3, <1>4

LEMMA LookUpIs ==
    ASSUME MapInv, NEW k \in Keys, LookUp(k)
    PROVE  MapInv' /\ (Contents' = Contents \/ Dict!LookUp(k))
<1>1. /\ Ready /\ FindOrInsert(k) /\ ref' = ref /\ new' = new /\ ref = Sentinel
      /\ m_Value \in [Keys -> Values] /\ ref \notin Keys
  BY Names DEF LookUp, Ready, MapInv
<1>2. /\ TreeInv' /\ Live(tree') = Live(tree) \union {k}
      /\ k \in Live(tree) => m_Value' = m_Value
      /\ k \notin Live(tree) => m_Value' = [m_Value EXCEPT ![k] = Value0]
  BY <1>1, FindOrInsertIs
<1>3. MapInv'
  BY <1>1, <1>2, MapAssumption DEF MapInv
<1>4. CASE k \in Live(tree)
  <2>1. Live(tree') = Live(tree) /\ m_Value' = m_Value
    BY <1>2, <1>4
  <2> QED BY <1>1, <1>3, <2>1 DEF Contents, Live
<1>5. CASE k \notin Live(tree)
  <2>1. Contents[k] = NoValue
    BY <1>5 DEF Contents, Live
  <2>2. \A m \in Keys : Contents'[m] = IF m = k THEN Value0 ELSE Contents[m]
    BY <1>1, <1>2, <1>5 DEF Contents, Live
  <2>3. Contents' = [Contents EXCEPT ![k] = Value0]
    BY <2>2 DEF Contents, Live
  <2>4. Contents'[k] = Value0
    BY <2>2
  <2> QED BY <1>3, <2>1, <2>3, <2>4 DEF Dict!LookUp
<1> QED BY <1>4, <1>5

LEMMA PutIs ==
    ASSUME MapInv, NEW k \in Keys, NEW v \in Values \ {Value0}, Put(k, v)
    PROVE  MapInv' /\ Dict!Write(k)
<1>1. /\ Ready /\ FindOrInsert(k) /\ ref' = k /\ new' = v /\ ref = Sentinel
      /\ m_Value \in [Keys -> Values] /\ ref \notin Keys /\ k \in Nodes
  BY Names DEF Put, Ready, MapInv
<1>2. /\ TreeInv' /\ Live(tree') = Live(tree) \union {k}
      /\ k \in Live(tree) => m_Value' = m_Value
      /\ k \notin Live(tree) => m_Value' = [m_Value EXCEPT ![k] = Value0]
  BY <1>1, FindOrInsertIs
<1>3. MapInv'
  BY <1>1, <1>2, MapAssumption DEF MapInv
<1>4. \A m \in Keys : Contents'[m] = IF m = k THEN v ELSE Contents[m]
  BY <1>1, <1>2 DEF Contents, Live
<1>5. Contents' = [Contents EXCEPT ![k] = v] /\ Contents'[k] = v
  BY <1>4 DEF Contents, Live
<1> QED BY <1>3, <1>5 DEF Dict!Write

LEMMA DeleteKeyIs ==
    ASSUME MapInv, NEW k \in Keys, DeleteKey(k)
    PROVE  MapInv' /\ Dict!Remove(k)
<1>1. /\ TreeInv' /\ Live(tree') = Live(tree) \ {k}
      /\ m_Value' = [m_Value EXCEPT ![k] = Value0] /\ ref' = ref /\ new' = new
      /\ ref = Sentinel /\ m_Value \in [Keys -> Values]
  BY DeleteKeepsTree DEF DeleteKey, Ready, MapInv
<1>2. MapInv'
  BY <1>1, MapAssumption DEF MapInv
<1>3. \A m \in Keys : Contents'[m] = IF m = k THEN NoValue ELSE Contents[m]
  BY <1>1 DEF Contents, Live
<1>4. Contents' = [Contents EXCEPT ![k] = NoValue] /\ Contents'[k] = NoValue
  BY <1>3 DEF Contents, Live
<1>5. Contents[k] # NoValue
  <2>1. k \in Live(tree)
    <3>1. PICK u : Shape(tree, u)
      BY DEF MapInv, TreeInv
    <3>2. Search(tree, k) = k
      BY DEF DeleteKey, Delete
    <3> QED BY <3>1, <3>2, SearchFinds, Names
  <2>2. Contents[k] \in Values
    BY <1>1, <2>1 DEF Contents, Live, MapInv
  <2> QED BY <2>2, MapAssumption
<1> QED BY <1>2, <1>4, <1>5 DEF Dict!Remove

LEMMA MapClearIs ==
    ASSUME MapInv, MapClear
    PROVE  MapInv' /\ Dict!Clear
<1>1. /\ TreeInv' /\ Live(tree') = {} /\ ref' = ref /\ new' = new /\ ref = Sentinel
      /\ m_Value' = [k \in Keys |-> Value0]
  BY ClearKeepsTree DEF MapClear, Ready, MapInv
<1>2. MapInv'
  BY <1>1, MapAssumption DEF MapInv
<1> QED BY <1>1, <1>2 DEF Dict!Clear, Contents, Live

LEMMA MapStep ==
    ASSUME MapInv, [MapNext]_mapVars
    PROVE  MapInv' /\ [Dict!Next]_Contents
<1>1. CASE MapFixUp
  BY <1>1, FixUpIsSilent
<1>2. CASE Assign
  BY <1>2, AssignIsSilent
<1>3. CASE MapClear
  BY <1>3, MapClearIs DEF Dict!Next
<1>4. ASSUME NEW k \in Keys, LookUp(k) \/ DeleteKey(k) PROVE MapInv' /\ [Dict!Next]_Contents
  BY <1>4, LookUpIs, DeleteKeyIs DEF Dict!Next
<1>5. ASSUME NEW k \in Written, NEW v \in Values \ {Value0}, Put(k, v) \/ DeletePair(k, v)
      PROVE  MapInv' /\ [Dict!Next]_Contents
  <2>1. k \in Keys
    BY MapAssumption
  <2> QED BY <1>5, <2>1, PutIs, DeleteKeyIs DEF DeletePair, Dict!Next
<1>6. CASE UNCHANGED mapVars
  <2>1. TreeInv' /\ Live(tree') = Live(tree) /\ UNCHANGED <<m_Value, ref, new>>
    BY <1>6, TreeStays DEF MapInv, mapVars
  <2> QED BY <2>1 DEF MapInv, Contents, Live
<1> QED BY <1>1, <1>2, <1>3, <1>4, <1>5, <1>6 DEF MapNext

\* To the tree, a step of the map is one of its operations, or nothing.
THEOREM MapIsTree == MapSpec => Spec
<1>1. MapInit => Init
  BY DEF MapInit
<1>2. ASSUME [MapNext]_mapVars PROVE [Next]_vars
  <2>1. ASSUME NEW k, FindOrInsert(k) PROVE Insert(k) \/ UNCHANGED vars
    BY <2>1 DEF FindOrInsert
  <2>2. ASSUME NEW k \in Keys, LookUp(k) \/ DeleteKey(k) PROVE [Next]_vars
    BY <2>1, <2>2 DEF LookUp, DeleteKey, Next
  <2>3. ASSUME NEW k \in Written, NEW v, Put(k, v) \/ DeletePair(k, v) PROVE [Next]_vars
    <3>1. k \in Keys
      BY MapAssumption
    <3> QED BY <2>1, <2>3, <3>1 DEF Put, DeletePair, DeleteKey, Next
  <2>4. CASE MapFixUp \/ Assign \/ MapClear
    BY <2>4 DEF MapFixUp, Assign, MapClear, Next
  <2>5. CASE UNCHANGED mapVars
    BY <2>5 DEF mapVars
  <2> QED BY <1>2, <2>2, <2>3, <2>4, <2>5 DEF MapNext
<1> QED BY <1>1, <1>2, PTL DEF MapSpec, Spec

\* What holds of the map and its tree between any two steps.
THEOREM MapInvariant == MapSpec => []MapInv
<1>1. MapInit => MapInv
  BY MapInitIs
<1>2. MapInv /\ [MapNext]_mapVars => MapInv'
  BY MapStep
<1> QED BY <1>1, <1>2, PTL DEF MapSpec

\* The tree reaches the allocated nodes and no others, parents and children agree,
\* and the reference of [] is to a node that is there.
THEOREM MapIsTyped == MapSpec => []MapTypeOK
<1>1. MapInv => MapTypeOK
  BY TreeIsTyped DEF MapInv, MapTypeOK
<1> QED BY <1>1, MapInvariant, PTL

\* Whatever the tree does inside, its callers see a dictionary.
THEOREM MapIsDictionary == MapSpec => ImplementsDictionary
<1>1. MapInit => Dict!Init
  BY MapInitIs
<1>2. MapInv /\ [MapNext]_mapVars => [Dict!Next]_Contents
  BY MapStep
<1> QED BY <1>1, <1>2, MapInvariant, PTL DEF MapSpec, ImplementsDictionary, Dict!Spec
=============================================================================
