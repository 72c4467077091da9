---------------------------- MODULE RBTreeLemmas ----------------------------
(***************************************************************************)
(* Lemmas about the operators of RBTree, for any number of keys and heads: *)
(* what Rotate, Link, Splice and TakePlace make of a tree and its labels,  *)
(* and what a turn of each loop that walks a tree finds there.             *)
(*                                                                         *)
(* Well is what the inductive invariant says of one head, and Apart that   *)
(* what a step writes belongs to that head.  An operator on the memory is  *)
(* first described field by field (Rotated, LinkedAt, Spliced, Placed),    *)
(* and the proofs about trees see only that description.                   *)
(***************************************************************************)
EXTENDS RBTree, TLAPS

\* There are two sides, and Opposite goes from one to the other.
LEMMA SidesLaws ==
  \A d \in Sides :
    /\ Opposite(d) \in Sides /\ Opposite(d) # d /\ Opposite(Opposite(d)) = d
    /\ \A e \in Sides : e = d \/ e = Opposite(d)
  BY DEF Sides, Opposite

\* A field of one node of the memory is written.
LEMMA SetChild ==
  ASSUME NEW m \in Memory, NEW d \in Sides, NEW k \in Keys, NEW n \in Nodes,
         NEW r, r = [m EXCEPT !.child[d][k] = n]
  PROVE  /\ r \in Memory
         /\ r.root = m.root /\ r.parent = m.parent /\ r.color = m.color
         /\ \A e \in Sides, i \in Keys :
              r.child[e][i] = IF e = d /\ i = k THEN n ELSE m.child[e][i]
  BY DEF Memory

\* The parent field.
LEMMA SetParentField ==
  ASSUME NEW m \in Memory, NEW k \in Keys, NEW n \in Nodes,
         NEW r, r = [m EXCEPT !.parent[k] = n]
  PROVE  /\ r \in Memory
         /\ r.root = m.root /\ r.child = m.child /\ r.color = m.color
         /\ \A i \in Keys : r.parent[i] = IF i = k THEN n ELSE m.parent[i]
  BY DEF Memory

\* The root of a head.
LEMMA SetRoot ==
  ASSUME NEW m \in Memory, NEW h \in Heads, NEW n \in Nodes,
         NEW r, r = [m EXCEPT !.root[h] = n]
  PROVE  /\ r \in Memory
         /\ r.parent = m.parent /\ r.child = m.child /\ r.color = m.color
         /\ \A g \in Heads : r.root[g] = IF g = h THEN n ELSE m.root[g]
  BY DEF Memory

\* What Rotate does to each field.
Rotated(m, r, h, elm, d, tmp) ==
    LET o     == Opposite(d)
        inner == m.child[d][tmp]
        up    == m.parent[elm]
    IN
    /\ r \in Memory
    /\ r.color = m.color
    /\ \A i \in Keys : r.parent[i] =
         IF i = elm THEN tmp ELSE IF i = tmp THEN up ELSE IF i = inner THEN elm
         ELSE m.parent[i]
    /\ \A e \in Sides, i \in Keys : r.child[e][i] =
         IF i = elm /\ e = o THEN inner
         ELSE IF i = tmp /\ e = d THEN elm
         ELSE IF i = up /\ e = SideOf(m, up, elm) THEN tmp
         ELSE m.child[e][i]
    /\ \A g \in Heads : r.root[g] = IF g = h /\ up = Null THEN tmp ELSE m.root[g]

\* Rotate does this to every field.
LEMMA RotateFields ==
  ASSUME NEW m \in Memory, NEW h \in Heads, NEW elm \in Keys, NEW d \in Sides,
         NEW tmp \in Keys, tmp = m.child[Opposite(d)][elm], 
         tmp # elm, m.parent[elm] \notin {elm, tmp}, m.child[d][tmp] \notin {elm, tmp}
  PROVE  Rotated(m, Rotate(m, h, elm, d), h, elm, d, tmp)
<1> DEFINE o == Opposite(d)
           inner == m.child[d][tmp]
           up == m.parent[elm]
<1>a. PICK a : a = [m EXCEPT !.child[o][elm] = inner]
  OBVIOUS
<1>b. PICK b : b = SetParent(a, inner, elm)
  OBVIOUS
<1>c. PICK c : c = [b EXCEPT !.parent[tmp] = up]
  OBVIOUS
<1>e. PICK e : e = Replace(c, h, up, elm, tmp)
  OBVIOUS
<1>f. PICK f : f = [e EXCEPT !.child[d][tmp] = elm]
  OBVIOUS
<1>r. PICK r : r = [f EXCEPT !.parent[elm] = tmp]
  OBVIOUS
<1>1. o \in Sides /\ o # d /\ inner \in Nodes /\ up \in Nodes
  BY SidesLaws DEF Memory, Nodes
<1>2. /\ a \in Memory
      /\ a.root = m.root /\ a.parent = m.parent /\ a.color = m.color
      /\ \A s \in Sides, i \in Keys :
           a.child[s][i] = IF s = o /\ i = elm THEN inner ELSE m.child[s][i]
  BY <1>a, <1>1 DEF Memory
<1>3. /\ b \in Memory
      /\ b.root = a.root /\ b.child = a.child /\ b.color = a.color
      /\ \A i \in Keys : b.parent[i] = IF i = inner THEN elm ELSE a.parent[i]
  <2>1. CASE inner = Null
    BY <1>b, <2>1, <1>2 DEF SetParent, Null, Keys
  <2>2. CASE inner # Null
    BY <1>b, <2>2, <1>1, <1>2, SetParentField DEF SetParent, Nodes
  <2> QED
    BY <2>1, <2>2
<1>4. /\ c \in Memory
      /\ c.root = b.root /\ c.child = b.child /\ c.color = b.color
      /\ \A i \in Keys : c.parent[i] = IF i = tmp THEN up ELSE b.parent[i]
  BY <1>c, <1>1, <1>3 DEF Memory
<1>5. /\ e \in Memory
      /\ e.parent = c.parent /\ e.color = c.color
      /\ \A g \in Heads : e.root[g] = IF g = h /\ up = Null THEN tmp ELSE c.root[g]
      /\ \A s \in Sides, i \in Keys :
           e.child[s][i] = IF i = up /\ s = SideOf(c, up, elm) THEN tmp ELSE c.child[s][i]
  <2>1. CASE up = Null
    BY <1>e, <2>1, <1>1, <1>4, SetRoot DEF Replace, Nodes, Null, Keys
  <2>2. CASE up # Null
    <3>1. SideOf(c, up, elm) \in Sides /\ up \in Keys /\ tmp \in Nodes
      BY <1>1, <2>2 DEF SideOf, Sides, Nodes
    <3>2. e = [c EXCEPT !.child[SideOf(c, up, elm)][up] = tmp]
      BY <1>e, <2>2 DEF Replace
    <3> QED
      BY <3>1, <3>2, <2>2, <1>4 DEF Memory
  <2> QED
    BY <2>1, <2>2
<1>6. up # Null => SideOf(c, up, elm) = SideOf(m, up, elm)
  BY <1>1, <1>2, <1>3, <1>4 DEF SideOf, Nodes, Sides
<1>7. /\ f \in Memory
      /\ f.root = e.root /\ f.parent = e.parent /\ f.color = e.color
      /\ \A s \in Sides, i \in Keys :
           f.child[s][i] = IF s = d /\ i = tmp THEN elm ELSE e.child[s][i]
  BY <1>f, <1>1, <1>5 DEF Nodes, Memory
<1>8. /\ r \in Memory
      /\ r.root = f.root /\ r.child = f.child /\ r.color = f.color
      /\ \A i \in Keys : r.parent[i] = IF i = elm THEN tmp ELSE f.parent[i]
  BY <1>r, <1>1, <1>7, SetParentField DEF Nodes
<1>9. r = Rotate(m, h, elm, d)
  BY <1>a, <1>b, <1>c, <1>e, <1>f, <1>r DEF Rotate
<1>10. Rotated(m, r, h, elm, d, tmp)
  BY <1>1, <1>2, <1>3, <1>4, <1>5, <1>6, <1>7, <1>8 DEF Rotated, Null, Keys
<1> QED
  BY <1>9, <1>10

\* Labels and ranks of the nodes.
Labels == [Nodes -> SUBSET Keys]
Ranks  == [Nodes -> Nat]

\* A tree, and the types of what it is made of.
IsTree(m, h, K, under) ==
    m \in Memory /\ h \in Heads /\ K \subseteq Keys /\ under \in Labels /\ Tree(m, h, K, under)

\* Keys are not NULL, and both are integers.
LEMMA KeysNodes ==
  /\ Keys \subseteq Nodes /\ Nodes \subseteq Int /\ Keys \subseteq Int /\ Null \notin Keys /\ Null \in Nodes
  /\ \A n \in Nodes : n # Null => n \in Keys
  /\ \A k \in Keys : 0 < k
  BY TreeAssumption DEF Keys, Nodes, Null

\* Before is a strict order, and the other way round on the other side.
LEMMA BeforeLaws ==
  \A d \in Sides : \A i, j \in Keys :
    /\ ~ Before(d, i, i)
    /\ Before(Opposite(d), i, j) <=> Before(d, j, i)
    /\ Before(d, i, j) => ~ Before(d, j, i)
    /\ i # j => Before(d, i, j) \/ Before(d, j, i)
    /\ \A k \in Keys : Before(d, i, j) /\ Before(d, j, k) => Before(d, i, k)
  BY KeysNodes DEF Before, Sides, Opposite

\* What the nodes of a tree are, and where their links lead.
LEMMA TreeTypes ==
  ASSUME NEW m, NEW h, NEW K, NEW under, IsTree(m, h, K, under)
  PROVE  /\ m \in Memory /\ h \in Heads /\ under \in Labels
         /\ Linked(m, h, K) /\ Sorted(m, h, K, under) /\ Nested(m, K, under)
         /\ m.root[h] \in Nodes /\ Null \in Nodes
         /\ K \subseteq Keys /\ K \subseteq Int
         /\ \A k \in K :
              /\ k \in Keys /\ k \in Nodes /\ k # Null /\ k \in Int
              /\ m.parent[k] \in Nodes
              /\ \A d \in Sides : m.child[d][k] \in Nodes
              /\ k \in under[k] /\ under[k] \subseteq K
         /\ under[Null] = {}
<1>1. K \subseteq Keys /\ m \in Memory /\ h \in Heads /\ under \in Labels
  BY DEF IsTree
<1>2. /\ \A k \in K : k \in Keys /\ k \in Nodes /\ k # Null /\ k \in Int
      /\ K \subseteq Int /\ Null \in Nodes
  BY <1>1, KeysNodes
<1>3. Linked(m, h, K) /\ Sorted(m, h, K, under) /\ Nested(m, K, under)
  BY DEF IsTree, Tree
<1>4. \A k \in K : m.parent[k] \in Nodes /\ \A d \in Sides : m.child[d][k] \in Nodes
  BY <1>1, <1>2 DEF Memory
<1>5. m.root[h] \in Nodes
  BY <1>1 DEF Memory
<1>6. under[Null] = {} /\ \A k \in K : k \in under[k] /\ under[k] \subseteq K
  BY <1>3 DEF Sorted
<1> QED
  BY <1>1, <1>2, <1>3, <1>4, <1>5, <1>6

\* A node in a tree, and its child.
LEMMA ChildLaws ==
  ASSUME NEW m, NEW h, NEW K, NEW under, IsTree(m, h, K, under),
         NEW k \in K, NEW d \in Sides, m.child[d][k] # Null
  PROVE  LET c == m.child[d][k] IN
         /\ c \in K /\ c # k /\ m.parent[c] = k
         /\ Before(d, c, k)
         /\ c \in under[c] /\ c \in under[k] /\ under[c] \subseteq under[k]
         /\ k \notin under[c]
         /\ \A e \in Sides : m.child[e][k] = c => e = d
<1> DEFINE c == m.child[d][k]
<1>0. Linked(m, h, K) /\ Sorted(m, h, K, under) /\ k \in Keys
  BY TreeTypes
<1>1. c \in K /\ m.parent[c] = k
  BY <1>0 DEF Linked
<1>2. c \in under[c] /\ c \in Keys
  BY <1>1, TreeTypes
<1>3. \A j \in under[c] : Before(d, j, k)
  BY <1>0 DEF Sorted
<1>4. c # k /\ Before(d, c, k) /\ k \notin under[c]
  BY <1>0, <1>2, <1>3, BeforeLaws
<1>5. under[c] \subseteq under[k]
  BY <1>0 DEF Sorted, Sides
<1>6. \A e \in Sides : m.child[e][k] = c => e = d
  <2> SUFFICES ASSUME NEW e \in Sides, m.child[e][k] = c, e # d PROVE FALSE
    OBVIOUS
  <2>1. Before(e, c, k) /\ e = Opposite(d)
    BY <1>0, <1>2, SidesLaws DEF Sorted
  <2> QED
    BY <1>0, <1>2, <1>4, <2>1, BeforeLaws
<1> QED
  BY <1>1, <1>2, <1>4, <1>5, <1>6

\* A node and its parent.
LEMMA ParentLaws ==
  ASSUME NEW m, NEW h, NEW K, NEW under, IsTree(m, h, K, under),
         NEW k \in K, m.parent[k] # Null
  PROVE  LET p == m.parent[k]
             e == SideOf(m, p, k)
         IN
         /\ p \in K /\ p # k /\ e \in Sides /\ m.child[e][p] = k
         /\ \A s \in Sides : m.child[s][p] = k => s = e
         /\ p \notin under[k]
         /\ m.root[h] # k
<1> DEFINE p == m.parent[k]
           e == SideOf(m, p, k)
<1>0. Linked(m, h, K) /\ k # Null
  BY TreeTypes
<1>1. p \in K /\ \E s \in Sides : m.child[s][p] = k
  BY <1>0 DEF Linked
<1>2. e \in Sides /\ m.child[e][p] = k
  BY <1>1 DEF SideOf, Sides
<1>4. p # k /\ p \notin under[k] /\ \A s \in Sides : m.child[s][p] = k => s = e
  BY <1>0, <1>1, <1>2, ChildLaws
<1>5. m.root[h] # k
  BY <1>0 DEF Linked
<1> QED
  BY <1>1, <1>2, <1>4, <1>5

\* The labels on the two sides of a node.
LEMMA UnderLaws ==
  ASSUME NEW m, NEW h, NEW K, NEW under, IsTree(m, h, K, under),
         NEW k \in K, NEW d \in Sides
  PROVE  /\ under[k] = {k} \cup under[m.child[d][k]] \cup under[m.child[Opposite(d)][k]]
         /\ \A j \in under[m.child[d][k]] : Before(d, j, k)
         /\ \A j \in under[m.child[Opposite(d)][k]] : Before(d, k, j)
         /\ under[k] \subseteq K
<1>0. Sorted(m, h, K, under) /\ k \in Keys /\ under[k] \subseteq K /\ K \subseteq Keys
  BY TreeTypes DEF IsTree
<1>1. under[k] = {k} \cup under[m.child["left"][k]] \cup under[m.child["right"][k]]
  BY <1>0 DEF Sorted
<1>2. \A e \in Sides : \A j \in under[m.child[e][k]] : Before(e, j, k)
  BY <1>0 DEF Sorted
<1>3. under[k] = {k} \cup under[m.child[d][k]] \cup under[m.child[Opposite(d)][k]]
  BY <1>1 DEF Sides, Opposite
<1>4. \A j \in under[m.child[Opposite(d)][k]] : Before(d, k, j)
  BY <1>0, <1>2, <1>3, SidesLaws, BeforeLaws
<1> QED
  BY <1>0, <1>2, <1>3, <1>4

\* The same, from left to right.
LEMMA OrderLaws ==
  ASSUME NEW m, NEW h, NEW K, NEW under, IsTree(m, h, K, under), NEW k \in K
  PROVE  LET left == m.child["left"][k]
             right == m.child["right"][k]
         IN
         /\ left \in Nodes /\ right \in Nodes
         /\ under[k] = {k} \cup under[left] \cup under[right]
         /\ \A j \in under[left] : j < k /\ j \in K /\ j \in Int
         /\ \A j \in under[right] : k < j /\ j \in K /\ j \in Int
<1>1. /\ "left" \in Sides /\ "right" \in Sides /\ Opposite("left") = "right"
      /\ \A i, j : (Before("left", i, j) <=> i < j)
  BY DEF Sides, Opposite, Before
<1>2. K \subseteq Int /\ m.child["left"][k] \in Nodes /\ m.child["right"][k] \in Nodes
  BY <1>1, TreeTypes
<1>3. /\ under[k] = {k} \cup under[m.child["left"][k]] \cup under[m.child["right"][k]]
      /\ \A j \in under[m.child["left"][k]] : j < k
      /\ \A j \in under[m.child["right"][k]] : k < j
      /\ under[k] \subseteq K
  BY <1>1, UnderLaws
<1> QED
  BY <1>2, <1>3

\* A node, and one below it.
LEMMA NestedLaws ==
  ASSUME NEW m, NEW h, NEW K, NEW under, IsTree(m, h, K, under),
         NEW k \in K, NEW j \in under[k]
  PROVE  /\ j \in K /\ under[j] \subseteq under[k]
         /\ j # k => m.parent[j] \in under[k]
         /\ \A i \in K : i \notin under[k] =>
              (j < i <=> k < i) /\ \A d \in Sides : Before(d, j, i) <=> Before(d, k, i)
<1>1. Nested(m, K, under) /\ under[k] \subseteq K /\ k \in under[k] /\ K \subseteq Int
  BY TreeTypes, KeysNodes
<1>2. \A i \in K : i \notin under[k] => (j < i <=> k < i)
  BY <1>1 DEF Nested
<1>3. ASSUME NEW i \in K, i \notin under[k], NEW d \in Sides
      PROVE  Before(d, j, i) <=> Before(d, k, i)
  <2>1. i # j /\ i # k /\ i \in Int /\ j \in Int /\ k \in Int
    BY <1>1, <1>3
  <2> QED
    BY <1>2, <1>3, <2>1 DEF Before, Sides
<1> QED
  BY <1>1, <1>2, <1>3 DEF Nested

-----------------------------------------------------------------------------
(* Rotations                                                               *)

\* The labels after a rotation.
Lowered(m, under, elm, d, tmp) ==
    [under EXCEPT ![tmp] = under[elm],
                  ![elm] = {elm} \cup under[m.child[d][elm]] \cup under[m.child[d][tmp]]]

\* A node that is rotated, and those around it.
LEMMA RotateLaws ==
  ASSUME NEW m, NEW h, NEW K, NEW under, IsTree(m, h, K, under),
         NEW elm \in K, NEW d \in Sides,
         NEW tmp \in K, tmp = m.child[Opposite(d)][elm]
  PROVE  LET o == Opposite(d)
             inner == m.child[d][tmp]
             up == m.parent[elm]
         IN
         /\ o \in Sides /\ o # d /\ Opposite(o) = d /\ \A e \in Sides : e = d \/ e = o
         /\ tmp # Null /\ tmp # elm /\ m.parent[tmp] = elm /\ m.child[d][elm] # tmp
         /\ (inner # Null => inner \in K /\ inner # tmp /\ m.parent[inner] = tmp /\ m.child[o][tmp] # inner)
         /\ up # Null => /\ up \in K /\ up # elm /\ SideOf(m, up, elm) \in Sides
                            /\ m.child[SideOf(m, up, elm)][up] = elm
                            /\ \A e \in Sides : m.child[e][up] = elm => e = SideOf(m, up, elm)
                            /\ m.root[h] # elm
         /\ Linked(m, h, K) /\ Sorted(m, h, K, under) /\ h \in Heads /\ elm # Null
         /\ \A k \in K : k \in Keys /\ k \in Nodes /\ k # Null
         /\ under \in Labels /\ under[Null] = {} /\ m.root[h] \in Nodes
         /\ \A k \in K, e \in Sides : m.child[e][k] \in Nodes
         /\ inner # elm /\ up # tmp
<1> DEFINE o == Opposite(d)
           inner == m.child[d][tmp]
           up == m.parent[elm]
<1>1. o \in Sides /\ o # d /\ Opposite(o) = d /\ \A e \in Sides : e = d \/ e = o
  BY SidesLaws
<1>2. tmp # Null /\ tmp # elm /\ m.parent[tmp] = elm /\ m.child[d][elm] # tmp
  BY <1>1, ChildLaws, TreeTypes
<1>3. inner # Null => inner \in K /\ inner # tmp /\ m.parent[inner] = tmp /\ m.child[o][tmp] # inner
  BY <1>1, ChildLaws
<1>4. up # Null => /\ up \in K /\ up # elm /\ SideOf(m, up, elm) \in Sides
                   /\ m.child[SideOf(m, up, elm)][up] = elm
                   /\ \A e \in Sides : m.child[e][up] = elm => e = SideOf(m, up, elm)
                   /\ m.root[h] # elm
  BY ParentLaws
<1>5. /\ Linked(m, h, K) /\ Sorted(m, h, K, under) /\ h \in Heads /\ elm # Null
      /\ \A k \in K : k \in Keys /\ k \in Nodes /\ k # Null
      /\ under \in Labels /\ under[Null] = {} /\ m.root[h] \in Nodes
      /\ \A k \in K, e \in Sides : m.child[e][k] \in Nodes
  BY TreeTypes
<1>6. inner # elm /\ up # tmp
  <2>1. tmp \in under[elm] /\ elm \notin under[tmp]
    BY <1>1, <1>2, ChildLaws
  <2>2. inner # Null => inner \in under[tmp]
    BY ChildLaws
  <2>3. up # Null => up \notin under[elm]
    BY ParentLaws
  <2> QED
    BY <1>2, <1>5, <2>1, <2>2, <2>3
<1> QED
  BY <1>1, <1>2, <1>3, <1>4, <1>5, <1>6

\* After a rotation the links agree as they did before.
LEMMA RotateLinked ==
  ASSUME NEW m, NEW h, NEW K, NEW under, IsTree(m, h, K, under),
         NEW elm \in K, NEW d \in Sides,
         NEW tmp \in K, tmp = m.child[Opposite(d)][elm],
         NEW r, Rotated(m, r, h, elm, d, tmp)
  PROVE  Linked(r, h, K)
<1> DEFINE o == Opposite(d)
           inner == m.child[d][tmp]
           up == m.parent[elm]
<1>1. o \in Sides /\ o # d /\ Opposite(o) = d /\ \A e \in Sides : e = d \/ e = o
  BY RotateLaws
<1>2. tmp # Null /\ tmp # elm /\ m.parent[tmp] = elm /\ m.child[d][elm] # tmp
  BY RotateLaws
<1>3. inner # Null => inner \in K /\ inner # tmp /\ m.parent[inner] = tmp /\ m.child[o][tmp] # inner
  BY RotateLaws
<1>4. up # Null => /\ up \in K /\ up # elm /\ SideOf(m, up, elm) \in Sides
                   /\ m.child[SideOf(m, up, elm)][up] = elm
                   /\ \A e \in Sides : m.child[e][up] = elm => e = SideOf(m, up, elm)
                   /\ m.root[h] # elm
  BY RotateLaws
<1>5. Linked(m, h, K) /\ h \in Heads /\ elm # Null /\ \A k \in K : k \in Keys /\ k # Null
  BY RotateLaws
<1>6. inner # elm /\ up # tmp
  BY RotateLaws
<1>7. r.root[h] # Null => r.root[h] \in K /\ r.parent[r.root[h]] = Null
  <2>1. CASE up = Null
    BY <1>2, <1>5, <2>1 DEF Rotated
  <2>2. CASE up # Null
    <3>1. r.root[h] = m.root[h]
      BY <1>5, <2>2 DEF Rotated
    <3> QED
      BY <1>2, <1>3, <1>4, <1>5, <1>6, <2>2, <3>1 DEF Linked, Rotated
  <2> QED
    BY <2>1, <2>2
<1>8. ASSUME NEW k \in K, NEW e \in Sides, r.child[e][k] # Null
      PROVE  r.child[e][k] \in K /\ r.parent[r.child[e][k]] = k
  <2>1. CASE k = elm /\ e = o
    BY <1>2, <1>3, <1>5, <1>6, <1>8, <2>1 DEF Rotated
  <2>2. CASE k = tmp /\ e = d
    BY <1>2, <1>5, <1>8, <2>2 DEF Rotated
  <2>3. CASE k = up /\ e = SideOf(m, up, elm)
    BY <1>2, <1>4, <1>5, <1>6, <2>3 DEF Rotated
  <2>4. CASE ~ (k = elm /\ e = o) /\ ~ (k = tmp /\ e = d) /\ ~ (k = up /\ e = SideOf(m, up, elm))
    <3> DEFINE c == m.child[e][k]
    <3>1. r.child[e][k] = c
      BY <1>5, <2>4 DEF Rotated
    <3>2. c \in K /\ m.parent[c] = k
      BY <1>5, <1>8, <3>1 DEF Linked
    <3>3. c # elm
      BY <1>4, <1>5, <2>4, <3>2
    <3>4. c # tmp
      BY <1>1, <1>2, <2>4, <3>2
    <3>5. c # inner
      BY <1>1, <1>3, <1>8, <2>4, <3>1, <3>2
    <3> QED
      BY <1>5, <3>1, <3>2, <3>3, <3>4, <3>5 DEF Rotated
  <2> QED
    BY <2>1, <2>2, <2>3, <2>4
<1>9. ASSUME NEW k \in K, r.parent[k] # Null
      PROVE  r.parent[k] \in K /\ \E e \in Sides : r.child[e][r.parent[k]] = k
  BY <1>1, <1>2, <1>3, <1>4, <1>5, <1>6, <1>9 DEF Linked, Rotated
<1>10. ASSUME NEW k \in K, r.parent[k] = Null PROVE r.root[h] = k
  BY <1>1, <1>2, <1>3, <1>4, <1>5, <1>6, <1>10 DEF Linked, Rotated
<1> QED
  BY <1>7, <1>8, <1>9, <1>10 DEF Linked

\* The keys below two nodes change, and stay in order.
LEMMA RotateSorted ==
  ASSUME NEW m, NEW h, NEW K, NEW under, IsTree(m, h, K, under),
         NEW elm \in K, NEW d \in Sides,
         NEW tmp \in K, tmp = m.child[Opposite(d)][elm],
         NEW r, Rotated(m, r, h, elm, d, tmp)
  PROVE  Sorted(r, h, K, Lowered(m, under, elm, d, tmp))
<1> DEFINE o == Opposite(d)
           inner == m.child[d][tmp]
           outer == m.child[d][elm]
           up == m.parent[elm]
           low == Lowered(m, under, elm, d, tmp)
<1>1. o \in Sides /\ o # d /\ Opposite(o) = d /\ \A e \in Sides : e = d \/ e = o
  BY RotateLaws
<1>2. tmp # Null /\ tmp # elm /\ m.parent[tmp] = elm /\ m.child[d][elm] # tmp
  BY RotateLaws
<1>3. inner # Null => inner \in K /\ inner # tmp /\ m.parent[inner] = tmp /\ m.child[o][tmp] # inner
  BY RotateLaws
<1>4. up # Null => /\ up \in K /\ up # elm /\ SideOf(m, up, elm) \in Sides
                   /\ m.child[SideOf(m, up, elm)][up] = elm
                   /\ \A e \in Sides : m.child[e][up] = elm => e = SideOf(m, up, elm)
                   /\ m.root[h] # elm
  BY RotateLaws
<1>5. /\ Linked(m, h, K) /\ Sorted(m, h, K, under) /\ h \in Heads /\ elm # Null
      /\ \A k \in K : k \in Keys /\ k \in Nodes /\ k # Null
      /\ under \in Labels /\ under[Null] = {} /\ m.root[h] \in Nodes
      /\ \A k \in K, e \in Sides : m.child[e][k] \in Nodes
  BY RotateLaws
<1>6. inner # elm /\ up # tmp
  BY RotateLaws
<1>7. /\ low[Null] = {} /\ low[tmp] = under[elm]
      /\ low[elm] = {elm} \cup under[outer] \cup under[inner]
      /\ \A n \in Nodes : n \notin {elm, tmp} => low[n] = under[n]
  BY <1>2, <1>5, KeysNodes DEF Lowered, Labels
<1>8. /\ under[elm] = {elm} \cup under[outer] \cup under[tmp]
      /\ \A j \in under[outer] : Before(d, j, elm)
      /\ \A j \in under[tmp] : Before(d, elm, j)
      /\ under[elm] \subseteq K
  BY UnderLaws
<1>9. /\ under[tmp] = {tmp} \cup under[inner] \cup under[m.child[o][tmp]]
      /\ \A j \in under[inner] : Before(d, j, tmp)
      /\ \A j \in under[m.child[o][tmp]] : Before(d, tmp, j)
  BY UnderLaws
<1>10. low[r.root[h]] = K
  <2>1. under[m.root[h]] = K
    BY <1>5 DEF Sorted
  <2>2. CASE up = Null
    BY <1>5, <1>7, <2>1, <2>2 DEF Rotated, Linked
  <2>3. CASE up # Null
    <3>1. r.root[h] = m.root[h] /\ m.root[h] # elm
      BY <1>4, <1>5, <2>3 DEF Rotated
    <3>2. m.root[h] # tmp
      BY <1>2, <1>5 DEF Linked
    <3> QED
      BY <1>5, <1>7, <2>1, <3>1, <3>2
  <2> QED
    BY <2>2, <2>3
<1>11. ASSUME NEW k \in K
       PROVE  /\ low[k] \subseteq K
              /\ low[k] = {k} \cup low[r.child["left"][k]] \cup low[r.child["right"][k]]
              /\ \A e \in Sides : \A j \in low[r.child[e][k]] : Before(e, j, k)
  <2>0. /\ low[k] = {k} \cup low[r.child[d][k]] \cup low[r.child[o][k]]
        /\ \A j \in low[r.child[d][k]] : Before(d, j, k)
        /\ \A j \in low[r.child[o][k]] : Before(d, k, j)
        /\ low[k] \subseteq K
    <3>1. CASE k = elm
      <4>1. r.child[d][k] = outer /\ r.child[o][k] = inner
        BY <1>1, <1>2, <1>4, <1>5, <1>6, <3>1 DEF Rotated
      <4>2. outer \notin {elm, tmp} /\ inner \notin {elm, tmp} /\ outer \in Nodes /\ inner \in Nodes
        BY <1>2, <1>3, <1>5, <1>6, ChildLaws
      <4>3. under[inner] \subseteq under[tmp]
        BY <1>9
      <4> QED
        BY <1>7, <1>8, <3>1, <4>1, <4>2, <4>3
    <3>2. CASE k = tmp
      <4>1. r.child[d][k] = elm /\ r.child[o][k] = m.child[o][tmp]
        BY <1>1, <1>2, <1>4, <1>5, <1>6, <3>2 DEF Rotated
      <4>2. m.child[o][tmp] \notin {elm, tmp} /\ m.child[o][tmp] \in Nodes
        <5>1. m.child[o][tmp] # tmp
          BY <1>1, <1>2, ChildLaws
        <5>2. m.child[o][tmp] # elm
          <6>1. elm \notin under[tmp]
            BY <1>1, <1>2, ChildLaws
          <6> QED
            BY <1>1, <1>5, <6>1, ChildLaws
        <5> QED
          BY <1>1, <1>5, <5>1, <5>2
      <4>3. low[tmp] = {tmp} \cup low[elm] \cup under[m.child[o][tmp]]
        BY <1>7, <1>8, <1>9
      <4>4. tmp \in under[tmp] /\ Before(d, elm, tmp)
        BY <1>8, TreeTypes
      <4>5. \A j \in under[outer] : Before(d, j, tmp)
        <5> TAKE j \in under[outer]
        <5>1. j \in Keys
          BY <1>5, <1>8
        <5> QED
          BY <1>5, <1>8, <4>4, <5>1, BeforeLaws
      <4>6. \A j \in low[elm] : Before(d, j, tmp)
        BY <1>7, <1>9, <4>4, <4>5
      <4>7. low[r.child[o][k]] = under[m.child[o][tmp]] /\ low[r.child[d][k]] = low[elm]
        BY <1>7, <4>1, <4>2
      <4> QED
        BY <1>7, <1>8, <1>9, <3>2, <4>3, <4>6, <4>7
    <3>3. CASE k \notin {elm, tmp}
      <4>1. \A e \in Sides : low[r.child[e][k]] = under[m.child[e][k]]
        <5> TAKE e \in Sides
        <5>1. CASE k = up /\ e = SideOf(m, up, elm)
          BY <1>4, <1>5, <1>7, <3>3, <5>1 DEF Rotated
        <5>2. CASE ~ (k = up /\ e = SideOf(m, up, elm))
          <6> DEFINE c == m.child[e][k]
          <6>1. r.child[e][k] = c
            BY <1>5, <3>3, <5>2 DEF Rotated
          <6>2. c # Null => m.parent[c] = k
            BY <1>5 DEF Linked
          <6>3. c # elm
            BY <1>4, <1>5, <5>2, <6>2
          <6>4. c # tmp
            BY <1>2, <3>3, <6>2
          <6> QED
            BY <1>5, <1>7, <6>1, <6>3, <6>4
        <5> QED
          BY <5>1, <5>2
      <4>2. /\ under[k] = {k} \cup under[m.child[d][k]] \cup under[m.child[o][k]]
            /\ \A j \in under[m.child[d][k]] : Before(d, j, k)
            /\ \A j \in under[m.child[o][k]] : Before(d, k, j)
            /\ under[k] \subseteq K
        BY UnderLaws
      <4> QED
        BY <1>1, <1>5, <1>7, <3>3, <4>1, <4>2
    <3> QED
      BY <3>1, <3>2, <3>3
  <2>1. low[k] = {k} \cup low[r.child["left"][k]] \cup low[r.child["right"][k]]
    BY <2>0 DEF Sides, Opposite
  <2>2. \A j \in low[r.child[o][k]] : Before(o, j, k)
    <3> TAKE j \in low[r.child[o][k]]
    <3>1. j \in Keys
      BY <1>5, <2>0
    <3> QED
      BY <1>5, <2>0, <3>1, BeforeLaws
  <2> QED
    BY <1>1, <2>0, <2>1, <2>2
<1> QED
  BY <1>7, <1>10, <1>11 DEF Sorted

\* The sets stay nested.
LEMMA RotateNested ==
  ASSUME NEW m, NEW h, NEW K, NEW under, IsTree(m, h, K, under),
         NEW elm \in K, NEW d \in Sides,
         NEW tmp \in K, tmp = m.child[Opposite(d)][elm],
         NEW r, Rotated(m, r, h, elm, d, tmp)
  PROVE  Nested(r, K, Lowered(m, under, elm, d, tmp))
<1> DEFINE o == Opposite(d)
           inner == m.child[d][tmp]
           outer == m.child[d][elm]
           up == m.parent[elm]
           low == Lowered(m, under, elm, d, tmp)
<1>1. /\ o \in Sides /\ o # d /\ Opposite(o) = d
      /\ tmp # Null /\ tmp # elm /\ m.parent[tmp] = elm /\ elm # Null
      /\ inner # Null => inner \in K /\ inner # tmp /\ m.parent[inner] = tmp
      /\ inner # elm /\ up # tmp
      /\ \A k \in K : k \in Keys /\ k \in Nodes /\ k # Null
      /\ under \in Labels /\ under[Null] = {} /\ inner \in Nodes /\ outer \in Nodes
  BY RotateLaws
<1>2. /\ low[tmp] = under[elm]
      /\ low[elm] = {elm} \cup under[outer] \cup under[inner]
      /\ \A n \in K : n \notin {elm, tmp} => low[n] = under[n]
  BY <1>1 DEF Lowered, Labels
<1>3. /\ under[elm] = {elm} \cup under[outer] \cup under[tmp]
      /\ under[elm] \subseteq K /\ elm \in under[elm] /\ tmp \in under[elm]
      /\ \A j \in under[outer] : Before(d, j, elm)
      /\ \A j \in under[tmp] : Before(d, elm, j)
  BY UnderLaws, TreeTypes
<1>4. /\ under[tmp] = {tmp} \cup under[inner] \cup under[m.child[o][tmp]]
      /\ \A j \in under[inner] : Before(d, j, tmp)
      /\ \A j \in under[m.child[o][tmp]] : Before(d, tmp, j)
  BY UnderLaws
<1>5. /\ elm \notin under[outer] /\ tmp \notin under[outer]
      /\ elm \notin under[inner] /\ tmp \notin under[inner]
  <2>1. elm \in Keys /\ tmp \in Keys
    BY <1>1
  <2> QED
    BY <1>3, <1>4, <2>1, BeforeLaws
<1>6. low[elm] \subseteq under[elm]
  BY <1>2, <1>3, <1>4
<1>7. /\ r.parent[elm] = tmp /\ r.parent[tmp] = up
      /\ inner # Null => r.parent[inner] = elm
      /\ \A j \in K : j \notin {elm, tmp, inner} => r.parent[j] = m.parent[j]
  BY <1>1 DEF Rotated
<1>8. ASSUME NEW k \in K, NEW j \in low[k]
      PROVE  /\ low[j] \subseteq low[k]
             /\ j # k => r.parent[j] \in low[k]
             /\ \A i \in K : i \notin low[k] => (j < i <=> k < i)
  <2>1. CASE k = tmp
    <3>1. j \in under[elm] /\ low[k] = under[elm] /\ j \in K /\ under[j] \subseteq under[elm]
      BY <1>2, <1>3, <2>1, NestedLaws
    <3>2. low[j] \subseteq low[k]
      BY <1>2, <1>6, <3>1
    <3>3. j # k => r.parent[j] \in low[k]
      <4> HAVE j # k
      <4>1. CASE j \in {elm, inner}
        BY <1>1, <1>3, <1>7, <2>1, <3>1, <4>1
      <4>2. CASE j \notin {elm, inner}
        <5>1. r.parent[j] = m.parent[j]
          BY <1>7, <2>1, <3>1, <4>2
        <5> QED
          BY <3>1, <4>2, <5>1, NestedLaws
      <4> QED
        BY <4>1, <4>2
    <3>4. \A i \in K : i \notin low[k] => (j < i <=> k < i)
      BY <1>3, <2>1, <3>1, NestedLaws
    <3> QED
      BY <3>2, <3>3, <3>4
  <2>2. CASE k = elm
    <3>1. j \in under[elm] /\ low[k] = low[elm] /\ j \in K /\ j # tmp
      <4>1. j \in low[elm]
        BY <2>2
      <4>2. j # tmp
        BY <1>1, <1>2, <1>5, <4>1
      <4> QED
        BY <1>3, <1>6, <2>2, <4>1, <4>2
    <3>2. ASSUME j # elm, NEW c \in K, c \in {outer, inner}, j \in under[c], under[c] \subseteq low[elm]
          PROVE  low[j] \subseteq low[k] /\ r.parent[j] \in low[k]
      <4>1. j \notin {elm, tmp} /\ under[j] \subseteq under[c]
        BY <3>1, <3>2, NestedLaws
      <4>2. low[j] \subseteq low[k]
        BY <1>2, <3>1, <3>2, <4>1
      <4>3. CASE j = c
        <5>1. m.parent[c] = elm \/ c = inner
          BY <1>1, <3>2, ChildLaws
        <5>2. r.parent[j] = elm
          BY <1>1, <1>7, <3>1, <4>1, <4>3, <5>1
        <5> QED
          BY <1>2, <3>1, <4>2, <5>2
      <4>4. CASE j # c
        <5>1. m.parent[j] \in under[c]
          BY <3>2, <4>4, NestedLaws
        <5>2. j # inner
          BY <1>1, <1>5, <3>1, <3>2, <5>1
        <5> QED
          BY <1>7, <2>2, <3>1, <3>2, <4>1, <4>2, <5>1, <5>2
      <4> QED
        BY <4>3, <4>4
    <3>3. low[j] \subseteq low[k] /\ (j # k => r.parent[j] \in low[k])
      <4>1. CASE j = elm
        BY <2>2, <4>1
      <4>2. CASE j \in under[outer]
        <5>1. outer \in K
          BY <1>1, <4>2, ChildLaws
        <5> QED
          BY <1>2, <1>5, <3>2, <4>2, <5>1
      <4>3. CASE j \in under[inner]
        <5>1. inner \in K
          BY <1>1, <4>3
        <5> QED
          BY <1>2, <1>5, <3>2, <4>3, <5>1
      <4> QED
        BY <1>2, <2>2, <4>1, <4>2, <4>3
    <3>4. ASSUME NEW i \in K, i \notin low[k] PROVE j < i <=> k < i
      <4>1. CASE i \notin under[elm]
        BY <2>2, <3>1, <4>1, NestedLaws
      <4>2. CASE i \in under[elm]
        <5>1. i = tmp \/ Before(d, tmp, i)
          BY <1>2, <1>3, <1>4, <2>2, <3>4, <4>2
        <5>2. i \in Keys /\ j \in Keys /\ elm \in Keys /\ tmp \in Keys
          BY <1>1, <3>1
        <5>3. Before(d, elm, tmp)
          BY <1>3, TreeTypes
        <5>4. Before(d, j, tmp)
          <6>1. CASE j \in under[outer]
            BY <1>3, <5>2, <5>3, <6>1, BeforeLaws
          <6> QED
            BY <1>2, <1>4, <2>2, <5>3, <6>1
        <5>5. Before(d, elm, i) /\ Before(d, j, i)
          BY <5>1, <5>2, <5>3, <5>4, BeforeLaws
        <5> QED
          BY <2>2, <5>2, <5>5, KeysNodes DEF Before
      <4> QED
        BY <4>1, <4>2
    <3> QED
      BY <3>3, <3>4
  <2>3. CASE k \notin {elm, tmp}
    <3>1. low[k] = under[k] /\ j \in under[k] /\ j \in K
      BY <1>2, <2>3, NestedLaws
    <3>2. elm \in under[k] => /\ under[elm] \subseteq under[k] /\ tmp \in under[k]
                              /\ up \in under[k]
      BY <1>3, <2>3, NestedLaws
    <3>3. tmp \in under[k] => elm \in under[k]
      BY <1>1, <2>3, NestedLaws
    <3>4. low[j] \subseteq low[k]
      <4>1. CASE j \in {elm, tmp}
        BY <1>2, <1>6, <3>1, <3>2, <3>3, <4>1
      <4>2. CASE j \notin {elm, tmp}
        BY <1>2, <3>1, <4>2, NestedLaws
      <4> QED
        BY <4>1, <4>2
    <3>5. j # k => r.parent[j] \in low[k]
      <4> HAVE j # k
      <4>1. m.parent[j] \in under[k]
        BY <3>1, NestedLaws
      <4>2. CASE j = inner
        <5>1. r.parent[j] = elm /\ tmp \in under[k]
          BY <1>1, <1>7, <3>1, <4>1, <4>2, KeysNodes
        <5> QED
          BY <3>1, <3>3, <5>1
      <4>3. CASE j \in {elm, tmp}
        BY <1>7, <3>1, <3>2, <3>3, <4>3
      <4> QED
        BY <1>7, <3>1, <4>1, <4>2, <4>3
    <3>6. \A i \in K : i \notin low[k] => (j < i <=> k < i)
      BY <3>1, NestedLaws
    <3> QED
      BY <3>4, <3>5, <3>6
  <2> QED
    BY <2>1, <2>2, <2>3
<1> QED
  BY <1>8 DEF Nested

\* A rotation leaves the tree a search tree of the same keys.
LEMMA RotateTree ==
  ASSUME NEW m, NEW h, NEW K, NEW under, IsTree(m, h, K, under),
         NEW elm \in K, NEW d \in Sides,
         NEW tmp \in K, tmp = m.child[Opposite(d)][elm],
         NEW r, r = Rotate(m, h, elm, d)
  PROVE  Rotated(m, r, h, elm, d, tmp) /\ IsTree(r, h, K, Lowered(m, under, elm, d, tmp))
<1> DEFINE low == Lowered(m, under, elm, d, tmp)
<1>1. /\ m \in Memory /\ h \in Heads /\ elm \in Keys /\ tmp \in Keys /\ K \subseteq Keys
      /\ under \in Labels
  BY TreeTypes DEF IsTree
<1>2. tmp # elm /\ m.parent[elm] \notin {elm, tmp} /\ m.child[d][tmp] \notin {elm, tmp}
  BY RotateLaws, <1>1, KeysNodes
<1>3. Rotated(m, r, h, elm, d, tmp)
  BY <1>1, <1>2, RotateFields
<1>4. Tree(r, h, K, low)
  BY <1>3, RotateLinked, RotateSorted, RotateNested DEF Tree
<1>5. r \in Memory
  BY <1>3 DEF Rotated
<1>6. low \in Labels
  <2>1. under[elm] \subseteq Keys
    BY <1>1, TreeTypes
  <2>2. elm \in Nodes /\ m.child[d][elm] \in Nodes /\ m.child[d][tmp] \in Nodes
    BY TreeTypes
  <2>3. {elm} \cup under[m.child[d][elm]] \cup under[m.child[d][tmp]] \subseteq Keys
    BY <1>1, <2>2 DEF Labels
  <2> QED
    BY <1>1, <2>1, <2>3 DEF Lowered, Labels
<1> QED
  BY <1>1, <1>3, <1>4, <1>5, <1>6 DEF IsTree

\* Whether the links form a tree with these labels depends on the links of its
\* nodes only.
LEMMA SameTree ==
  ASSUME NEW m, NEW h, NEW K, NEW under, IsTree(m, h, K, under),
         NEW r \in Memory, NEW g \in Heads, NEW labels \in Labels,
         r.root[g] = m.root[h],
         \A k \in K : r.parent[k] = m.parent[k] /\ \A d \in Sides : r.child[d][k] = m.child[d][k],
         \A n \in K \cup {Null} : labels[n] = under[n]
  PROVE  IsTree(r, g, K, labels)
<1>1. Linked(m, h, K) /\ Sorted(m, h, K, under) /\ Nested(m, K, under) /\ K \subseteq Keys
  BY TreeTypes DEF IsTree
<1>2. Linked(r, g, K)
  BY <1>1 DEF Linked
<1>3. m.root[h] \in K \cup {Null} /\ \A k \in K, d \in Sides : m.child[d][k] \in K \cup {Null}
  BY <1>1 DEF Linked
<1>4. Sorted(r, g, K, labels)
  BY <1>1, <1>3 DEF Sorted, Sides
<1>5. \A k \in K : under[k] \subseteq K
  BY <1>1 DEF Sorted
<1>6. Nested(r, K, labels)
  BY <1>1, <1>5 DEF Nested
<1> QED
  BY <1>1, <1>2, <1>4, <1>6 DEF IsTree, Tree

-----------------------------------------------------------------------------
(* Inserting                                                               *)

\* What Link does to each field.
LinkedAt(m, r, h, k, p) ==
    /\ r \in Memory
    /\ \A i \in Keys : r.parent[i] = IF i = k THEN p ELSE m.parent[i]
    /\ \A i \in Keys : r.color[i] = IF i = k THEN Red ELSE m.color[i]
    /\ \A e \in Sides, i \in Keys : r.child[e][i] =
         IF i = k THEN Null ELSE IF i = p /\ e = SideFor(k, p) THEN k ELSE m.child[e][i]
    /\ \A g \in Heads : r.root[g] = IF g = h /\ p = Null THEN k ELSE m.root[g]

\* Link does this to every field.
LEMMA LinkFields ==
  ASSUME NEW m \in Memory, NEW h \in Heads, NEW k \in Keys, NEW p \in Nodes, p # k
  PROVE  LinkedAt(m, Link(m, h, k, p), h, k, p)
<1>a. PICK a : a = [m EXCEPT !.parent[k] = p, !.child["left"][k] = Null,
                             !.child["right"][k] = Null, !.color[k] = Red]
  OBVIOUS
<1>r. PICK r : r = IF p = Null THEN [a EXCEPT !.root[h] = k]
                   ELSE [a EXCEPT !.child[SideFor(k, p)][p] = k]
  OBVIOUS
<1>1. r = Link(m, h, k, p)
  BY <1>a, <1>r DEF Link
<1>2. /\ a \in Memory
      /\ a.root = m.root
      /\ \A i \in Keys : a.parent[i] = IF i = k THEN p ELSE m.parent[i]
      /\ \A i \in Keys : a.color[i] = IF i = k THEN Red ELSE m.color[i]
      /\ \A e \in Sides, i \in Keys : a.child[e][i] = IF i = k THEN Null ELSE m.child[e][i]
  BY <1>a, KeysNodes DEF Memory, Sides
<1>3. SideFor(k, p) \in Sides /\ k \in Nodes
  BY KeysNodes DEF SideFor, Sides
<1>4. LinkedAt(m, r, h, k, p)
  <2>1. CASE p = Null
    <3>1. r = [a EXCEPT !.root[h] = k]
      BY <1>r, <2>1
    <3>2. /\ r \in Memory /\ r.parent = a.parent /\ r.color = a.color /\ r.child = a.child
          /\ \A g \in Heads : r.root[g] = IF g = h THEN k ELSE a.root[g]
      BY <1>2, <1>3, <3>1 DEF Memory
    <3> QED
      BY <1>2, <2>1, <3>2, KeysNodes DEF LinkedAt
  <2>2. CASE p # Null
    <3>1. r = [a EXCEPT !.child[SideFor(k, p)][p] = k]
      BY <1>r, <2>2
    <3>2. p \in Keys
      BY <2>2, KeysNodes
    <3>3. /\ r \in Memory /\ r.parent = a.parent /\ r.color = a.color /\ r.root = a.root
          /\ \A e \in Sides, i \in Keys :
               r.child[e][i] = IF e = SideFor(k, p) /\ i = p THEN k ELSE a.child[e][i]
      BY <1>2, <1>3, <3>1, <3>2 DEF Memory
    <3> QED
      BY <1>2, <2>2, <3>3 DEF LinkedAt
  <2> QED
    BY <2>1, <2>2
<1> QED
  BY <1>1, <1>4

\* The labels after k has been linked below p.
Extended(under, k, p) ==
    [n \in Nodes |-> IF n = k THEN {k} ELSE IF p \in under[n] THEN under[n] \cup {k} ELSE under[n]]

\* A new leaf at its place makes a tree with one key more.
LEMMA LinkTree ==
  ASSUME NEW m, NEW h, NEW K, NEW under, IsTree(m, h, K, under),
         NEW k \in Keys, k \notin K, NEW p \in K \cup {Null},
         p = Null => m.root[h] = Null,
         p # Null => /\ m.child[SideFor(k, p)][p] = Null
                     /\ \A j \in K : j # p => (p < j <=> k < j),
         NEW r, LinkedAt(m, r, h, k, p)
  PROVE  IsTree(r, h, K \cup {k}, Extended(under, k, p))
<1> DEFINE more == Extended(under, k, p)
           L == K \cup {k}
           s == SideFor(k, p)
<1>1. /\ Linked(m, h, K) /\ Sorted(m, h, K, under) /\ h \in Heads
      /\ m \in Memory /\ under \in Labels /\ under[Null] = {} /\ k # Null
      /\ K \subseteq Keys /\ \A i \in K : i \in Keys /\ i \in Nodes /\ i # Null /\ i # k
      /\ \A i \in K, e \in Sides : m.child[e][i] \in Nodes
  BY TreeTypes, KeysNodes
<1>2. more \in Labels
  BY <1>1 DEF Extended, Labels
<1>3. s \in Sides
  BY DEF SideFor, Sides
<1>4. p = Null => K = {}
  BY <1>1 DEF Sorted
<1>5. /\ more[k] = {k} /\ more[Null] = {}
      /\ \A i \in K : more[i] = IF p \in under[i] THEN under[i] \cup {k} ELSE under[i]
      /\ \A i \in K, e \in Sides : more[m.child[e][i]] =
           IF p \in under[m.child[e][i]] THEN under[m.child[e][i]] \cup {k}
           ELSE under[m.child[e][i]]
  <2>1. more[k] = {k} /\ more[Null] = {}
    BY <1>1, KeysNodes DEF Extended
  <2>2. \A i \in K : more[i] = IF p \in under[i] THEN under[i] \cup {k} ELSE under[i]
    BY <1>1 DEF Extended
  <2>3. \A i \in K, e \in Sides : m.child[e][i] # k
    BY <1>1 DEF Linked
  <2> QED
    BY <1>1, <2>1, <2>2, <2>3 DEF Extended
<1>6. /\ r.child["left"][k] = Null /\ r.child["right"][k] = Null
      /\ \A e \in Sides : r.child[e][k] = Null
      /\ p # Null => r.child[s][p] = k
      /\ \A i \in K, e \in Sides : ~ (i = p /\ e = s) => r.child[e][i] = m.child[e][i]
      /\ r.parent[k] = p
      /\ \A i \in K : r.parent[i] = m.parent[i]
      /\ r.root[h] = IF p = Null THEN k ELSE m.root[h]
  BY <1>1, <1>3 DEF LinkedAt, Sides
<1>7. Linked(r, h, L)
  <2>1. r.root[h] \in L /\ r.parent[r.root[h]] = Null
    BY <1>1, <1>4, <1>6 DEF Linked, Sorted
  <2>2. ASSUME NEW i \in L, NEW e \in Sides, r.child[e][i] # Null
        PROVE  r.child[e][i] \in L /\ r.parent[r.child[e][i]] = i
    BY <1>1, <1>6, <2>2 DEF Linked
  <2>3. ASSUME NEW i \in L, r.parent[i] # Null
        PROVE  r.parent[i] \in L /\ \E e \in Sides : r.child[e][r.parent[i]] = i
    <3>1. CASE i = k
      BY <1>3, <1>6, <2>3, <3>1
    <3>2. CASE i # k
      <4>1. PICK e \in Sides : m.child[e][m.parent[i]] = i
        BY <1>1, <1>6, <2>3, <3>2 DEF Linked
      <4>2. m.parent[i] \in K /\ i \in K
        BY <1>1, <1>6, <2>3, <3>2 DEF Linked
      <4> QED
        BY <1>1, <1>6, <2>3, <3>2, <4>1, <4>2
    <3> QED
      BY <3>1, <3>2
  <2>4. ASSUME NEW i \in L, r.parent[i] = Null PROVE r.root[h] = i
    BY <1>1, <1>4, <1>6, <2>4 DEF Linked
  <2> QED
    BY <2>1, <2>2, <2>3, <2>4 DEF Linked
<1>8. /\ p # Null => Before(s, k, p)
      /\ \A i \in K, e \in Sides : p \in under[m.child[e][i]] => Before(e, k, i)
  <2>1. p # Null => Before(s, k, p)
    BY <1>1 DEF Before, SideFor, Keys
  <2>2. ASSUME NEW i \in K, NEW e \in Sides, p \in under[m.child[e][i]] PROVE Before(e, k, i)
    <3>1. Before(e, p, i) /\ i \in Keys /\ p \in Keys /\ p # Null
      BY <1>1, <2>2, KeysNodes DEF Sorted, Labels
    <3>2. p # i
      BY <2>2, <3>1, BeforeLaws
    <3>3. p < i <=> k < i
      BY <1>1, <3>1, <3>2
    <3> QED
      BY <1>1, <3>1, <3>2, <3>3 DEF Before, Keys, Sides
  <2> QED
    BY <2>1, <2>2
<1>9. Sorted(r, h, L, more)
  <2>1. more[r.root[h]] = L
    <3>1. CASE p = Null
      BY <1>4, <1>5, <1>6, <3>1
    <3>2. CASE p # Null
      <4>1. under[m.root[h]] = K /\ m.root[h] \in K
        BY <1>1, <3>2 DEF Sorted, Linked
      <4> QED
        BY <1>5, <1>6, <3>2, <4>1
    <3> QED
      BY <3>1, <3>2
  <2>2. ASSUME NEW i \in K
        PROVE  /\ more[i] \subseteq L
               /\ more[i] = {i} \cup more[r.child["left"][i]] \cup more[r.child["right"][i]]
               /\ \A e \in Sides : \A j \in more[r.child[e][i]] : Before(e, j, i)
    <3>1. /\ under[i] \subseteq K
          /\ under[i] = {i} \cup under[m.child["left"][i]] \cup under[m.child["right"][i]]
          /\ \A e \in Sides : \A j \in under[m.child[e][i]] : Before(e, j, i)
      BY <1>1 DEF Sorted
    <3>2. CASE i = p
      <4>1. \A e \in Sides : p \notin under[m.child[e][i]]
        BY <1>1, <3>1, <3>2, BeforeLaws
      <4>2. \A e \in Sides : r.child[e][i] =
              IF e = s THEN k ELSE m.child[e][i]
        BY <1>1, <1>6, <3>2
      <4>3. \A e \in Sides : more[r.child[e][i]] =
              IF e = s THEN {k} ELSE under[m.child[e][i]]
        BY <1>5, <4>1, <4>2
      <4>4. under[m.child[s][i]] = {} /\ p \in under[i]
        BY <1>1, <3>1, <3>2
      <4>5. more[i] = under[i] \cup {k}
        BY <1>5, <3>2, <4>4
      <4>6. more[i] = {i} \cup more[r.child["left"][i]] \cup more[r.child["right"][i]]
        BY <1>3, <3>1, <4>3, <4>4, <4>5 DEF Sides
      <4>7. \A e \in Sides : \A j \in more[r.child[e][i]] : Before(e, j, i)
        BY <1>1, <1>8, <3>1, <3>2, <4>3
      <4> QED
        BY <3>1, <4>5, <4>6, <4>7
    <3>3. CASE i # p
      <4>1. \A e \in Sides : r.child[e][i] = m.child[e][i]
        BY <1>6, <3>3
      <4>2. p \in under[i] <=> (p \in under[m.child["left"][i]] \/ p \in under[m.child["right"][i]])
        BY <3>1, <3>3
      <4>3. more[i] = {i} \cup more[r.child["left"][i]] \cup more[r.child["right"][i]]
        BY <1>5, <3>1, <4>1, <4>2 DEF Sides
      <4>4. ASSUME NEW e \in Sides, NEW j \in more[r.child[e][i]] PROVE Before(e, j, i)
        <5>1. j \in IF p \in under[m.child[e][i]] THEN under[m.child[e][i]] \cup {k}
                    ELSE under[m.child[e][i]]
          BY <1>5, <4>1
        <5>2. j \in under[m.child[e][i]] \/ (j = k /\ p \in under[m.child[e][i]])
          BY <5>1
        <5> QED
          BY <1>8, <3>1, <5>2
      <4> QED
        BY <1>5, <3>1, <4>3, <4>4
    <3> QED
      BY <3>2, <3>3
  <2>3. /\ more[k] \subseteq L
        /\ more[k] = {k} \cup more[r.child["left"][k]] \cup more[r.child["right"][k]]
        /\ \A e \in Sides : \A j \in more[r.child[e][k]] : Before(e, j, k)
    BY <1>5, <1>6
  <2> QED
    BY <1>5, <2>1, <2>2, <2>3 DEF Sorted
<1>10. Nested(r, L, more)
  <2>1. ASSUME NEW i \in L, NEW j \in more[i]
        PROVE  /\ more[j] \subseteq more[i]
               /\ j # i => r.parent[j] \in more[i]
               /\ \A x \in L \ more[i] : j < x <=> i < x
    <3>1. CASE i = k
      BY <1>5, <2>1, <3>1
    <3>2. CASE i # k /\ j = k
      <4>1. p \in under[i] /\ i \in K
        BY <1>1, <1>5, <2>1, <3>2, TreeTypes
      <4>5. more[i] = under[i] \cup {k}
        BY <1>5, <4>1
      <4>2. \A x \in L \ more[i] : x \in K /\ x # p /\ x \notin under[i]
        BY <4>1, <4>5
      <4>3. \A x \in L \ more[i] : (p < x <=> i < x) /\ (p < x <=> k < x)
        BY <1>1, <4>1, <4>2, NestedLaws
      <4> QED
        BY <1>5, <1>6, <3>2, <4>1, <4>3
    <3>3. CASE i # k /\ j # k
      <4>5. i \in K /\ j \in under[i] /\ under[i] \subseteq more[i]
        BY <1>5, <2>1, <3>3
      <4>1. i \in K /\ j \in under[i] /\ j \in K
        BY <4>5, NestedLaws
      <4>2. under[j] \subseteq under[i] /\ (j # i => m.parent[j] \in under[i])
        BY <4>1, NestedLaws
      <4>3. more[j] \subseteq more[i] /\ (j # i => r.parent[j] \in more[i])
        BY <1>5, <1>6, <4>1, <4>2
      <4>4. ASSUME NEW x \in L \ more[i] PROVE j < x <=> i < x
        <5>1. CASE x \in K
          <6>1. x \notin under[i]
            BY <4>4, <4>5
          <6> QED
            BY <4>1, <5>1, <6>1, NestedLaws
        <5>2. CASE x = k
          <6>1. p \notin under[i] /\ p \in K /\ p # Null
            BY <1>1, <1>4, <1>5, <4>1, <4>4, <5>2
          <6>2. j < p <=> i < p
            BY <4>1, <6>1, NestedLaws
          <6>3. j # p /\ i # p
            BY <4>1, <6>1, TreeTypes
          <6>4. (p < j <=> k < j) /\ (p < i <=> k < i)
            BY <4>1, <6>1, <6>3
          <6>5. i \in Int /\ j \in Int /\ p \in Int /\ k \in Int /\ i # k /\ j # k
            BY <1>1, <4>1, <6>1, KeysNodes
          <6> QED
            BY <5>2, <6>2, <6>3, <6>4, <6>5
        <5> QED
          BY <5>1, <5>2
      <4> QED
        BY <4>3, <4>4
    <3> QED
      BY <3>1, <3>2, <3>3
  <2> QED
    BY <2>1 DEF Nested
<1>11. r \in Memory /\ L \subseteq Keys
  BY <1>1 DEF LinkedAt
<1> QED
  BY <1>1, <1>2, <1>7, <1>9, <1>10, <1>11 DEF IsTree, Tree

-----------------------------------------------------------------------------
(* Unlinking a node with at most one child                                 *)

\* What Splice does to each field.
Spliced(m, r, h, elm, child) ==
    LET p == m.parent[elm] IN
    /\ r \in Memory
    /\ r.color = m.color
    /\ \A i \in Keys : r.parent[i] = IF i = child THEN p ELSE m.parent[i]
    /\ \A e \in Sides, i \in Keys : r.child[e][i] =
         IF i = p /\ e = SideOf(m, p, elm) THEN child ELSE m.child[e][i]
    /\ \A g \in Heads : r.root[g] = IF g = h /\ p = Null THEN child ELSE m.root[g]

\* Whatever led to a node leads to another.
LEMMA ReplaceFields ==
  ASSUME NEW m \in Memory, NEW h \in Heads, NEW p \in Nodes, NEW old, NEW new \in Nodes,
         NEW r, r = Replace(m, h, p, old, new)
  PROVE  /\ r \in Memory /\ r.color = m.color /\ r.parent = m.parent
         /\ \A e \in Sides, i \in Keys : r.child[e][i] =
              IF i = p /\ e = SideOf(m, p, old) THEN new ELSE m.child[e][i]
         /\ \A g \in Heads : r.root[g] = IF g = h /\ p = Null THEN new ELSE m.root[g]
<1>s. PICK s : s = SideOf(m, p, old)
  OBVIOUS
<1>1. s \in Sides
  BY <1>s DEF SideOf, Sides
<1>2. CASE p = Null
  <2>1. r = [m EXCEPT !.root[h] = new]
    BY <1>2 DEF Replace
  <2>2. /\ r \in Memory /\ r.parent = m.parent /\ r.color = m.color /\ r.child = m.child
        /\ \A g \in Heads : r.root[g] = IF g = h THEN new ELSE m.root[g]
    BY <2>1 DEF Memory
  <2> QED
    BY <1>2, <2>2, KeysNodes
<1>3. CASE p # Null
  <2>1. r = [m EXCEPT !.child[s][p] = new]
    BY <1>s, <1>3 DEF Replace
  <2>2. p \in Keys
    BY <1>3, KeysNodes
  <2>3. /\ r \in Memory /\ r.parent = m.parent /\ r.color = m.color /\ r.root = m.root
        /\ \A e \in Sides, i \in Keys :
             r.child[e][i] = IF e = s /\ i = p THEN new ELSE m.child[e][i]
    <3>c. PICK c : c = [m.child EXCEPT ![s][p] = new]
      OBVIOUS
    <3>1. m.child \in [Sides -> [Keys -> Nodes]]
      BY DEF Memory
    <3>2. /\ c \in [Sides -> [Keys -> Nodes]]
          /\ \A e \in Sides, i \in Keys :
               c[e][i] = IF e = s /\ i = p THEN new ELSE m.child[e][i]
      BY <1>1, <2>2, <3>c, <3>1
    <3>3. r = [m EXCEPT !.child = c]
      BY <2>1, <3>c
    <3> QED
      BY <3>2, <3>3 DEF Memory
  <2> QED
    BY <1>s, <1>3, <2>3
<1> QED
  BY <1>2, <1>3

\* The parent of a node, if there is a node, is set.
LEMMA SetParentFields ==
  ASSUME NEW m \in Memory, NEW n \in Nodes, NEW p \in Nodes,
         NEW r, r = SetParent(m, n, p)
  PROVE  /\ r \in Memory /\ r.color = m.color /\ r.child = m.child /\ r.root = m.root
         /\ \A i \in Keys : r.parent[i] = IF i = n THEN p ELSE m.parent[i]
<1>1. CASE n = Null
  BY <1>1, KeysNodes DEF SetParent
<1>2. CASE n # Null
  <2>1. r = [m EXCEPT !.parent[n] = p] /\ n \in Keys
    BY <1>2, KeysNodes DEF SetParent
  <2> QED
    BY <2>1 DEF Memory
<1> QED
  BY <1>1, <1>2

\* Splice does this to every field.
LEMMA SpliceFields ==
  ASSUME NEW m \in Memory, NEW h \in Heads, NEW elm \in Keys, NEW child \in Nodes
  PROVE  Spliced(m, Splice(m, h, elm, child), h, elm, child)
<1> DEFINE p == m.parent[elm]
<1>a. PICK a : a = SetParent(m, child, p)
  OBVIOUS
<1>r. PICK r : r = Replace(a, h, p, elm, child)
  OBVIOUS
<1>1. p \in Nodes
  BY DEF Memory
<1>2. /\ a \in Memory /\ a.color = m.color /\ a.child = m.child /\ a.root = m.root
      /\ \A i \in Keys : a.parent[i] = IF i = child THEN p ELSE m.parent[i]
  BY <1>a, <1>1, SetParentFields
<1>3. /\ r \in Memory /\ r.color = a.color /\ r.parent = a.parent
      /\ \A e \in Sides, i \in Keys : r.child[e][i] =
           IF i = p /\ e = SideOf(a, p, elm) THEN child ELSE a.child[e][i]
      /\ \A g \in Heads : r.root[g] = IF g = h /\ p = Null THEN child ELSE a.root[g]
  BY <1>r, <1>1, <1>2, ReplaceFields
<1>4. SideOf(a, p, elm) = SideOf(m, p, elm)
  BY <1>2 DEF SideOf
<1>5. Spliced(m, r, h, elm, child)
  BY <1>2, <1>3, <1>4 DEF Spliced
<1> QED
  BY <1>a, <1>r, <1>5 DEF Splice

\* The labels after a node has been unlinked.
Without(under, elm) == [n \in Nodes |-> under[n] \ {elm}]

\* A node with at most one child is taken out of a tree.
LEMMA SpliceTree ==
  ASSUME NEW m, NEW h, NEW K, NEW under, IsTree(m, h, K, under),
         NEW elm \in K, NEW d \in Sides, m.child[d][elm] = Null,
         NEW child, child = m.child[Opposite(d)][elm],
         NEW r, Spliced(m, r, h, elm, child)
  PROVE  IsTree(r, h, K \ {elm}, Without(under, elm))
<1> DEFINE o == Opposite(d)
           p == m.parent[elm]
           less == Without(under, elm)
           L == K \ {elm}
<1>1. /\ Linked(m, h, K) /\ Sorted(m, h, K, under) /\ h \in Heads
      /\ under \in Labels /\ under[Null] = {} /\ K \subseteq Keys
      /\ \A k \in K : k \in Keys /\ k \in Nodes /\ k # Null
      /\ \A k \in K, e \in Sides : m.child[e][k] \in Nodes
      /\ m.root[h] \in Nodes
  BY TreeTypes DEF IsTree
<1>2. o \in Sides /\ o # d /\ \A e \in Sides : e = d \/ e = o
  BY SidesLaws
<1>3. child # Null => child \in K /\ child # elm /\ m.parent[child] = elm
  BY <1>2, ChildLaws
<1>4. p # Null => /\ p \in K /\ p # elm /\ SideOf(m, p, elm) \in Sides
                  /\ m.child[SideOf(m, p, elm)][p] = elm
                  /\ \A e \in Sides : m.child[e][p] = elm => e = SideOf(m, p, elm)
                  /\ m.root[h] # elm
  BY ParentLaws
<1>5. under[elm] = {elm} \cup under[child] /\ elm \notin under[child]
  <2>1. under[elm] = {elm} \cup under[child]
    BY <1>1, UnderLaws
  <2>2. child # Null => elm \notin under[child]
    BY <1>2, ChildLaws
  <2> QED
    BY <1>1, <2>1, <2>2
<1>6. less \in Labels /\ \A n \in Nodes : less[n] = under[n] \ {elm}
  <2>1. \A n \in Nodes : under[n] \ {elm} \in SUBSET Keys
    BY <1>1 DEF Labels
  <2> QED
    BY <2>1 DEF Without, Labels
<1>7. /\ child # Null => r.parent[child] = p
      /\ \A k \in K : k # child => r.parent[k] = m.parent[k]
      /\ p # Null => r.child[SideOf(m, p, elm)][p] = child
      /\ \A k \in K, e \in Sides : ~ (k = p /\ e = SideOf(m, p, elm)) => r.child[e][k] = m.child[e][k]
      /\ r.root[h] = IF p = Null THEN child ELSE m.root[h]
  BY <1>1, <1>3, <1>4 DEF Spliced
<1>8. \A k \in L, e \in Sides : ~ (k = p /\ e = SideOf(m, p, elm)) => m.child[e][k] # elm
  BY <1>1, <1>4 DEF Linked
<1>9. Linked(r, h, L)
  <2>1. r.root[h] # Null => r.root[h] \in L /\ r.parent[r.root[h]] = Null
    <3>1. CASE p = Null
      BY <1>3, <1>7, <3>1
    <3>2. CASE p # Null
      <4>1. r.root[h] = m.root[h] /\ m.root[h] # elm
        BY <1>4, <1>7, <3>2
      <4> QED
        BY <1>1, <1>3, <1>7, <4>1 DEF Linked
    <3> QED
      BY <3>1, <3>2
  <2>2. ASSUME NEW k \in L, NEW e \in Sides, r.child[e][k] # Null
        PROVE  r.child[e][k] \in L /\ r.parent[r.child[e][k]] = k
    <3>1. CASE k = p /\ e = SideOf(m, p, elm)
      BY <1>1, <1>3, <1>7, <2>2, <3>1
    <3>2. CASE ~ (k = p /\ e = SideOf(m, p, elm))
      <4>1. r.child[e][k] = m.child[e][k] /\ m.child[e][k] # elm
        BY <1>7, <1>8, <3>2
      <4>2. m.child[e][k] \in K /\ m.parent[m.child[e][k]] = k
        BY <1>1, <2>2, <4>1 DEF Linked
      <4> QED
        BY <1>3, <1>7, <2>2, <4>1, <4>2
    <3> QED
      BY <3>1, <3>2
  <2>3. ASSUME NEW k \in L, r.parent[k] # Null
        PROVE  r.parent[k] \in L /\ \E e \in Sides : r.child[e][r.parent[k]] = k
    <3>1. CASE k = child
      BY <1>1, <1>4, <1>7, <2>3, <3>1
    <3>2. CASE k # child
      <4>1. r.parent[k] = m.parent[k]
        BY <1>7, <3>2
      <4>2. PICK e \in Sides : m.child[e][m.parent[k]] = k
        BY <1>1, <2>3, <4>1 DEF Linked
      <4>3. m.parent[k] \in L
        BY <1>1, <1>2, <2>3, <3>2, <4>1, <4>2 DEF Linked
      <4>4. ~ (m.parent[k] = p /\ e = SideOf(m, p, elm))
        BY <1>8, <1>1, <1>4, <4>2, <4>3
      <4> QED
        BY <1>7, <4>1, <4>2, <4>3, <4>4
    <3> QED
      BY <3>1, <3>2
  <2>4. ASSUME NEW k \in L, r.parent[k] = Null PROVE r.root[h] = k
    BY <1>1, <1>3, <1>4, <1>7, <2>4 DEF Linked
  <2> QED
    BY <2>1, <2>2, <2>3, <2>4 DEF Linked
<1>10. Sorted(r, h, L, less)
  <2>0. child \in Nodes /\ under[child] \ {elm} = under[elm] \ {elm}
    BY <1>1, <1>2, <1>5
  <2>1. less[Null] = {} /\ less[child] = under[elm] \ {elm}
    BY <1>1, <1>6, <2>0, KeysNodes
  <2>2. less[r.root[h]] = L
    <3>1. under[m.root[h]] = K
      BY <1>1 DEF Sorted
    <3>2. p = Null => m.root[h] = elm
      BY <1>1 DEF Linked
    <3> QED
      BY <1>1, <1>6, <1>7, <2>1, <3>1, <3>2
  <2>3. ASSUME NEW k \in L
        PROVE  /\ less[k] \subseteq L
               /\ less[k] = {k} \cup less[r.child["left"][k]] \cup less[r.child["right"][k]]
               /\ \A e \in Sides : \A j \in less[r.child[e][k]] : Before(e, j, k)
    <3>1. /\ under[k] \subseteq K
          /\ under[k] = {k} \cup under[m.child["left"][k]] \cup under[m.child["right"][k]]
          /\ \A e \in Sides : \A j \in under[m.child[e][k]] : Before(e, j, k)
      BY <1>1 DEF Sorted
    <3>2. \A e \in Sides : less[r.child[e][k]] = under[m.child[e][k]] \ {elm}
      <4> TAKE e \in Sides
      <4>1. CASE k = p /\ e = SideOf(m, p, elm)
        BY <1>1, <1>4, <1>7, <2>1, <4>1
      <4>2. CASE ~ (k = p /\ e = SideOf(m, p, elm))
        BY <1>1, <1>6, <1>7, <4>2
      <4> QED
        BY <4>1, <4>2
    <3>3. less[k] = under[k] \ {elm}
      BY <1>1, <1>6
    <3>4. less[k] = {k} \cup less[r.child["left"][k]] \cup less[r.child["right"][k]]
      BY <3>1, <3>2, <3>3 DEF Sides
    <3> QED
      BY <3>1, <3>2, <3>3, <3>4
  <2> QED
    BY <2>1, <2>2, <2>3 DEF Sorted
<1>11. Nested(r, L, less)
  <2>1. ASSUME NEW k \in L, NEW j \in less[k]
        PROVE  /\ less[j] \subseteq less[k]
               /\ j # k => r.parent[j] \in less[k]
               /\ \A i \in L \ less[k] : j < i <=> k < i
    <3>1. less[k] = under[k] \ {elm} /\ j \in under[k] /\ j # elm
      BY <1>1, <1>6, <2>1
    <3>2. /\ j \in K /\ under[j] \subseteq under[k]
          /\ j # k => m.parent[j] \in under[k]
          /\ \A i \in K : i \notin under[k] => (j < i <=> k < i)
      BY <3>1, NestedLaws
    <3>3. less[j] \subseteq less[k]
      BY <1>1, <1>6, <3>1, <3>2
    <3>4. ASSUME j # k PROVE r.parent[j] \in less[k]
      <4>1. CASE j = child
        <5>1. r.parent[j] = p /\ elm \in under[k]
          BY <1>1, <1>3, <1>7, <3>2, <3>4, <4>1
        <5>2. p \in under[k]
          BY <5>1, NestedLaws
        <5>3. p # elm
          BY <1>1, <1>4
        <5> QED
          BY <3>1, <5>1, <5>2, <5>3
      <4>2. CASE j # child
        <5>1. m.parent[j] # elm
          BY <1>1, <1>2, <3>2, <4>2 DEF Linked
        <5> QED
          BY <1>7, <3>1, <3>2, <3>4, <4>2, <5>1
      <4> QED
        BY <4>1, <4>2
    <3> QED
      BY <3>1, <3>2, <3>3, <3>4
  <2> QED
    BY <2>1 DEF Nested
<1>12. r \in Memory /\ L \subseteq Keys
  BY <1>1 DEF Spliced
<1> QED
  BY <1>1, <1>6, <1>9, <1>10, <1>11, <1>12 DEF IsTree, Tree

-----------------------------------------------------------------------------
(* Giving a node's place to another                                        *)

\* What TakePlace does to each field.
Placed(m, r, h, succ, old) ==
    LET p == m.parent[old] IN
    /\ r \in Memory
    /\ \A i \in Keys : r.color[i] = IF i = succ THEN m.color[old] ELSE m.color[i]
    /\ \A i \in Keys : r.parent[i] =
         IF \E e \in Sides : i = m.child[e][old] THEN succ
         ELSE IF i = succ THEN p ELSE m.parent[i]
    /\ \A e \in Sides, i \in Keys : r.child[e][i] =
         IF i = p /\ e = SideOf(m, p, old) THEN succ
         ELSE IF i = succ THEN m.child[e][old] ELSE m.child[e][i]
    /\ \A g \in Heads : r.root[g] = IF g = h /\ p = Null THEN succ ELSE m.root[g]

\* TakePlace does this to every field.
LEMMA TakePlaceFields ==
  ASSUME NEW m \in Memory, NEW h \in Heads, NEW old \in Keys, NEW succ \in Keys, succ # old,
         m.parent[old] # succ
  PROVE  Placed(m, TakePlace(m, h, succ, old), h, succ, old)
<1> DEFINE p == m.parent[old]
<1>x. PICK x : x = m.child["left"][old]
  OBVIOUS
<1>y. PICK y : y = m.child["right"][old]
  OBVIOUS
<1>z. PICK z : z = m.color[old]
  OBVIOUS
<1>w. PICK w : w = m.parent[old]
  OBVIOUS
<1>a. PICK a : a = [m EXCEPT !.child["left"][succ] = x, !.child["right"][succ] = y,
                             !.parent[succ] = w, !.color[succ] = z]
  OBVIOUS
<1>b. PICK b : b = Replace(a, h, p, old, succ)
  OBVIOUS
<1>c. PICK c : c = SetParent(b, x, succ)
  OBVIOUS
<1>r. PICK r : r = SetParent(c, y, succ)
  OBVIOUS
<1>1. /\ p \in Nodes /\ succ \in Nodes /\ x \in Nodes /\ y \in Nodes
      /\ w \in Nodes /\ z \in {Black, Red}
  BY <1>x, <1>y, <1>z, <1>w, KeysNodes DEF Memory, Sides
<1>2. /\ a \in Memory /\ a.root = m.root
      /\ \A i \in Keys : a.color[i] = IF i = succ THEN z ELSE m.color[i]
      /\ \A i \in Keys : a.parent[i] = IF i = succ THEN w ELSE m.parent[i]
      /\ \A e \in Sides, i \in Keys : a.child[e][i] =
           IF i = succ THEN (IF e = "left" THEN x ELSE y) ELSE m.child[e][i]
  BY <1>a, <1>1 DEF Memory, Sides
<1>3. /\ b \in Memory /\ b.color = a.color /\ b.parent = a.parent
      /\ \A e \in Sides, i \in Keys : b.child[e][i] =
           IF i = p /\ e = SideOf(a, p, old) THEN succ ELSE a.child[e][i]
      /\ \A g \in Heads : b.root[g] = IF g = h /\ p = Null THEN succ ELSE a.root[g]
  BY <1>b, <1>1, <1>2, ReplaceFields
<1>4. p # Null => SideOf(a, p, old) = SideOf(m, p, old)
  BY <1>1, <1>2, KeysNodes DEF SideOf, Sides
<1>5. /\ c \in Memory /\ c.color = b.color /\ c.child = b.child /\ c.root = b.root
      /\ \A i \in Keys : c.parent[i] = IF i = x THEN succ ELSE b.parent[i]
  <2>1. b \in Memory /\ x \in Nodes /\ succ \in Nodes
    BY <1>1, <1>3
  <2>2. c = SetParent(b, x, succ)
    BY <1>c
  <2> QED
    BY <2>1, <2>2, SetParentFields
<1>6. /\ r \in Memory /\ r.color = c.color /\ r.child = c.child /\ r.root = c.root
      /\ \A i \in Keys : r.parent[i] = IF i = y THEN succ ELSE c.parent[i]
  <2>1. c \in Memory /\ y \in Nodes /\ succ \in Nodes
    BY <1>1, <1>5
  <2>2. r = SetParent(c, y, succ)
    BY <1>r
  <2> QED
    BY <2>1, <2>2, SetParentFields
<1>7. \A i \in Keys : r.parent[i] =
        IF \E e \in Sides : i = m.child[e][old] THEN succ
        ELSE IF i = succ THEN p ELSE m.parent[i]
  BY <1>x, <1>y, <1>w, <1>2, <1>3, <1>5, <1>6 DEF Sides
<1>8. \A e \in Sides, i \in Keys : r.child[e][i] =
        IF i = p /\ e = SideOf(m, p, old) THEN succ
        ELSE IF i = succ THEN m.child[e][old] ELSE m.child[e][i]
  BY <1>x, <1>y, <1>2, <1>3, <1>4, <1>5, <1>6, KeysNodes DEF Sides
<1>9. Placed(m, r, h, succ, old)
  BY <1>z, <1>2, <1>3, <1>5, <1>6, <1>7, <1>8 DEF Placed
<1> QED
  BY <1>x, <1>y, <1>z, <1>w, <1>a, <1>b, <1>c, <1>r, <1>9 DEF TakePlace

\* f puts other keys, in the same order, for those of a tree.
Renaming(m, r, h, K, L, under, labels, f) ==
    /\ L \subseteq Keys /\ r \in Memory /\ labels \in Labels
    /\ \A l \in L : \E k \in K : l = f[k]
    /\ \A k \in K : f[k] \in L
    /\ f[Null] = Null
    /\ \A i, j \in K, e \in Sides : Before(e, f[i], f[j]) <=> Before(e, i, j)
    /\ r.root[h] = f[m.root[h]]
    /\ \A k \in K : r.parent[f[k]] = f[m.parent[k]]
    /\ \A k \in K, e \in Sides : r.child[e][f[k]] = f[m.child[e][k]]
    /\ \A n \in K \cup {Null} : labels[f[n]] = {f[x] : x \in under[n]}

\* A tree whose nodes are renamed in order is a tree.
LEMMA RenamedTree ==
  ASSUME NEW m, NEW h, NEW K, NEW under, IsTree(m, h, K, under),
         NEW f, NEW L, NEW r, NEW labels, Renaming(m, r, h, K, L, under, labels, f)
  PROVE  IsTree(r, h, L, labels)
<1>0. /\ L \subseteq Keys /\ r \in Memory /\ labels \in Labels
      /\ \A l \in L : \E k \in K : l = f[k]
      /\ \A k \in K : f[k] \in L
      /\ f[Null] = Null
      /\ \A i, j \in K, e \in Sides : Before(e, f[i], f[j]) <=> Before(e, i, j)
      /\ r.root[h] = f[m.root[h]]
      /\ \A k \in K : r.parent[f[k]] = f[m.parent[k]]
      /\ \A k \in K, e \in Sides : r.child[e][f[k]] = f[m.child[e][k]]
      /\ \A n \in K \cup {Null} : labels[f[n]] = {f[x] : x \in under[n]}
  BY DEF Renaming
<1>1. /\ Linked(m, h, K) /\ Sorted(m, h, K, under) /\ h \in Heads
      /\ under[Null] = {} /\ K \subseteq Keys /\ L \subseteq Keys
      /\ \A k \in K : k \in Keys /\ k # Null /\ under[k] \subseteq K
      /\ \A k \in K : f[k] \in Keys /\ f[k] # Null
      /\ \A k \in K, e \in Sides : m.child[e][k] \in K \cup {Null}
      /\ \A k \in K : m.parent[k] \in K \cup {Null}
      /\ m.root[h] \in K \cup {Null}
  <2>1. /\ Linked(m, h, K) /\ Sorted(m, h, K, under) /\ h \in Heads
        /\ under[Null] = {} /\ K \subseteq Keys
        /\ \A k \in K : k \in Keys /\ k # Null /\ under[k] \subseteq K
    BY TreeTypes DEF IsTree
  <2>2. \A k \in K : f[k] \in Keys /\ f[k] # Null
    BY <1>0, KeysNodes
  <2>3. /\ \A k \in K, e \in Sides : m.child[e][k] \in K \cup {Null}
        /\ \A k \in K : m.parent[k] \in K \cup {Null}
        /\ m.root[h] \in K \cup {Null}
    BY <1>0, <2>1 DEF Linked
  <2> QED
    BY <1>0, <2>1, <2>2, <2>3
<1>2. Linked(r, h, L)
  <2>1. r.root[h] # Null => r.root[h] \in L /\ r.parent[r.root[h]] = Null
    BY <1>0, <1>1 DEF Linked
  <2>2. ASSUME NEW k \in K, NEW e \in Sides, r.child[e][f[k]] # Null
        PROVE  r.child[e][f[k]] \in L /\ r.parent[r.child[e][f[k]]] = f[k]
    <3>1. m.child[e][k] \in K /\ m.parent[m.child[e][k]] = k
      BY <1>0, <1>1, <2>2 DEF Linked
    <3> QED
      BY <1>0, <3>1
  <2>3. ASSUME NEW k \in K, r.parent[f[k]] # Null
        PROVE  r.parent[f[k]] \in L /\ \E e \in Sides : r.child[e][r.parent[f[k]]] = f[k]
    <3>1. m.parent[k] \in K /\ \E e \in Sides : m.child[e][m.parent[k]] = k
      BY <1>0, <1>1, <2>3 DEF Linked
    <3> QED
      BY <1>0, <3>1
  <2>4. ASSUME NEW k \in K, r.parent[f[k]] = Null PROVE r.root[h] = f[k]
    <3>1. m.parent[k] = Null
      BY <1>0, <1>1, <2>4
    <3> QED
      BY <1>0, <1>1, <3>1 DEF Linked
  <2> QED
    BY <1>0, <2>1, <2>2, <2>3, <2>4 DEF Linked
<1>3. Sorted(r, h, L, labels)
  <2>1. labels[Null] = {} /\ labels[r.root[h]] = L
    <3>1. labels[r.root[h]] = {f[x] : x \in K}
      <4>1. under[m.root[h]] = K
        BY <1>1 DEF Sorted
      <4> QED
        BY <1>0, <1>1, <4>1
    <3> QED
      BY <1>0, <1>1, <3>1
  <2>2. ASSUME NEW k \in K
        PROVE  /\ labels[f[k]] \subseteq L
               /\ labels[f[k]] = {f[k]} \cup labels[r.child["left"][f[k]]]
                                        \cup labels[r.child["right"][f[k]]]
               /\ \A e \in Sides : \A j \in labels[r.child[e][f[k]]] : Before(e, j, f[k])
    <3>1. /\ under[k] = {k} \cup under[m.child["left"][k]] \cup under[m.child["right"][k]]
          /\ \A e \in Sides : \A j \in under[m.child[e][k]] : Before(e, j, k)
          /\ under[k] \subseteq K
      BY <1>0, <1>1 DEF Sorted
    <3>2. \A e \in Sides : labels[r.child[e][f[k]]] = {f[x] : x \in under[m.child[e][k]]}
      BY <1>0, <1>1
    <3>3. labels[f[k]] = {f[x] : x \in under[k]}
      BY <1>0
    <3>4. labels[f[k]] = {f[k]} \cup labels[r.child["left"][f[k]]] \cup labels[r.child["right"][f[k]]]
      BY <1>0, <3>1, <3>2, <3>3 DEF Sides
    <3>5. \A e \in Sides : under[m.child[e][k]] \subseteq K
      BY <1>0, <3>1 DEF Sides
    <3>6. \A e \in Sides : \A j \in labels[r.child[e][f[k]]] : Before(e, j, f[k])
      BY <1>0, <3>1, <3>2, <3>5
    <3> QED
      BY <1>0, <3>1, <3>3, <3>4, <3>6
  <2> QED
    BY <1>0, <2>1, <2>2 DEF Sorted
<1>4. Nested(r, L, labels)
  <2>1. ASSUME NEW k \in K, NEW j \in under[k]
        PROVE  /\ labels[f[j]] \subseteq labels[f[k]]
               /\ f[j] # f[k] => r.parent[f[j]] \in labels[f[k]]
               /\ \A i \in K : f[i] \notin labels[f[k]] => (f[j] < f[i] <=> f[k] < f[i])
    <3>1. /\ j \in K /\ under[j] \subseteq under[k]
          /\ j # k => m.parent[j] \in under[k]
          /\ \A i \in K : i \notin under[k] => \A d \in Sides : Before(d, j, i) <=> Before(d, k, i)
      BY NestedLaws
    <3>2. labels[f[k]] = {f[x] : x \in under[k]} /\ labels[f[j]] = {f[x] : x \in under[j]}
      BY <1>0, <3>1
    <3>3. ASSUME NEW i \in K, f[i] \notin labels[f[k]] PROVE f[j] < f[i] <=> f[k] < f[i]
      <4>1. i \notin under[k]
        BY <1>0, <3>2, <3>3
      <4> QED
        BY <1>0, <3>1, <4>1 DEF Before, Sides
    <3> QED
      BY <1>0, <3>1, <3>2, <3>3
  <2>2. \A k \in K : labels[f[k]] = {f[x] : x \in under[k]}
    BY <1>0
  <2> SUFFICES ASSUME NEW l \in L, NEW y \in labels[l]
               PROVE  /\ labels[y] \subseteq labels[l]
                      /\ y # l => r.parent[y] \in labels[l]
                      /\ \A i \in L \ labels[l] : y < i <=> l < i
    BY DEF Nested
  <2>3. PICK k \in K : l = f[k]
    BY <1>0
  <2>4. PICK j \in under[k] : y = f[j]
    BY <1>0, <2>2, <2>3
  <2> QED
    BY <1>0, <2>1, <2>3, <2>4
<1> QED
  BY <1>0, <1>1, <1>2, <1>3, <1>4 DEF IsTree, Tree

\* The labels after succ has taken the place of old.
Renamed(under, succ, old) ==
    [n \in Nodes |->
       IF n = succ THEN (under[old] \ {old}) \cup {succ}
       ELSE IF old \in under[n] THEN (under[n] \ {old}) \cup {succ} ELSE under[n]]

\* old is called succ.
NewName(succ, old) == [n \in Nodes |-> IF n = old THEN succ ELSE n]

\* A node that is next to old in order can stand for it.
LEMMA TakePlaceTree ==
  ASSUME NEW m, NEW h, NEW K, NEW under, IsTree(m, h, K, under),
         NEW old \in K, NEW succ \in Keys, succ \notin K,
         \A j \in K : j # old => (old < j <=> succ < j),
         NEW r, Placed(m, r, h, succ, old)
  PROVE  LET L == (K \ {old}) \cup {succ}
             labels == Renamed(under, succ, old)
         IN /\ IsTree(r, h, L, labels)
            /\ Renaming(m, r, h, K, L, under, labels, NewName(succ, old))
<1> DEFINE p == m.parent[old]
           L == (K \ {old}) \cup {succ}
           labels == Renamed(under, succ, old)
<1>f. PICK f : f = [n \in Nodes |-> IF n = old THEN succ ELSE n]
  OBVIOUS
<1>1. /\ Linked(m, h, K) /\ Sorted(m, h, K, under) /\ h \in Heads
      /\ under \in Labels /\ under[Null] = {} /\ K \subseteq Keys
      /\ \A k \in K : /\ k \in Keys /\ k \in Nodes /\ k # Null /\ k # succ /\ k \in under[k]
                      /\ under[k] \subseteq K
      /\ \A k \in K, e \in Sides : m.child[e][k] \in Nodes
      /\ \A k \in K : m.parent[k] \in Nodes
      /\ m.root[h] \in Nodes /\ succ # Null
  BY TreeTypes, KeysNodes
<1>2. p # Null => /\ p \in K /\ p # old /\ SideOf(m, p, old) \in Sides
                  /\ m.child[SideOf(m, p, old)][p] = old
                  /\ \A e \in Sides : m.child[e][p] = old => e = SideOf(m, p, old)
                  /\ m.root[h] # old
  BY ParentLaws
<1>3. \A e \in Sides : m.child[e][old] # old
  BY <1>1, ChildLaws
<1>4. f[Null] = Null /\ f[old] = succ /\ \A n \in Nodes : n # old => f[n] = n
  BY <1>1, <1>f, KeysNodes
<1>5. \A l \in L : \E k \in K : l = f[k]
  BY <1>1, <1>4
<1>6. \A k \in K : f[k] \in L
  BY <1>1, <1>4
<1>7. \A i, j \in K, e \in Sides : Before(e, f[i], f[j]) <=> Before(e, i, j)
  <2>1. K \subseteq Int /\ succ \in Int
    BY <1>1, KeysNodes
  <2>2. \A j \in K : j # old => (j < old <=> j < succ)
    BY <1>1, <2>1
  <2> TAKE i, j \in K, e \in Sides
  <2>3. CASE i = old /\ j = old
    BY <1>1, <1>4, <2>1, <2>3 DEF Before
  <2>4. CASE i = old /\ j # old
    BY <1>1, <1>4, <2>2, <2>4 DEF Before
  <2>5. CASE i # old /\ j = old
    BY <1>1, <1>4, <2>2, <2>5 DEF Before
  <2>6. CASE i # old /\ j # old
    BY <1>1, <1>4, <2>6
  <2> QED
    BY <2>3, <2>4, <2>5, <2>6
<1>8. r.root[h] = f[m.root[h]]
  <2>1. p = Null => m.root[h] = old
    BY <1>1 DEF Linked
  <2> QED
    BY <1>1, <1>2, <1>4, <2>1 DEF Placed
<1>9. ASSUME NEW k \in K PROVE r.parent[f[k]] = f[m.parent[k]]
  <2>1. CASE k = old
    <3>1. \A e \in Sides : m.child[e][old] # succ
      BY <1>1 DEF Linked
    <3>2. r.parent[succ] = p
      BY <3>1 DEF Placed
    <3> QED
      BY <1>1, <1>2, <1>4, <2>1, <3>2
  <2>2. CASE k # old /\ m.parent[k] = old
    <3>1. \E e \in Sides : k = m.child[e][old]
      BY <1>1, <2>2 DEF Linked
    <3> QED
      BY <1>1, <1>4, <2>2, <3>1 DEF Placed
  <2>3. CASE k # old /\ m.parent[k] # old
    <3>1. ~ \E e \in Sides : k = m.child[e][old]
      BY <1>1, <2>3 DEF Linked
    <3> QED
      BY <1>1, <1>4, <2>3, <3>1 DEF Placed
  <2> QED
    BY <2>1, <2>2, <2>3
<1>10. ASSUME NEW k \in K, NEW e \in Sides PROVE r.child[e][f[k]] = f[m.child[e][k]]
  <2>1. CASE k = old
    <3>1. p # succ
      BY <1>1, <1>2
    <3>2. r.child[e][succ] = m.child[e][old]
      BY <3>1 DEF Placed
    <3> QED
      BY <1>1, <1>3, <1>4, <2>1, <3>2
  <2>2. CASE k # old /\ k = p /\ e = SideOf(m, p, old)
    BY <1>1, <1>2, <1>4, <2>2 DEF Placed
  <2>3. CASE k # old /\ ~ (k = p /\ e = SideOf(m, p, old))
    <3>1. m.child[e][k] # old
      BY <1>1, <1>2, <2>3 DEF Linked
    <3> QED
      BY <1>1, <1>4, <2>3, <3>1 DEF Placed
  <2> QED
    BY <2>1, <2>2, <2>3
<1>11. ASSUME NEW n \in K \cup {Null} PROVE labels[f[n]] = {f[x] : x \in under[n]}
  <2>1. under[n] \subseteq K /\ n \in Nodes /\ n # succ /\ succ \in Nodes
    BY <1>1, KeysNodes
  <2>2. labels[f[n]] = IF old \in under[n] THEN (under[n] \ {old}) \cup {succ} ELSE under[n]
    BY <1>1, <1>4, <2>1 DEF Renamed
  <2>3. \A x \in under[n] : f[x] = IF x = old THEN succ ELSE x
    BY <1>1, <1>4, <2>1
  <2> QED
    BY <2>2, <2>3
<1>12. labels \in Labels
  <2>1. \A n \in Nodes : under[n] \subseteq Keys
    BY <1>1 DEF Labels
  <2> QED
    BY <1>1, <2>1 DEF Renamed, Labels
<1>13. r \in Memory /\ L \in SUBSET Keys
  BY <1>1 DEF Placed
<1>14. Renaming(m, r, h, K, L, under, labels, f)
  BY <1>4, <1>5, <1>6, <1>7, <1>8, <1>9, <1>10, <1>11, <1>12, <1>13 DEF Renaming
<1> QED
  BY <1>f, <1>14, RenamedTree DEF NewName

-----------------------------------------------------------------------------
(* A head, its operation and its tree                                      *)

\* All that the inductive invariant says of one head.
Well(m, h, o, K, under, rank) ==
    /\ IsTree(m, h, K, under) /\ rank \in Ranks /\ o \in Operation
    /\ Balanced(m, h, o, K, rank) /\ Pointers(m, h, o, K, under) /\ Answers(o, K)

\* The pointers of an operation.
LEMMA OperationTypes ==
  ASSUME NEW o \in Operation
  PROVE  /\ o.key \in Nodes /\ o.parent \in Nodes /\ o.elm \in Nodes
         /\ o.key \in Int /\ o.parent \in Int /\ o.elm \in Int
  BY KeysNodes DEF Operation

\* Nothing of it changes when the head's nodes and their labels do not.
LEMMA SameWell ==
  ASSUME NEW m, NEW h, NEW o, NEW K, NEW under, NEW rank, Well(m, h, o, K, under, rank),
         NEW r \in Memory, NEW g \in Heads, NEW labels \in Labels, NEW ranks \in Ranks,
         r.root[g] = m.root[h],
         \A k \in K : r.parent[k] = m.parent[k] /\ r.color[k] = m.color[k]
                      /\ \A d \in Sides : r.child[d][k] = m.child[d][k],
         \A n \in K \cup {Null} : labels[n] = under[n] /\ ranks[n] = rank[n]
  PROVE  Well(r, g, o, K, labels, ranks)
<1>1. /\ IsTree(m, h, K, under) /\ rank \in Ranks /\ o \in Operation
      /\ Balanced(m, h, o, K, rank) /\ Pointers(m, h, o, K, under) /\ Answers(o, K)
  BY DEF Well
<1>2. IsTree(r, g, K, labels)
  BY <1>1, SameTree
<1>3. /\ m.root[h] \in K \cup {Null} /\ K \subseteq Keys
      /\ \A k \in K, d \in Sides : m.child[d][k] \in K \cup {Null}
      /\ \A k \in K : under[k] \subseteq K
  BY <1>1 DEF IsTree, Tree, Linked, Sorted
<1>4. \A n \in K \cup {Null} : IsBlack(r, n) <=> IsBlack(m, n)
  BY <1>3 DEF IsBlack
<1>5. \A p, d : Ranked(m, K, rank, p, d) => Ranked(r, K, ranks, p, d)
  BY <1>3 DEF Ranked, Blacks
<1>6. \A low, top : Coloured(m, h, K, low, top) => Coloured(r, g, K, low, top)
  BY <1>3, <1>4 DEF Coloured
<1>7. Balanced(r, g, o, K, ranks)
  BY <1>1, <1>5, <1>6 DEF Balanced
<1>8. Pointers(r, g, o, K, labels)
  <2>3. \A p \in K : \A k : r.child[SideFor(k, p)][p] = m.child[SideFor(k, p)][p]
    BY DEF SideFor, Sides
  <2>4. /\ \A k \in K : r.child["right"][k] = m.child["right"][k]
        /\ \A k \in K : r.child["left"][k] = m.child["left"][k]
        /\ \A k \in K : m.child["right"][k] \in K \cup {Null}
    BY <1>3 DEF Sides
  <2>5. CASE o.pc = "insert"
    <3>1. o.elm \in K \cup {Null} => labels[o.elm] = under[o.elm]
      OBVIOUS
    <3> QED
      BY <1>1, <2>3, <2>5, <3>1 DEF Pointers
  <2>6. CASE o.pc = "remove"
    <3>1. /\ o.key \in K
          /\ o.elm = o.key => m.child["left"][o.key] = Null \/ m.child["right"][o.key] = Null
          /\ o.elm # o.key =>
              /\ m.child["left"][o.key] # Null
              /\ o.elm \in under[m.child["right"][o.key]]
              /\ \A j \in under[m.child["right"][o.key]] \ under[o.elm] : o.elm < j
      BY <1>1, <2>6 DEF Pointers
    <3>2. labels[m.child["right"][o.key]] = under[m.child["right"][o.key]]
      BY <2>4, <3>1
    <3>3. o.elm # o.key => o.elm \in K
      BY <1>1, <1>3, <2>4, <3>1, TreeTypes
    <3> QED
      BY <2>4, <2>6, <3>1, <3>2, <3>3 DEF Pointers
  <2>7. CASE o.pc \notin {"insert", "remove"}
    BY <1>1, <2>7 DEF Pointers
  <2> QED
    BY <2>5, <2>6, <2>7
<1> QED
  BY <1>1, <1>2, <1>7, <1>8 DEF Well

\* Only the operation goes on, outside the loops that restore the colours.
LEMMA Goes ==
  ASSUME NEW m, NEW h, NEW o, NEW K, NEW under, NEW rank, Well(m, h, o, K, under, rank),
         NEW to \in Operation,
         o.pc \notin {"insertColor", "removeColor"}, to.pc \notin {"insertColor", "removeColor"},
         Pointers(m, h, to, K, under), Answers(to, K)
  PROVE  Well(m, h, to, K, under, rank)
  BY DEF Well, Balanced

At(place, k, p, n) == [pc |-> place, key |-> k, parent |-> p, elm |-> n]

\* A turn of RB_FIND: the key is below the child or nowhere.
LEMMA FindDescends ==
  ASSUME NEW m, NEW h, NEW o, NEW K, NEW under, NEW rank, Well(m, h, o, K, under, rank),
         o.pc = "find", o.elm \notin {Null, o.key},
         NEW to, to = At("find", o.key, o.parent, m.child[SideFor(o.key, o.elm)][o.elm])
  PROVE  Well(m, h, to, K, under, rank)
<1> DEFINE n == o.elm
           k == o.key
           d == SideFor(k, n)
           c == m.child[d][n]
<1>1. IsTree(m, h, K, under) /\ o \in Operation /\ Pointers(m, h, o, K, under)
  BY DEF Well
<1>2. n \in K /\ (k \in K <=> k \in under[n])
  BY <1>1 DEF Pointers
<1>3. d \in Sides
  BY DEF SideFor, Sides
<1>4. /\ under[n] = {n} \cup under[c] \cup under[m.child[Opposite(d)][n]]
      /\ \A j \in under[m.child[Opposite(d)][n]] : Before(d, n, j)
  BY <1>1, <1>2, <1>3, UnderLaws
<1>5. k \notin under[m.child[Opposite(d)][n]]
  <2>1. k \in Int /\ n \in Int
    BY <1>1, OperationTypes
  <2> QED
    BY <1>2, <1>4, <2>1 DEF Before, SideFor
<1>6. k \in K <=> k \in under[c]
  BY <1>2, <1>4, <1>5
<1>7. c \in K \cup {Null} /\ c \in Nodes
  BY <1>1, <1>2, <1>3, ChildLaws, TreeTypes
<1>8. to \in Operation /\ to.pc = "find" /\ to.key = k /\ to.elm = c
  BY <1>1, <1>7 DEF Operation, At, Finding
<1>9. Pointers(m, h, to, K, under) /\ Answers(to, K)
  BY <1>6, <1>7, <1>8 DEF Pointers, Answers
<1> QED
  BY <1>8, <1>9, Goes

\* RB_FIND ends with the node, or with NULL when there is none.
LEMMA FindEnds ==
  ASSUME NEW m, NEW h, NEW o, NEW K, NEW under, NEW rank, Well(m, h, o, K, under, rank),
         o.pc = "find", o.elm \in {Null, o.key},
         NEW to, to = At("answer", o.key, o.parent, o.elm)
  PROVE  Well(m, h, to, K, under, rank)
<1>1. IsTree(m, h, K, under) /\ o \in Operation /\ Pointers(m, h, o, K, under)
  BY DEF Well
<1>2. o.elm \in K \cup {Null} /\ (o.key \in K <=> o.key \in under[o.elm])
  BY <1>1 DEF Pointers
<1>3. under[Null] = {} /\ Null \notin K /\ \A k \in K : k \in under[k]
  BY <1>1, TreeTypes
<1>4. o.elm = IF o.key \in K THEN o.key ELSE Null
  BY <1>2, <1>3
<1>5. to \in Operation /\ to.pc = "answer" /\ to.key = o.key /\ to.elm = o.elm
  BY <1>1 DEF Operation, At, Finding
<1>6. Pointers(m, h, to, K, under) /\ Answers(to, K)
  BY <1>4, <1>5 DEF Pointers, Answers
<1> QED
  BY <1>5, <1>6, Goes

\* A turn of the loop that looks for the least key from here on.
LEMMA LeftmostDescends ==
  ASSUME NEW m, NEW h, NEW o, NEW K, NEW under, NEW rank, Well(m, h, o, K, under, rank),
         o.pc = "leftmost", o.elm # Null, m.child["left"][o.elm] # Null,
         NEW to, to = At("leftmost", o.key, o.parent, m.child["left"][o.elm])
  PROVE  Well(m, h, to, K, under, rank)
<1> DEFINE n == o.elm
           c == m.child["left"][n]
<1>1. IsTree(m, h, K, under) /\ o \in Operation /\ Pointers(m, h, o, K, under)
  BY DEF Well
<1>2. /\ n \in K
      /\ \A j \in under[n] : o.key < j
      /\ \A j \in K \ under[n] : o.key < j => \A i \in under[n] : i < j
  BY <1>1 DEF Pointers
<1>3. c \in K /\ under[c] \subseteq under[n] /\ c \in Nodes
  BY <1>1, <1>2, ChildLaws, TreeTypes DEF Sides
<1>4. /\ under[n] = {n} \cup under[c] \cup under[m.child["right"][n]]
      /\ \A j \in under[c] : j < n /\ j \in Int
      /\ \A j \in under[m.child["right"][n]] : n < j /\ j \in Int
  BY <1>1, <1>2, OrderLaws
<1>5. ASSUME NEW j \in K \ under[c], o.key < j, NEW i \in under[c] PROVE i < j
  <2>1. i < n /\ i \in under[n] /\ i \in Int /\ j \in Int /\ n \in Int
    BY <1>1, <1>2, <1>3, <1>4, TreeTypes
  <2> QED
    BY <1>2, <1>4, <1>5, <2>1
<1>6. to \in Operation /\ to.pc = "leftmost" /\ to.key = o.key /\ to.elm = c
  BY <1>1, <1>3 DEF Operation, At, Iterating
<1>7. Pointers(m, h, to, K, under) /\ Answers(to, K)
  BY <1>2, <1>3, <1>5, <1>6 DEF Pointers, Answers
<1> QED
  BY <1>6, <1>7, Goes

\* The leftmost node is the next one.
LEMMA LeftmostEnds ==
  ASSUME NEW m, NEW h, NEW o, NEW K, NEW under, NEW rank, Well(m, h, o, K, under, rank),
         o.pc = "leftmost", o.elm # Null => m.child["left"][o.elm] = Null,
         NEW to, to = At("visit", o.key, o.parent, o.elm)
  PROVE  Well(m, h, to, K, under, rank)
<1> DEFINE n == o.elm
<1>1. IsTree(m, h, K, under) /\ o \in Operation /\ Pointers(m, h, o, K, under)
  BY DEF Well
<1>2. /\ n \in K \cup {Null} /\ (n = Null => K = {})
      /\ \A j \in under[n] : o.key < j
      /\ \A j \in K \ under[n] : o.key < j => \A i \in under[n] : i < j
  BY <1>1 DEF Pointers
<1>3. CASE n = Null
  <2>1. to \in Operation /\ to.pc = "visit" /\ to.elm = Null
    BY <1>1, <1>3 DEF Operation, At, Iterating
  <2>2. Pointers(m, h, to, K, under) /\ Answers(to, K)
    BY <1>2, <1>3, <2>1 DEF Pointers, Answers
  <2> QED
    BY <2>1, <2>2, Goes
<1>4. CASE n # Null
  <2>1. n \in K /\ n \in under[n] /\ under[Null] = {} /\ n \in Int /\ K \subseteq Int
    BY <1>1, <1>2, <1>4, TreeTypes
  <2>2. /\ under[n] = {n} \cup under[m.child["left"][n]] \cup under[m.child["right"][n]]
        /\ \A j \in under[m.child["right"][n]] : n < j /\ j \in Int
    BY <1>1, <2>1, OrderLaws
  <2>3. \A j \in under[n] : n <= j
    BY <1>4, <2>1, <2>2
  <2>4. \A j \in K : o.key < j => n <= j
    BY <1>2, <2>1, <2>3
  <2>5. to \in Operation /\ to.pc = "visit" /\ to.key = o.key /\ to.elm = n
    BY <1>1 DEF Operation, At, Iterating
  <2>6. Pointers(m, h, to, K, under) /\ Answers(to, K)
    BY <1>2, <1>4, <2>1, <2>4, <2>5 DEF Pointers, Answers
  <2> QED
    BY <2>5, <2>6, Goes
<1> QED
  BY <1>3, <1>4

\* RB_NEXT goes on in the right subtree if there is one, else upwards.
LEMMA FollowingGoes ==
  ASSUME NEW m, NEW h, NEW o, NEW K, NEW under, NEW rank, Well(m, h, o, K, under, rank),
         o.pc = "visit", o.elm # Null,
         NEW right, right = m.child["right"][o.elm],
         NEW to, to = IF right # Null THEN At("leftmost", o.elm, Null, right)
                      ELSE At("ascend", o.elm, Null, o.elm)
  PROVE  Well(m, h, to, K, under, rank)
<1> DEFINE n == o.elm
<1>1. IsTree(m, h, K, under) /\ o \in Operation /\ Answers(o, K)
  BY DEF Well
<1>2. n \in K /\ n \in Nodes /\ n \in Int /\ n \in under[n] /\ under[Null] = {}
      /\ right \in Nodes /\ Null \in Nodes
  BY <1>1, TreeTypes DEF Answers, Sides
<1>3. /\ under[n] = {n} \cup under[m.child["left"][n]] \cup under[right]
      /\ \A j \in under[m.child["left"][n]] : j < n /\ j \in Int
      /\ \A j \in under[right] : n < j /\ j \in Int
  BY <1>1, <1>2, OrderLaws
<1>4. CASE right # Null
  <2>1. to \in Operation /\ to.pc = "leftmost" /\ to.key = n /\ to.elm = right
    BY <1>1, <1>2, <1>4 DEF Operation, At, Iterating
  <2>2. right \in K /\ right \in under[right]
    BY <1>1, <1>2, <1>4, ChildLaws DEF Sides
  <2>3. ASSUME NEW j \in K \ under[right], n < j, NEW i \in under[right] PROVE i < j
    <3>1. j \notin under[n]
      BY <1>2, <1>3, <2>3
    <3>2. i < j <=> n < j
      BY <1>1, <1>2, <1>3, <3>1, NestedLaws
    <3> QED
      BY <2>3, <3>2
  <2>4. Pointers(m, h, to, K, under) /\ Answers(to, K)
    BY <1>3, <1>4, <2>1, <2>2, <2>3 DEF Pointers, Answers
  <2> QED
    BY <2>1, <2>4, Goes
<1>5. CASE right = Null
  <2>1. to \in Operation /\ to.pc = "ascend" /\ to.key = n /\ to.elm = n
    BY <1>1, <1>2, <1>5 DEF Operation, At, Iterating
  <2>2. \A j \in under[n] : j <= n
    BY <1>2, <1>3, <1>5
  <2>3. Pointers(m, h, to, K, under) /\ Answers(to, K)
    BY <1>2, <2>1, <2>2 DEF Pointers, Answers
  <2> QED
    BY <2>1, <2>3, Goes
<1> QED
  BY <1>4, <1>5

\* RB_NEXT goes up: the next key is the first that is left on its right.
LEMMA Ascends ==
  ASSUME NEW m, NEW h, NEW o, NEW K, NEW under, NEW rank, Well(m, h, o, K, under, rank),
         o.pc = "ascend",
         NEW p, p = m.parent[o.elm],
         NEW to, to = IF p # Null /\ m.child["left"][p] # o.elm
                      THEN At("ascend", o.key, o.parent, p)
                      ELSE At("visit", o.key, o.parent, p)
  PROVE  Well(m, h, to, K, under, rank)
<1> DEFINE n == o.elm
           k == o.key
<1>1. IsTree(m, h, K, under) /\ o \in Operation /\ Pointers(m, h, o, K, under)
  BY DEF Well
<1>2. /\ n \in K /\ k \in under[n]
      /\ \A j \in under[n] : j <= k
  BY <1>1 DEF Pointers
<1>3. /\ p \in Nodes /\ under[n] \subseteq K /\ \A j \in K : j \in Int
      /\ Linked(m, h, K) /\ Sorted(m, h, K, under)
  BY <1>1, <1>2, TreeTypes
<1>6. k \in K /\ k \in Int
  BY <1>2, <1>3
<1>4. CASE p = Null
  <2>1. to \in Operation /\ to.pc = "visit" /\ to.key = k /\ to.elm = Null
    BY <1>1, <1>3, <1>4 DEF Operation, At, Iterating
  <2>4. m.root[h] = n
    BY <1>2, <1>3, <1>4 DEF Linked
  <2>2. under[n] = K
    BY <1>3, <2>4 DEF Sorted
  <2>3. Pointers(m, h, to, K, under) /\ Answers(to, K)
    <3>1. \A j \in K : ~ (k < j)
      BY <1>2, <1>3, <1>6, <2>2
    <3> QED
      BY <2>1, <3>1 DEF Pointers, Answers
  <2> QED
    BY <2>1, <2>3, Goes
<1>5. CASE p # Null
  <2>1. p \in K /\ SideOf(m, p, n) \in Sides /\ m.child[SideOf(m, p, n)][p] = n
    BY <1>1, <1>2, <1>5, ParentLaws
  <2>2. /\ under[p] = {p} \cup under[m.child["left"][p]] \cup under[m.child["right"][p]]
        /\ \A j \in under[m.child["left"][p]] : j < p /\ j \in Int
        /\ \A j \in under[m.child["right"][p]] : p < j /\ j \in Int
        /\ p \in Int
    <3>1. p \in K
      BY <2>1
    <3>2. p \in Int
      BY <1>3, <3>1
    <3> QED
      BY <1>1, <3>1, <3>2, OrderLaws
  <2>3. CASE m.child["left"][p] # n
    <3>1. m.child["right"][p] = n
      BY <2>1, <2>3 DEF Sides
    <3>2. k \in under[p] /\ \A j \in under[p] : j <= k
      BY <1>2, <1>6, <2>2, <3>1
    <3>3. to \in Operation /\ to.pc = "ascend" /\ to.key = k /\ to.elm = p
      BY <1>1, <1>3, <1>5, <2>3 DEF Operation, At, Iterating
    <3>4. Pointers(m, h, to, K, under) /\ Answers(to, K)
      BY <2>1, <3>2, <3>3 DEF Pointers, Answers
    <3> QED
      BY <3>3, <3>4, Goes
  <2>4. CASE m.child["left"][p] = n
    <3>1. k < p
      BY <1>2, <2>2, <2>4
    <3>2. ASSUME NEW j \in K, k < j PROVE p <= j
      <4>1. CASE j \in under[p]
        BY <1>2, <1>6, <2>2, <2>4, <3>2, <4>1
      <4>2. CASE j \notin under[p]
        <5>1. k < j <=> p < j
          <6>1. p \in K /\ k \in under[p]
            BY <1>2, <2>1, <2>2, <2>4
          <6> QED
            BY <1>1, <4>2, <6>1, NestedLaws
        <5> QED
          BY <1>3, <2>1, <3>2, <5>1
      <4> QED
        BY <4>1, <4>2
    <3>3. to \in Operation /\ to.pc = "visit" /\ to.key = k /\ to.elm = p
      BY <1>1, <1>3, <1>5, <2>4 DEF Operation, At, Iterating
    <3>4. Pointers(m, h, to, K, under) /\ Answers(to, K)
      BY <1>5, <2>1, <3>1, <3>2, <3>3 DEF Pointers, Answers
    <3> QED
      BY <3>3, <3>4, Goes
  <2> QED
    BY <2>3, <2>4
<1> QED
  BY <1>4, <1>5

\* A turn of the loop of RB_INSERT: the place of the key is below the child.
LEMMA InsertDescends ==
  ASSUME NEW m, NEW h, NEW o, NEW K, NEW under, NEW rank, Well(m, h, o, K, under, rank),
         o.pc = "insert", o.elm \notin {Null, o.key}, o.key \in Keys,
         NEW to, to = At("insert", o.key, o.elm, m.child[SideFor(o.key, o.elm)][o.elm])
  PROVE  Well(m, h, to, K, under, rank)
<1> DEFINE n == o.elm
           k == o.key
           q == o.parent
           d == SideFor(k, n)
           c == m.child[d][n]
<1>1. IsTree(m, h, K, under) /\ o \in Operation /\ Pointers(m, h, o, K, under)
  BY DEF Well
<1>2. /\ n \in K /\ n # k /\ (k \in K <=> k \in under[n])
      /\ q = Null => n = m.root[h]
      /\ q # Null => /\ q \in K
                     /\ n = m.child[SideFor(k, q)][q]
                     /\ \A j \in K \ under[n] : j # q => (q < j <=> k < j)
  BY <1>1 DEF Pointers
<1>3. d \in Sides /\ SideFor(k, q) \in Sides /\ Opposite(d) \in Sides
  BY SidesLaws DEF SideFor, Sides
<1>4. /\ c \in K \cup {Null} /\ c \in Nodes /\ n \in Nodes /\ n \in Int /\ k \in Int
      /\ n \in under[n] /\ Sorted(m, h, K, under) /\ \A j \in K : j \in Int
  <2>1. c \in K \cup {Null} /\ c \in Nodes
    BY <1>1, <1>2, <1>3, ChildLaws, TreeTypes
  <2> QED
    BY <1>1, <1>2, <2>1, OperationTypes, TreeTypes
<1>5. /\ under[n] = {n} \cup under[c] \cup under[m.child[Opposite(d)][n]]
      /\ \A j \in under[m.child[Opposite(d)][n]] : Before(d, n, j)
  BY <1>1, <1>2, <1>3, UnderLaws
<1>k. k \in K <=> k \in under[c]
  <2>1. k \notin under[m.child[Opposite(d)][n]]
    BY <1>2, <1>4, <1>5 DEF Before, SideFor
  <2> QED
    BY <1>2, <1>5, <2>1
<1>6. ASSUME NEW j \in K \ under[c], j # n PROVE n < j <=> k < j
  <2>1. CASE j \in under[n]
    <3>1. Before(d, n, j)
      BY <1>5, <1>6, <2>1
    <3>2. k # j
      BY <1>k, <1>6
    <3> QED
      BY <1>2, <1>4, <1>6, <3>1, <3>2 DEF Before, SideFor
  <2>2. CASE j \notin under[n]
    <3>1. q # Null
      BY <1>2, <1>4, <1>6, <2>2 DEF Sorted
    <3> DEFINE e == SideFor(k, q)
    <3>2. /\ q \in K /\ n = m.child[e][q]
          /\ \A i \in K \ under[n] : i # q => (q < i <=> k < i)
      BY <1>2, <3>1
    <3>s. e \in Sides /\ q \in K /\ m.child[e][q] # Null
      BY <1>2, <1>3, <3>2
    <3>3. Before(e, n, q) /\ n \in under[q] /\ q \notin under[n]
      <4> HIDE DEF e
      <4>1. /\ Before(e, m.child[e][q], q) /\ m.child[e][q] \in under[q]
            /\ q \notin under[m.child[e][q]]
        BY <1>1, <3>s, ChildLaws
      <4> QED
        BY <3>2, <4>1
    <3>4. /\ under[q] = {q} \cup under[n] \cup under[m.child[Opposite(e)][q]]
          /\ \A i \in under[m.child[Opposite(e)][q]] : Before(e, q, i)
      <4> HIDE DEF e
      <4>1. /\ under[q] = {q} \cup under[m.child[e][q]] \cup under[m.child[Opposite(e)][q]]
            /\ \A i \in under[m.child[Opposite(e)][q]] : Before(e, q, i)
        BY <1>1, <3>s, UnderLaws
      <4> QED
        BY <3>2, <4>1
    <3>5. k # q /\ k # j /\ q \in Int /\ j \in Int
      BY <1>k, <1>2, <1>4, <1>6, <3>2, <3>3
    <3>6. CASE j = q
      BY <1>4, <3>3, <3>5, <3>6 DEF Before, SideFor
    <3>7. CASE j # q /\ j \in under[q]
      <4>1. Before(e, q, j)
        BY <2>2, <3>4, <3>7
      <4>2. q < j <=> k < j
        BY <1>6, <2>2, <3>2, <3>7
      <4> QED
        BY <1>4, <3>3, <3>5, <4>1, <4>2 DEF Before, SideFor
    <3>8. CASE j # q /\ j \notin under[q]
      <4>1. n < j <=> q < j
        BY <1>1, <1>6, <3>s, <3>3, <3>8, NestedLaws
      <4>2. q < j <=> k < j
        BY <1>6, <2>2, <3>2, <3>8
      <4> QED
        BY <4>1, <4>2
    <3> QED
      BY <3>6, <3>7, <3>8
  <2> QED
    BY <2>1, <2>2
<1>7. to \in Operation /\ to.pc = "insert" /\ to.key = k /\ to.elm = c /\ to.parent = n
  BY <1>1, <1>4 DEF Operation, At
<1>8. Pointers(m, h, to, K, under) /\ Answers(to, K)
  BY <1>k, <1>2, <1>4, <1>6, <1>7 DEF Pointers, Answers
<1> QED
  BY <1>7, <1>8, Goes

\* RB_REMOVE of a node begins at the node or to the right of it.
LEMMA RemoveBegins ==
  ASSUME NEW m, NEW h, NEW o, NEW K, NEW under, NEW rank, Well(m, h, o, K, under, rank),
         o.pc \notin {"insertColor", "removeColor"}, NEW old \in K,
         NEW right, right = m.child["right"][old],
         NEW to, to = At("remove", old, Null,
                         IF m.child["left"][old] # Null /\ right # Null THEN right ELSE old)
  PROVE  Well(m, h, to, K, under, rank)
<1>1. IsTree(m, h, K, under) /\ o \in Operation
  BY DEF Well
<1>2. old \in Nodes /\ old # Null /\ right \in Nodes /\ Null \in Nodes
  BY <1>1, TreeTypes, KeysNodes DEF Sides
<1>3. right # Null => right \in under[right] /\ right # old
  BY <1>1, ChildLaws DEF Sides
<1>4. /\ to \in Operation /\ to.pc = "remove" /\ to.key = old
      /\ to.elm = IF m.child["left"][old] # Null /\ right # Null THEN right ELSE old
  BY <1>2 DEF Operation, At, Removing
<1>5. Pointers(m, h, to, K, under) /\ Answers(to, K)
  BY <1>3, <1>4 DEF Pointers, Answers
<1> QED
  BY <1>4, <1>5, Goes

\* A turn of the loop that looks for the successor.
LEMMA SuccessorDescends ==
  ASSUME NEW m, NEW h, NEW o, NEW K, NEW under, NEW rank, Well(m, h, o, K, under, rank),
         o.pc = "remove", o.elm # o.key, m.child["left"][o.elm] # Null,
         NEW to, to = At("remove", o.key, o.parent, m.child["left"][o.elm])
  PROVE  Well(m, h, to, K, under, rank)
<1> DEFINE n == o.elm
           old == o.key
           right == m.child["right"][old]
           c == m.child["left"][n]
<1>1. IsTree(m, h, K, under) /\ o \in Operation /\ Pointers(m, h, o, K, under)
  BY DEF Well
<1>2. /\ old \in K /\ m.child["left"][old] # Null /\ n \in under[right]
      /\ \A j \in under[right] \ under[n] : n < j
  BY <1>1 DEF Pointers
<1>3. right # Null
  BY <1>1, <1>2, TreeTypes
<1>4. right \in K /\ old \notin under[right]
  BY <1>1, <1>2, <1>3, ChildLaws DEF Sides
<1>5. n \in K /\ under[n] \subseteq under[right]
  BY <1>1, <1>2, <1>4, NestedLaws
<1>6. c \in K /\ c \in under[c] /\ under[c] \subseteq under[n] /\ c \in Nodes
  BY <1>1, <1>5, ChildLaws, TreeTypes DEF Sides
<1>7. /\ under[n] = {n} \cup under[c] \cup under[m.child["right"][n]]
      /\ \A j \in under[c] : j < n /\ j \in Int
      /\ \A j \in under[m.child["right"][n]] : n < j /\ j \in Int
  BY <1>1, <1>5, OrderLaws
<1>8. \A j \in under[right] \ under[c] : c < j
  <2> TAKE j \in under[right] \ under[c]
  <2>1. c \in Int /\ n \in Int /\ j \in Int /\ c < n
    BY <1>1, <1>4, <1>5, <1>6, <1>7, TreeTypes
  <2> QED
    BY <1>2, <1>7, <2>1
<1>9. c # old
  BY <1>4, <1>5, <1>6
<1>10. to \in Operation /\ to.pc = "remove" /\ to.key = old /\ to.elm = c
  BY <1>1, <1>6 DEF Operation, At, Removing
<1>11. Pointers(m, h, to, K, under) /\ Answers(to, K)
  BY <1>2, <1>5, <1>6, <1>8, <1>9, <1>10 DEF Pointers, Answers
<1> QED
  BY <1>10, <1>11, Goes

-----------------------------------------------------------------------------
(* The steps of an insertion                                               *)

\* A step of head h leaves the other heads, their nodes and the labels of these
\* alone.
Apart(m, r, h, own, under, labels, rank, ranks) ==
    /\ \A g \in Heads : g # h => r.root[g] = m.root[g]
    /\ \A k \in Keys : k \notin own =>
         /\ r.parent[k] = m.parent[k] /\ r.color[k] = m.color[k]
         /\ \A d \in Sides : r.child[d][k] = m.child[d][k]
    /\ \A n \in Nodes : n \notin own =>
         /\ under[n] \cap own = {} => labels[n] = under[n]
         /\ ranks[n] = rank[n]

\* Ranks are numbers.
LEMMA RankTypes ==
  ASSUME NEW rank \in Ranks, NEW n \in Nodes PROVE rank[n] \in Nat /\ rank[n] \in Int
  BY DEF Ranks

\* A red leaf at its place is all right but for the colour of its parent.
LEMMA InsertLinks ==
  ASSUME NEW m, NEW h, NEW o, NEW K, NEW under, NEW rank, Well(m, h, o, K, under, rank),
         o.pc = "insert", o.elm = Null,
         NEW k, k = o.key, k \in Keys, k \notin K,
         NEW r, r = Link(m, h, k, o.parent),
         NEW to, to = At("insertColor", k, Null, k),
         NEW labels, labels = Extended(under, k, o.parent),
         NEW ranks, ranks = [rank EXCEPT ![k] = 0]
  PROVE  /\ Well(r, h, to, K \cup {k}, labels, ranks)
         /\ Apart(m, r, h, K \cup {k}, under, labels, rank, ranks)
<1> DEFINE p == o.parent
           L == K \cup {k}
<1>1. /\ IsTree(m, h, K, under) /\ o \in Operation /\ Pointers(m, h, o, K, under)
      /\ rank \in Ranks /\ Ranked(m, K, rank, Null, "left") /\ Coloured(m, h, K, Null, Null)
  BY DEF Well, Balanced
<1>2. /\ m \in Memory /\ h \in Heads /\ under[Null] = {} /\ Linked(m, h, K) /\ k # Null
      /\ \A i \in K : /\ i \in Keys /\ i \in Nodes /\ i # Null /\ i # k
                      /\ \A e \in Sides : m.child[e][i] \in Nodes
      /\ p \in Nodes /\ k \in Nodes /\ m.root[h] \in Nodes
  BY <1>1, TreeTypes, OperationTypes, KeysNodes
<1>3. /\ p \in K \cup {Null} /\ p # k
      /\ p = Null => m.root[h] = Null
      /\ p # Null => /\ m.child[SideFor(k, p)][p] = Null
                     /\ \A j \in K : j # p => (p < j <=> k < j)
  BY <1>1, <1>2 DEF Pointers
<1>4. LinkedAt(m, r, h, k, p)
  BY <1>2, <1>3, LinkFields
<1>5. IsTree(r, h, L, labels)
  BY <1>1, <1>3, <1>4, LinkTree
<1>6. /\ ranks \in Ranks /\ ranks[k] = 0
      /\ \A n \in Nodes : n # k => ranks[n] = rank[n]
  BY <1>1, <1>2 DEF Ranks
<1>7. \A i \in K, e \in Sides : m.child[e][i] # k
  BY <1>2 DEF Linked
<1>8. /\ \A e \in Sides : r.child[e][k] = Null
      /\ p # Null => r.child[SideFor(k, p)][p] = k
      /\ \A i \in K, e \in Sides : ~ (i = p /\ e = SideFor(k, p)) => r.child[e][i] = m.child[e][i]
      /\ r.color[k] = Red
      /\ \A i \in K : r.color[i] = m.color[i]
      /\ r.root[h] = IF p = Null THEN k ELSE m.root[h]
  <2>1. SideFor(k, p) \in Sides
    BY DEF SideFor, Sides
  <2> QED
    BY <1>2, <1>3, <1>4, <2>1 DEF LinkedAt
<1>9. Ranked(r, L, ranks, Null, "left")
  <2>1. ranks[Null] = 0 /\ rank[Null] = 0
    BY <1>1, <1>2, <1>6, KeysNodes DEF Ranked
  <2>2. ASSUME NEW i \in L, NEW e \in Sides
        PROVE  ranks[i] = ranks[r.child[e][i]] + Blacks(r, i) + 0
    <3>1. CASE i = k
      BY <1>6, <1>8, <2>1, <3>1 DEF Blacks, Black, Red
    <3>2. CASE i # k
      <4>1. i \in K
        BY <3>2
      <4>2. rank[i] = rank[m.child[e][i]] + Blacks(m, i) + 0
        BY <1>1, <1>2, <4>1 DEF Ranked
      <4>3. Blacks(r, i) = Blacks(m, i)
        BY <1>8, <4>1 DEF Blacks
      <4>4. ranks[r.child[e][i]] = rank[m.child[e][i]]
        <5>1. CASE i = p /\ e = SideFor(k, p)
          <6>1. r.child[e][i] = k /\ m.child[e][i] = Null
            BY <1>2, <1>3, <1>8, <4>1, <5>1
          <6> QED
            BY <1>6, <2>1, <6>1
        <5>2. CASE ~ (i = p /\ e = SideFor(k, p))
          BY <1>2, <1>6, <1>7, <1>8, <4>1, <5>2
        <5> QED
          BY <5>1, <5>2
      <4>5. ranks[i] = rank[i]
        BY <1>2, <1>6, <4>1
      <4> QED
        BY <4>2, <4>3, <4>4, <4>5
    <3> QED
      BY <3>1, <3>2
  <2>3. \A i \in L : i # Null
    BY <1>2
  <2> QED
    BY <2>1, <2>2, <2>3 DEF Ranked
<1>10. Coloured(r, h, L, k, Null)
  <2>1. r.root[h] # k => IsBlack(r, r.root[h])
    <3> HAVE r.root[h] # k
    <3>1. r.root[h] = m.root[h] /\ (m.root[h] # Null => m.root[h] \in K)
      BY <1>2, <1>8 DEF Linked
    <3>2. m.root[h] # Null => m.color[m.root[h]] = Black
      BY <1>1 DEF Coloured, IsBlack
    <3> QED
      BY <1>8, <3>1, <3>2 DEF IsBlack
  <2>2. ASSUME NEW i \in L, NEW e \in Sides, r.color[i] = Red, r.child[e][i] # k,
               r.child[e][i] # Null
        PROVE  r.color[r.child[e][i]] = Black
    <3>0. i \in K
      BY <1>8, <2>2
    <3>1. i \in K /\ r.child[e][i] = m.child[e][i] /\ m.color[i] = Red
      <4>1. ~ (i = p /\ e = SideFor(k, p))
        BY <1>2, <1>8, <2>2, <3>0
      <4> QED
        BY <1>8, <2>2, <3>0, <4>1
    <3>2. m.child[e][i] \in K
      BY <1>2, <2>2, <3>1 DEF Linked
    <3>3. m.color[m.child[e][i]] = Black
      BY <1>1, <1>2, <2>2, <3>1 DEF Coloured, IsBlack
    <3> QED
      BY <1>8, <3>1, <3>2, <3>3
  <2> QED
    BY <2>1, <2>2 DEF Coloured, IsBlack
<1>11. /\ to \in Operation /\ to.pc = "insertColor" /\ to.elm = k
       /\ Balanced(r, h, to, L, ranks) /\ Pointers(r, h, to, L, labels) /\ Answers(to, L)
  <2>1. to \in Operation /\ to.pc = "insertColor" /\ to.elm = k
    BY <1>2, KeysNodes DEF At, Operation
  <2> QED
    BY <1>8, <1>9, <1>10, <2>1 DEF Balanced, Pointers, Answers
<1>12. Apart(m, r, h, L, under, labels, rank, ranks)
  <2>1. ASSUME NEW i \in Keys, i \notin L
        PROVE  /\ r.parent[i] = m.parent[i] /\ r.color[i] = m.color[i]
               /\ \A d \in Sides : r.child[d][i] = m.child[d][i]
    <3>1. i # k /\ i # p
      BY <1>3, <2>1, KeysNodes
    <3> QED
      BY <1>4, <3>1 DEF LinkedAt
  <2>2. ASSUME NEW n \in Nodes, n \notin L, under[n] \cap L = {} PROVE labels[n] = under[n]
    <3>1. p \notin under[n]
      <4>1. under[n] \subseteq Keys
        BY <1>1, TreeTypes DEF Labels
      <4> QED
        BY <1>3, <2>2, <4>1, KeysNodes
    <3> QED
      BY <2>2, <3>1 DEF Extended
  <2>3. \A g \in Heads : g # h => r.root[g] = m.root[g]
    BY <1>4 DEF LinkedAt
  <2> QED
    BY <1>6, <2>1, <2>2, <2>3 DEF Apart
<1> QED
  BY <1>5, <1>6, <1>11, <1>12 DEF Well

\* The node that is inserted, its red parent, and its grandparent.
RedPair(m, h, K, under, rank, elm, p, g, d) ==
    /\ IsTree(m, h, K, under) /\ rank \in Ranks
    /\ Ranked(m, K, rank, Null, "left") /\ Coloured(m, h, K, elm, Null)
    /\ elm \in K /\ p \in K /\ g \in K
    /\ p # elm /\ g # p /\ g # elm /\ g # Null /\ p # Null /\ elm # Null
    /\ m.parent[elm] = p /\ m.parent[p] = g
    /\ m.color[elm] = Red /\ m.color[p] = Red /\ m.color[g] = Black
    /\ d \in Sides /\ m.child[d][g] = p /\ Opposite(d) \in Sides
    /\ m.child[d][p] = elm \/ m.child[Opposite(d)][p] = elm
    /\ m.root[h] # elm /\ m.root[h] # p

\* A red parent is not the root, and its parent is black.
LEMMA GrandparentLaws ==
  ASSUME NEW m, NEW h, NEW o, NEW K, NEW under, NEW rank, Well(m, h, o, K, under, rank),
         o.pc = "insertColor", ~ IsBlack(m, m.parent[o.elm])
  PROVE  LET p == m.parent[o.elm]
             g == m.parent[p]
         IN RedPair(m, h, K, under, rank, o.elm, p, g, SideOf(m, g, p))
<1> DEFINE elm == o.elm
           p == m.parent[elm]
           g == m.parent[p]
           d == SideOf(m, g, p)
           s == SideOf(m, p, elm)
<1>1. /\ IsTree(m, h, K, under) /\ Coloured(m, h, K, elm, Null)
      /\ elm \in K /\ m.color[elm] = Red
      /\ rank \in Ranks /\ Ranked(m, K, rank, Null, "left")
  BY DEF Well, Balanced
<1>2. p # Null /\ m.color[p] # Black
  BY DEF IsBlack
<1>3. /\ p \in K /\ p # elm /\ s \in Sides /\ m.child[s][p] = elm /\ p \notin under[elm]
      /\ m.root[h] # elm
  BY <1>1, <1>2, ParentLaws
<1>4. m.color[p] = Red /\ p \in Nodes /\ elm # Null /\ Linked(m, h, K)
  BY <1>1, <1>2, <1>3, TreeTypes DEF Memory
<1>5. m.root[h] # p
  BY <1>1, <1>2, <1>3 DEF Coloured, IsBlack
<1>6. g # Null
  BY <1>3, <1>4, <1>5 DEF Linked
<1>7. g \in K /\ g # p /\ d \in Sides /\ m.child[d][g] = p /\ g \notin under[p]
  BY <1>1, <1>3, <1>6, ParentLaws
<1>8. g # elm
  <2> HIDE DEF elm, p, g, d, s
  <2>1. \A e \in Sides : m.child[e][g] # Null => m.child[e][g] \in under[g]
    BY <1>1, <1>7, ChildLaws
  <2>2. p \in under[g]
    BY <1>2, <1>7, <2>1
  <2> QED
    BY <1>3, <2>2
<1>9. m.color[g] = Black
  <2>1. m.color[g] \in {Black, Red} /\ g # Null
    BY <1>1, <1>7, TreeTypes DEF Memory
  <2> QED
    BY <1>1, <1>2, <1>3, <1>7, <2>1 DEF Coloured, IsBlack
<1>10. Opposite(d) \in Sides /\ (s = d \/ s = Opposite(d))
  BY <1>3, <1>7, SidesLaws
<1>11. m.child[d][p] = elm \/ m.child[Opposite(d)][p] = elm
  BY <1>3, <1>10
<1> QED
  BY <1>1, <1>2, <1>3, <1>4, <1>5, <1>6, <1>7, <1>8, <1>9, <1>10, <1>11 DEF
     RedPair

\* What painting does.
LEMMA PaintFields ==
  ASSUME NEW m \in Memory, NEW n \in Nodes, NEW c, c = Black \/ c = Red,
         NEW r, r = Paint(m, n, c)
  PROVE  /\ r \in Memory /\ r.parent = m.parent /\ r.child = m.child /\ r.root = m.root
         /\ \A i \in Keys : r.color[i] = IF i = n THEN c ELSE m.color[i]
<1>1. CASE n = Null
  BY <1>1, KeysNodes DEF Paint
<1>2. CASE n # Null
  <2>1. r = [m EXCEPT !.color[n] = c] /\ n \in Keys
    BY <1>2, KeysNodes DEF Paint
  <2> QED
    BY <2>1 DEF Memory
<1> QED
  BY <1>1, <1>2

\* RB_SET_BLACKRED writes two colours.
LEMMA BlackRedFields ==
  ASSUME NEW m \in Memory, NEW black \in Keys, NEW red \in Keys, black # red,
         NEW r, r = BlackRed(m, black, red)
  PROVE  /\ r \in Memory /\ r.parent = m.parent /\ r.child = m.child /\ r.root = m.root
         /\ \A i \in Keys : r.color[i] =
              IF i = black THEN Black ELSE IF i = red THEN Red ELSE m.color[i]
<1>1. PICK a : a = [m EXCEPT !.color[black] = Black]
  OBVIOUS
<1>2. /\ a \in Memory /\ a.parent = m.parent /\ a.child = m.child /\ a.root = m.root
      /\ \A i \in Keys : a.color[i] = IF i = black THEN Black ELSE m.color[i]
  BY <1>1 DEF Memory
<1>3. r = [a EXCEPT !.color[red] = Red]
  BY <1>1 DEF BlackRed
<1> QED
  BY <1>2, <1>3 DEF Memory

\* Whether the links form a tree does not depend on the colours.
LEMMA PaintedTree ==
  ASSUME NEW m, NEW h, NEW K, NEW under, IsTree(m, h, K, under),
         NEW r \in Memory, r.parent = m.parent, r.child = m.child, r.root = m.root
  PROVE  IsTree(r, h, K, under)
  BY TreeTypes, SameTree

\* UncleIsRed
Flipped(m, r, p, g, d, uncle) ==
    /\ uncle = m.child[Opposite(d)][g] /\ ~ IsBlack(m, uncle)
    /\ r = BlackRed(Paint(m, uncle, Black), p, g)

\* Then the grandparent is the one whose parent may be red.
LEMMA UncleIsRedWell ==
  ASSUME NEW m, NEW h, NEW K, NEW under, NEW rank, NEW elm, NEW p, NEW g, NEW d,
         RedPair(m, h, K, under, rank, elm, p, g, d),
         NEW uncle, NEW r, Flipped(m, r, p, g, d, uncle), NEW k \in Nodes
  PROVE  \E ranks \in Ranks : /\ Well(r, h, At("insertColor", k, Null, g), K, under, ranks)
                              /\ Apart(m, r, h, K, under, under, rank, ranks)
<1>1. /\ IsTree(m, h, K, under) /\ rank \in Ranks
      /\ Ranked(m, K, rank, Null, "left") /\ Coloured(m, h, K, elm, Null)
  BY DEF RedPair
<1>2. /\ elm \in K /\ p \in K /\ g \in K /\ p # elm /\ g # p /\ g # elm
      /\ m.color[elm] = Red /\ m.color[p] = Red /\ m.color[g] = Black
      /\ d \in Sides /\ m.child[d][g] = p /\ m.parent[p] = g /\ m.parent[elm] = p
      /\ m.root[h] # elm /\ m.root[h] # p
  BY DEF RedPair
<1>3. /\ m \in Memory /\ h \in Heads /\ Linked(m, h, K)
      /\ \A i \in K : /\ i \in Keys /\ i \in Nodes /\ i # Null
                      /\ \A e \in Sides : m.child[e][i] \in Nodes
      /\ m.root[h] \in Nodes /\ Null \in Nodes
  BY <1>1, TreeTypes
<1>4. /\ Opposite(d) \in Sides /\ uncle # Null /\ m.color[uncle] # Black
      /\ m.child[Opposite(d)][g] = uncle
      /\ \A e \in Sides : e = d \/ e = Opposite(d)
  BY <1>2, SidesLaws DEF IsBlack, Flipped
<1>5. uncle \in K /\ m.parent[uncle] = g /\ uncle # g /\ uncle # p
  <2>1. uncle \in K /\ m.parent[uncle] = g /\ uncle # g
    BY <1>1, <1>2, <1>4, ChildLaws
  <2>2. uncle # p
    BY <1>1, <1>2, <1>4, SidesLaws, ChildLaws
  <2> QED
    BY <2>1, <2>2
<1>6. m.color[uncle] = Red /\ uncle # elm
  BY <1>2, <1>3, <1>4, <1>5 DEF Memory
<1>7. /\ r \in Memory /\ r.parent = m.parent /\ r.child = m.child /\ r.root = m.root
      /\ \A i \in K : r.color[i] =
           IF i \in {p, uncle} THEN Black ELSE IF i = g THEN Red ELSE m.color[i]
      /\ \A i \in Keys : i \notin K => r.color[i] = m.color[i]
  <2>1. PICK a : a = Paint(m, uncle, Black)
    OBVIOUS
  <2>2. /\ a \in Memory /\ a.parent = m.parent /\ a.child = m.child /\ a.root = m.root
        /\ \A i \in Keys : a.color[i] = IF i = uncle THEN Black ELSE m.color[i]
    <3>1. uncle \in Nodes /\ m \in Memory
      BY <1>3, <1>5
    <3> QED
      BY <2>1, <3>1, PaintFields
  <2>3. a \in Memory /\ p \in Keys /\ g \in Keys /\ p # g /\ r = BlackRed(a, p, g)
    BY <1>2, <1>3, <2>1, <2>2 DEF Flipped
  <2>4. /\ r \in Memory /\ r.parent = a.parent /\ r.child = a.child /\ r.root = a.root
        /\ \A i \in Keys : r.color[i] = IF i = p THEN Black ELSE IF i = g THEN Red ELSE a.color[i]
    BY <2>3, BlackRedFields
  <2> QED
    BY <1>2, <1>3, <1>5, <2>2, <2>4
<1>8. IsTree(r, h, K, under)
  BY <1>1, <1>7, PaintedTree
<1>r. PICK ranks : ranks = [rank EXCEPT ![p] = rank[p] + 1, ![uncle] = rank[uncle] + 1]
  OBVIOUS
<1>9. /\ ranks \in Ranks /\ ranks[p] = rank[p] + 1 /\ ranks[uncle] = rank[uncle] + 1
      /\ \A n \in Nodes : n \notin {p, uncle} => ranks[n] = rank[n]
  BY <1>1, <1>2, <1>3, <1>5, <1>r DEF Ranks
<1>10. \A i \in K, e \in Sides : m.child[e][i] \in {p, uncle} => i = g
  <2>1. p # Null /\ uncle # Null /\ m.parent[p] = g /\ m.parent[uncle] = g
    BY <1>2, <1>3, <1>5
  <2> QED
    BY <1>3, <2>1 DEF Linked
<1>11. Ranked(r, K, ranks, Null, "left")
  <2>1. ranks[Null] = 0
    BY <1>1, <1>2, <1>3, <1>5, <1>9 DEF Ranked
  <2>2. ASSUME NEW i \in K, NEW e \in Sides
        PROVE  ranks[i] = ranks[r.child[e][i]] + Blacks(r, i) + 0
    <3>0. PICK c : c = m.child[e][i]
      OBVIOUS
    <3>1. /\ rank[i] = rank[c] + Blacks(m, i) + 0
          /\ r.child[e][i] = c /\ c \in Nodes /\ i \in Nodes
      BY <1>1, <1>3, <1>7, <3>0 DEF Ranked
    <3>2. rank[i] \in Nat /\ rank[c] \in Nat
      BY <1>1, <3>1, RankTypes
    <3>3. CASE i = g
      <4>1. c \in {p, uncle}
        BY <1>2, <1>4, <3>0, <3>3
      <4>2. Blacks(r, i) = 0 /\ Blacks(m, i) = 1
        BY <1>2, <1>5, <1>7, <3>3 DEF Blacks, Black, Red
      <4>3. ranks[i] = rank[i] /\ ranks[c] = rank[c] + 1
        BY <1>2, <1>5, <1>9, <3>1, <3>3, <4>1
      <4> QED
        BY <3>1, <3>2, <4>2, <4>3
    <3>4. CASE i \in {p, uncle}
      <4>1. c \notin {p, uncle}
        BY <1>2, <1>5, <1>10, <3>0, <3>4
      <4>2. Blacks(r, i) = 1 /\ Blacks(m, i) = 0
        BY <1>2, <1>6, <1>7, <3>4 DEF Blacks, Black, Red
      <4>3. ranks[i] = rank[i] + 1 /\ ranks[c] = rank[c]
        BY <1>9, <3>1, <3>4, <4>1
      <4> QED
        BY <3>1, <3>2, <4>2, <4>3
    <3>5. CASE i \notin {p, uncle, g}
      <4>1. c \notin {p, uncle}
        BY <1>10, <3>0, <3>5
      <4>2. Blacks(r, i) = Blacks(m, i)
        BY <1>7, <3>5 DEF Blacks
      <4>3. ranks[i] = rank[i] /\ ranks[c] = rank[c]
        BY <1>9, <3>1, <3>5, <4>1
      <4> QED
        BY <3>1, <4>2, <4>3
    <3> QED
      BY <3>3, <3>4, <3>5
  <2> QED
    BY <1>3, <2>1, <2>2 DEF Ranked
<1>12. Coloured(r, h, K, g, Null)
  <2>1. ASSUME m.root[h] # g, m.root[h] # Null PROVE r.color[m.root[h]] = Black
    <3>1. m.root[h] \in K
      BY <1>3, <2>1 DEF Linked
    <3>2. m.color[m.root[h]] = Black
      BY <1>1, <1>2, <2>1 DEF Coloured, IsBlack
    <3> QED
      BY <1>7, <2>1, <3>1, <3>2
  <2>2. ASSUME NEW i \in K, NEW e \in Sides, r.color[i] = Red, m.child[e][i] # g,
               m.child[e][i] # Null
        PROVE  r.color[m.child[e][i]] = Black
    <3>1. m.child[e][i] \in K /\ m.parent[m.child[e][i]] = i
      BY <1>3, <2>2 DEF Linked
    <3>2. CASE i = g
      <4>1. m.child[e][i] \in {p, uncle}
        BY <1>2, <1>4, <3>2
      <4> QED
        BY <1>7, <3>1, <4>1
    <3>3. CASE i # g
      <4>1. m.color[i] = Red /\ i \notin {p, uncle}
        BY <1>7, <2>2, <3>3 DEF Black, Red
      <4>2. m.child[e][i] # elm
        BY <1>2, <3>1, <4>1
      <4>3. m.color[m.child[e][i]] = Black
        BY <1>1, <1>3, <2>2, <4>1, <4>2 DEF Coloured, IsBlack
      <4> QED
        BY <1>7, <2>2, <3>1, <4>3
    <3> QED
      BY <3>2, <3>3
  <2> QED
    BY <1>7, <2>1, <2>2 DEF Coloured, IsBlack
<1>13. Well(r, h, At("insertColor", k, Null, g), K, under, ranks)
  <2>0. PICK to : to = At("insertColor", k, Null, g)
    OBVIOUS
  <2>1. to \in Operation /\ to.pc = "insertColor" /\ to.elm = g
    BY <1>2, <1>3, <2>0 DEF At, Operation
  <2>2. r.color[g] = Red
    BY <1>2, <1>5, <1>7
  <2>3. Balanced(r, h, to, K, ranks) /\ Pointers(r, h, to, K, under) /\ Answers(to, K)
    BY <1>2, <1>11, <1>12, <2>1, <2>2 DEF Balanced, Pointers, Answers
  <2> QED
    BY <1>8, <1>9, <2>0, <2>1, <2>3 DEF Well
<1>14. Apart(m, r, h, K, under, under, rank, ranks)
  BY <1>2, <1>5, <1>7, <1>9 DEF Apart
<1> QED
  BY <1>9, <1>13, <1>14
=============================================================================
