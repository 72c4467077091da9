--------------------------- MODULE RBTreeBalance ---------------------------
(***************************************************************************)
(* The steps of RBTree that change a tree, one lemma for each: after it    *)
(* the head is Well again, under labels that differ from those before only *)
(* on nodes of the head (Proceeds).  A rotation, with what is painted      *)
(* before it, moves two nodes; what has to hold of the counts and colours  *)
(* around them is RankedThere and ColouredThere.                           *)
(***************************************************************************)
EXTENDS RBTreeLemmas

-----------------------------------------------------------------------------
(* Rotations and ranks                                                     *)

\* What the conditions on ranks and colours see of a rotation: elm goes down on
\* side d, and tmp takes its place.
Turned(m, r, h, K, elm, d, tmp) ==
    LET o == Opposite(d) IN
    /\ elm \in K /\ tmp \in K /\ elm # tmp /\ d \in Sides
    /\ o \in Sides /\ o # d /\ \A e \in Sides : e = d \/ e = o
    /\ m.child[o][elm] = tmp
    /\ \A i \in K, e \in Sides : m.child[e][i] = tmp => i = elm /\ e = o
    /\ \A e \in Sides : m.child[e][elm] # elm /\ m.child[e][tmp] # elm
    /\ r.child[d][tmp] = elm /\ r.child[o][tmp] = m.child[o][tmp]
    /\ r.child[o][elm] = m.child[d][tmp] /\ r.child[d][elm] = m.child[d][elm]
    /\ \A i \in K, e \in Sides : i \notin {elm, tmp} =>
         r.child[e][i] = IF m.child[e][i] = elm THEN tmp ELSE m.child[e][i]
    /\ r.root[h] = IF m.root[h] = elm THEN tmp ELSE m.root[h]
    /\ r.parent[elm] = tmp
    /\ \A i \in K : m.parent[i] \notin {elm, tmp} /\ i \notin {elm, tmp} => r.parent[i] = m.parent[i]

\* A rotation, seen this way, keeps the tree and stays in it.
LEMMA RotateTurns ==
  ASSUME NEW m, NEW h, NEW K, NEW under, IsTree(m, h, K, under),
         NEW elm \in K, NEW d \in Sides,
         NEW tmp \in K, tmp = m.child[Opposite(d)][elm],
         NEW r, r = Rotate(m, h, elm, d)
  PROVE  /\ IsTree(r, h, K, Lowered(m, under, elm, d, tmp))
         /\ r.color = m.color
         /\ Turned(m, r, h, K, elm, d, tmp)
         /\ \A rank, ranks : (\A n \in Nodes : n \notin K => ranks[n] = rank[n]) =>
              Apart(m, r, h, K, under, Lowered(m, under, elm, d, tmp), rank, ranks)
<1> DEFINE o == Opposite(d)
           inner == m.child[d][tmp]
           up == m.parent[elm]
           low == Lowered(m, under, elm, d, tmp)
<1>1. Rotated(m, r, h, elm, d, tmp) /\ IsTree(r, h, K, low)
  BY RotateTree
<1>2. /\ o \in Sides /\ o # d /\ Opposite(o) = d /\ \A e \in Sides : e = d \/ e = o
      /\ tmp # Null /\ tmp # elm /\ m.parent[tmp] = elm /\ m.child[d][elm] # tmp
      /\ (inner # Null => inner \in K /\ inner # tmp /\ m.parent[inner] = tmp
                          /\ m.child[o][tmp] # inner)
      /\ up # Null => /\ up \in K /\ up # elm /\ SideOf(m, up, elm) \in Sides
                      /\ m.child[SideOf(m, up, elm)][up] = elm
                      /\ \A e \in Sides : m.child[e][up] = elm => e = SideOf(m, up, elm)
                      /\ m.root[h] # elm
      /\ Linked(m, h, K) /\ h \in Heads /\ elm # Null
      /\ \A k \in K : k \in Keys /\ k \in Nodes /\ k # Null
      /\ under \in Labels
      /\ inner # elm /\ up # tmp
  BY RotateLaws
<1>3. /\ r.color = m.color
      /\ \A i \in Keys : r.parent[i] =
           IF i = elm THEN tmp ELSE IF i = tmp THEN up ELSE IF i = inner THEN elm
           ELSE m.parent[i]
      /\ \A e \in Sides, i \in Keys : r.child[e][i] =
           IF i = elm /\ e = o THEN inner
           ELSE IF i = tmp /\ e = d THEN elm
           ELSE IF i = up /\ e = SideOf(m, up, elm) THEN tmp
           ELSE m.child[e][i]
      /\ \A g \in Heads : r.root[g] = IF g = h /\ up = Null THEN tmp ELSE m.root[g]
  BY <1>1 DEF Rotated
<1>4. Turned(m, r, h, K, elm, d, tmp)
  <2>1. /\ r.child[d][tmp] = elm /\ r.child[o][tmp] = m.child[o][tmp]
        /\ r.child[o][elm] = m.child[d][tmp] /\ r.child[d][elm] = m.child[d][elm]
    BY <1>2, <1>3
  <2>0. /\ \A i \in K, e \in Sides : m.child[e][i] = tmp => i = elm /\ e = o
        /\ \A e \in Sides : m.child[e][elm] # elm /\ m.child[e][tmp] # elm
    <3>1. \A i \in K, e \in Sides : m.child[e][i] = tmp => i = elm
      BY <1>2 DEF Linked
    <3>2. \A i \in K, e \in Sides : m.child[e][i] = elm => i = up
      BY <1>2 DEF Linked
    <3>3. up # elm
      BY <1>2
    <3> QED
      BY <1>2, <3>1, <3>2, <3>3
  <2>2. \A i \in K, e \in Sides : i \notin {elm, tmp} =>
          r.child[e][i] = IF m.child[e][i] = elm THEN tmp ELSE m.child[e][i]
    <3>1. \A i \in K, e \in Sides : m.child[e][i] = elm => i = up
      BY <1>2 DEF Linked
    <3> QED
      BY <1>2, <1>3, <3>1
  <2>3. r.root[h] = IF m.root[h] = elm THEN tmp ELSE m.root[h]
    <3>1. up = Null => m.root[h] = elm
      BY <1>2 DEF Linked
    <3> QED
      BY <1>2, <1>3, <3>1
  <2>4. /\ r.parent[elm] = tmp
        /\ \A i \in K : m.parent[i] \notin {elm, tmp} /\ i \notin {elm, tmp} =>
             r.parent[i] = m.parent[i]
    BY <1>2, <1>3
  <2> QED
    BY <1>2, <2>0, <2>1, <2>2, <2>3, <2>4 DEF Turned
<1>5. ASSUME NEW rank, NEW ranks, \A n \in Nodes : n \notin K => ranks[n] = rank[n]
      PROVE  Apart(m, r, h, K, under, low, rank, ranks)
  <2>1. \A g \in Heads : g # h => r.root[g] = m.root[g]
    BY <1>3
  <2>2. ASSUME NEW i \in Keys, i \notin K
        PROVE  /\ r.parent[i] = m.parent[i] /\ r.color[i] = m.color[i]
               /\ \A e \in Sides : r.child[e][i] = m.child[e][i]
    <3>1. i \notin {elm, tmp, up, inner}
      BY <1>2, <2>2, KeysNodes
    <3> QED
      BY <1>3, <3>1
  <2>3. \A n \in Nodes : n \notin K => low[n] = under[n]
    BY <1>2 DEF Lowered, Labels
  <2> QED
    BY <1>5, <2>1, <2>2, <2>3 DEF Apart
<1> QED
  BY <1>1, <1>3, <1>4, <1>5

\* Nodes of the tree are painted.
Repainted(m, a, K) ==
    /\ a \in Memory /\ a.parent = m.parent /\ a.child = m.child /\ a.root = m.root
    /\ \A i \in Keys : i \notin K => a.color[i] = m.color[i]

\* A rotation after nodes of the tree were painted.
LEMMA PaintedTurns ==
  ASSUME NEW m, NEW h, NEW K, NEW under, IsTree(m, h, K, under),
         NEW elm \in K, NEW d \in Sides,
         NEW tmp \in K, tmp = m.child[Opposite(d)][elm],
         NEW a, Repainted(m, a, K), NEW r, r = Rotate(a, h, elm, d)
  PROVE  \E labels \in Labels :
           /\ IsTree(r, h, K, labels)
           /\ r.color = a.color
           /\ Turned(m, r, h, K, elm, d, tmp)
           /\ \A rank, ranks : (\A n \in Nodes : n \notin K => ranks[n] = rank[n]) =>
                Apart(m, r, h, K, under, labels, rank, ranks)
<1>1. /\ a \in Memory /\ a.parent = m.parent /\ a.child = m.child /\ a.root = m.root
      /\ \A i \in Keys : i \notin K => a.color[i] = m.color[i]
  BY DEF Repainted
<1>2. IsTree(a, h, K, under)
  BY <1>1, PaintedTree
<1>3. PICK labels : labels = Lowered(a, under, elm, d, tmp)
  OBVIOUS
<1>4. /\ IsTree(r, h, K, labels) /\ r.color = a.color /\ Turned(a, r, h, K, elm, d, tmp)
      /\ \A rank, ranks : (\A n \in Nodes : n \notin K => ranks[n] = rank[n]) =>
           Apart(a, r, h, K, under, labels, rank, ranks)
  <2>1. tmp = a.child[Opposite(d)][elm]
    BY <1>1
  <2> QED
    BY <1>2, <1>3, <2>1, RotateTurns
<1>5. Turned(m, r, h, K, elm, d, tmp)
  BY <1>1, <1>4 DEF Turned
<1>6. \A rank, ranks : (\A n \in Nodes : n \notin K => ranks[n] = rank[n]) =>
        Apart(m, r, h, K, under, labels, rank, ranks)
  BY <1>1, <1>4 DEF Apart
<1>7. labels \in Labels
  BY <1>4, TreeTypes
<1> QED
  BY <1>4, <1>5, <1>6, <1>7

\* Only its parent has a node for a child.
LEMMA LinkedLaws ==
  ASSUME NEW m, NEW h, NEW K, NEW under, IsTree(m, h, K, under)
  PROVE  \A i \in K, e \in Sides : m.child[e][i] # Null =>
           m.child[e][i] \in K /\ m.parent[m.child[e][i]] = i
  BY TreeTypes DEF Linked

\* After a rotation the ranks are right when they are right at elm and tmp.
RankedThere(m, r, K, elm, d, tmp, rank, ranks, p, s) ==
    /\ rank[Null] = 0
    /\ \A i \in K, e \in Sides : i \notin {elm, tmp} =>
         rank[i] = rank[m.child[e][i]] + Blacks(r, i) + (IF i = p /\ e = s THEN 1 ELSE 0)
    /\ \A n \in Nodes : n \notin {elm, tmp} => ranks[n] = rank[n]
    /\ ranks[tmp] = rank[elm]
    /\ ranks[elm] = rank[m.child[d][tmp]] + Blacks(r, elm) + 0
    /\ ranks[elm] = rank[m.child[d][elm]] + Blacks(r, elm) + (IF elm = p /\ d = s THEN 1 ELSE 0)
    /\ ranks[tmp] = ranks[elm] + Blacks(r, tmp) + 0
    /\ ranks[tmp] = rank[m.child[Opposite(d)][tmp]] + Blacks(r, tmp) + 0
    /\ p # tmp /\ (elm = p => s = d)

\* Then the paths of the other nodes count as many black nodes as before.
LEMMA TurnedRanked ==
  ASSUME NEW m, NEW r, NEW h, NEW K, NEW under, NEW elm, NEW d, NEW tmp,
         IsTree(m, h, K, under), Turned(m, r, h, K, elm, d, tmp),
         NEW rank, NEW ranks, NEW p, NEW s,
         RankedThere(m, r, K, elm, d, tmp, rank, ranks, p, s)
  PROVE  Ranked(r, K, ranks, p, s)
<1> DEFINE o == Opposite(d)
<1>1. /\ elm \in K /\ tmp \in K /\ elm # tmp /\ d \in Sides
      /\ o \in Sides /\ o # d /\ \A e \in Sides : e = d \/ e = o
      /\ m.child[o][elm] = tmp
      /\ \A i \in K, e \in Sides : m.child[e][i] = tmp => i = elm /\ e = o
      /\ \A e \in Sides : m.child[e][elm] # elm /\ m.child[e][tmp] # elm
      /\ r.child[d][tmp] = elm /\ r.child[o][tmp] = m.child[o][tmp]
      /\ r.child[o][elm] = m.child[d][tmp] /\ r.child[d][elm] = m.child[d][elm]
      /\ \A i \in K, e \in Sides : i \notin {elm, tmp} =>
           r.child[e][i] = IF m.child[e][i] = elm THEN tmp ELSE m.child[e][i]
  BY DEF Turned
<1>2. /\ \A i \in K : i \in Nodes /\ i # Null /\ \A e \in Sides : m.child[e][i] \in Nodes
      /\ Null \in Nodes
  BY TreeTypes
<1>t. /\ rank[Null] = 0
      /\ \A i \in K, e \in Sides : i \notin {elm, tmp} =>
           rank[i] = rank[m.child[e][i]] + Blacks(r, i) + (IF i = p /\ e = s THEN 1 ELSE 0)
      /\ \A n \in Nodes : n \notin {elm, tmp} => ranks[n] = rank[n]
      /\ ranks[tmp] = rank[elm]
      /\ ranks[elm] = rank[m.child[d][tmp]] + Blacks(r, elm) + 0
      /\ ranks[elm] = rank[m.child[d][elm]] + Blacks(r, elm) + (IF elm = p /\ d = s THEN 1 ELSE 0)
      /\ ranks[tmp] = ranks[elm] + Blacks(r, tmp) + 0
      /\ ranks[tmp] = rank[m.child[o][tmp]] + Blacks(r, tmp) + 0
      /\ p # tmp /\ (elm = p => s = d)
  BY DEF RankedThere
<1>3. ASSUME NEW i \in K, NEW e \in Sides
      PROVE  ranks[i] = ranks[r.child[e][i]] + Blacks(r, i) + (IF i = p /\ e = s THEN 1 ELSE 0)
  <2>0. PICK c : c = m.child[e][i]
    OBVIOUS
  <2>1. CASE i \notin {elm, tmp}
    <3>1. ranks[i] = rank[i]
      BY <1>2, <1>t, <2>1
    <3>2. ranks[r.child[e][i]] = rank[c]
      <4>1. CASE c = elm
        <5>1. r.child[e][i] = tmp
          <6>1. r.child[e][i] = IF m.child[e][i] = elm THEN tmp ELSE m.child[e][i]
            BY <1>1, <2>1
          <6> QED
            BY <2>0, <4>1, <6>1
        <5> QED
          BY <1>t, <4>1, <5>1
      <4>2. CASE c # elm
        <5>1. c # tmp /\ r.child[e][i] = c /\ c \in Nodes
          BY <1>1, <1>2, <2>0, <2>1, <4>2
        <5> QED
          BY <1>t, <4>2, <5>1
      <4> QED
        BY <4>1, <4>2
    <3> QED
      BY <1>t, <2>0, <2>1, <3>1, <3>2
  <2>2. CASE i = elm /\ e = d
    <3>1. c \notin {elm, tmp} /\ c \in Nodes /\ r.child[e][i] = c
      BY <1>1, <1>2, <2>0, <2>2
    <3> QED
      BY <1>t, <2>0, <2>2, <3>1
  <2>3. CASE i = elm /\ e = o
    <3>0. PICK b : b = m.child[d][tmp]
      OBVIOUS
    <3>1. b \notin {elm, tmp} /\ b \in Nodes /\ r.child[e][i] = b
      BY <1>1, <1>2, <2>3, <3>0
    <3>2. ~ (i = p /\ e = s)
      BY <1>1, <1>t, <2>3
    <3>3. ranks[b] = rank[b]
      BY <1>t, <3>1
    <3> QED
      BY <1>t, <2>3, <3>0, <3>1, <3>2, <3>3
  <2>4. CASE i = tmp /\ e = d
    <3>1. r.child[e][i] = elm /\ i # p
      BY <1>1, <1>t, <2>4
    <3> QED
      BY <1>t, <2>4, <3>1
  <2>5. CASE i = tmp /\ e = o
    <3>1. c \notin {elm, tmp} /\ c \in Nodes /\ r.child[e][i] = c /\ i # p
      BY <1>1, <1>2, <1>t, <2>0, <2>5
    <3> QED
      BY <1>t, <2>0, <2>5, <3>1
  <2> QED
    BY <1>1, <2>1, <2>2, <2>3, <2>4, <2>5
<1>4. ranks[Null] = 0
  BY <1>1, <1>2, <1>t
<1> QED
  BY <1>3, <1>4 DEF Ranked

\* After a rotation the colours are right when they are right at elm and tmp.
ColouredThere(m, r, h, K, elm, d, tmp, low, top) ==
    /\ r.root[h] # low => IsBlack(r, r.root[h])
    /\ \A i \in K, e \in Sides :
         i \notin {elm, tmp} /\ r.color[i] = Red /\ i # top =>
           IF m.child[e][i] = elm THEN tmp # low => IsBlack(r, tmp)
           ELSE m.child[e][i] # low => IsBlack(r, m.child[e][i])
    /\ r.color[elm] = Red /\ elm # top =>
         /\ m.child[d][tmp] # low => IsBlack(r, m.child[d][tmp])
         /\ m.child[d][elm] # low => IsBlack(r, m.child[d][elm])
    /\ r.color[tmp] = Red /\ tmp # top =>
         /\ elm # low => IsBlack(r, elm)
         /\ m.child[Opposite(d)][tmp] # low => IsBlack(r, m.child[Opposite(d)][tmp])

\* Then a rotation leaves no red node with a red child but where it may be.
LEMMA TurnedColoured ==
  ASSUME NEW m, NEW r, NEW h, NEW K, NEW elm, NEW d, NEW tmp,
         Turned(m, r, h, K, elm, d, tmp), NEW low, NEW top,
         ColouredThere(m, r, h, K, elm, d, tmp, low, top)
  PROVE  Coloured(r, h, K, low, top)
<1> DEFINE o == Opposite(d)
<1>t. /\ r.root[h] # low => IsBlack(r, r.root[h])
      /\ \A i \in K, e \in Sides :
           i \notin {elm, tmp} /\ r.color[i] = Red /\ i # top =>
             IF m.child[e][i] = elm THEN tmp # low => IsBlack(r, tmp)
             ELSE m.child[e][i] # low => IsBlack(r, m.child[e][i])
      /\ r.color[elm] = Red /\ elm # top =>
           /\ m.child[d][tmp] # low => IsBlack(r, m.child[d][tmp])
           /\ m.child[d][elm] # low => IsBlack(r, m.child[d][elm])
      /\ r.color[tmp] = Red /\ tmp # top =>
           /\ elm # low => IsBlack(r, elm)
           /\ m.child[o][tmp] # low => IsBlack(r, m.child[o][tmp])
  BY DEF ColouredThere
<1>1. /\ elm \in K /\ tmp \in K /\ elm # tmp /\ d \in Sides
      /\ o \in Sides /\ o # d /\ \A e \in Sides : e = d \/ e = o
      /\ r.child[d][tmp] = elm /\ r.child[o][tmp] = m.child[o][tmp]
      /\ r.child[o][elm] = m.child[d][tmp] /\ r.child[d][elm] = m.child[d][elm]
      /\ \A i \in K, e \in Sides : i \notin {elm, tmp} =>
           r.child[e][i] = IF m.child[e][i] = elm THEN tmp ELSE m.child[e][i]
  BY DEF Turned
<1>2. ASSUME NEW i \in K, NEW e \in Sides, r.color[i] = Red, i # top, r.child[e][i] # low
      PROVE  IsBlack(r, r.child[e][i])
  <2>1. CASE i \notin {elm, tmp}
    <3>1. r.child[e][i] = IF m.child[e][i] = elm THEN tmp ELSE m.child[e][i]
      BY <1>1, <2>1
    <3> QED
      BY <1>1, <1>2, <1>t, <2>1, <3>1
  <2>2. CASE i = elm
    BY <1>1, <1>2, <1>t, <2>2
  <2>3. CASE i = tmp
    BY <1>1, <1>2, <1>t, <2>3
  <2> QED
    BY <2>1, <2>2, <2>3
<1> QED
  BY <1>2, <1>t DEF Coloured

\* A step of head h from m to r, after which its operation is at to, its keys
\* are L, and nothing is disturbed but the nodes in own.
Proceeds(m, r, h, to, L, own, under, rank) ==
    \E labels \in Labels, ranks \in Ranks :
        /\ Well(r, h, to, L, labels, ranks)
        /\ Apart(m, r, h, own, under, labels, rank, ranks)

\* Where the loops are, and where they are left.
LEMMA AtOperation ==
  ASSUME NEW place, NEW k \in Nodes, NEW p \in Nodes, NEW n \in Nodes,
         place \in {"insertColor", "removeColor", "removed"}
  PROVE  /\ At(place, k, p, n) \in Operation
         /\ At(place, k, p, n).pc = place /\ At(place, k, p, n).elm = n
         /\ At(place, k, p, n).parent = p
  BY DEF At, Operation, Removing

\* What there is to show of a head in the loop of RB_INSERT_COLOR.
LEMMA InsertColorWell ==
  ASSUME NEW r, NEW h, NEW K, NEW labels, NEW ranks \in Ranks, IsTree(r, h, K, labels),
         Ranked(r, K, ranks, Null, "left"),
         NEW to \in Operation, to.pc = "insertColor",
         Coloured(r, h, K, to.elm, Null), to.elm \in K, r.color[to.elm] = Red
  PROVE  Well(r, h, to, K, labels, ranks)
  BY DEF Well, Balanced, Pointers, Answers

\* What there is to show of a head in the loop of RB_REMOVE_COLOR.
LEMMA RemoveColorWell ==
  ASSUME NEW r, NEW h, NEW K, NEW labels, NEW ranks \in Ranks, IsTree(r, h, K, labels),
         NEW to \in Operation, to.pc = "removeColor",
         NEW d \in Sides, Ranked(r, K, ranks, to.parent, d),
         Coloured(r, h, K, to.elm, to.elm),
         to.elm \in K \cup {Null}, to.parent \in K \cup {Null},
         to.parent # Null => r.child[d][to.parent] = to.elm,
         to.parent = Null => to.elm = r.root[h]
  PROVE  Well(r, h, to, K, labels, ranks)
  BY DEF Well, Balanced, Pointers, Answers

\* What there is to show of a head after either.
LEMMA RestoredWell ==
  ASSUME NEW r, NEW h, NEW K, NEW labels, NEW ranks \in Ranks, IsTree(r, h, K, labels),
         Ranked(r, K, ranks, Null, "left"), Coloured(r, h, K, Null, Null),
         NEW to \in Operation, to.pc \in {"removed", "idle"}
  PROVE  Well(r, h, to, K, labels, ranks)
  BY DEF Well, Balanced, Pointers, Answers

\* An inner child changes places with its parent.
LEMMA InnerWell ==
  ASSUME NEW m, NEW h, NEW K, NEW under, NEW rank, NEW elm, NEW p, NEW g, NEW d,
         RedPair(m, h, K, under, rank, elm, p, g, d), m.child[Opposite(d)][p] = elm,
         NEW r, r = Rotate(m, h, p, d),
         NEW to \in Operation, to.pc = "insertColor", to.elm = p
  PROVE  Proceeds(m, r, h, to, K, K, under, rank)
<1> DEFINE o == Opposite(d)
<1>1. /\ IsTree(m, h, K, under) /\ rank \in Ranks
      /\ Ranked(m, K, rank, Null, "left") /\ Coloured(m, h, K, elm, Null)
  BY DEF RedPair
<1>2. /\ elm \in K /\ p \in K /\ g \in K /\ p # elm /\ g # p /\ g # elm /\ elm # Null
      /\ m.color[elm] = Red /\ m.color[p] = Red /\ m.color[g] = Black
      /\ d \in Sides /\ o \in Sides /\ m.child[d][g] = p
      /\ m.root[h] # elm /\ m.root[h] # p
      /\ m.parent[p] = g /\ m.parent[elm] = p
  BY DEF RedPair
<1>3. PICK labels : labels = Lowered(m, under, p, d, elm)
  OBVIOUS
<1>4. /\ IsTree(r, h, K, labels) /\ r.color = m.color /\ Turned(m, r, h, K, p, d, elm)
      /\ Apart(m, r, h, K, under, labels, rank, rank)
  <2>1. elm = m.child[Opposite(d)][p]
    OBVIOUS
  <2>2. /\ IsTree(r, h, K, labels) /\ r.color = m.color /\ Turned(m, r, h, K, p, d, elm)
        /\ \A ranks, news : (\A n \in Nodes : n \notin K => news[n] = ranks[n]) =>
             Apart(m, r, h, K, under, labels, ranks, news)
    BY <1>1, <1>2, <1>3, <2>1, RotateTurns
  <2> QED
    BY <2>2
<1>5. /\ \A n : IsBlack(r, n) <=> IsBlack(m, n)
      /\ \A i : Blacks(r, i) = Blacks(m, i)
      /\ Blacks(m, p) = 0 /\ Blacks(m, elm) = 0
  BY <1>2, <1>4 DEF IsBlack, Blacks, Black, Red
<1>6. /\ \A i \in K : i \in Nodes /\ i # Null /\ \A e \in Sides : m.child[e][i] \in Nodes
      /\ Linked(m, h, K)
  BY <1>1, TreeTypes
<1>7. /\ rank[Null] = 0
      /\ \A i \in K, e \in Sides : rank[i] = rank[m.child[e][i]] + Blacks(m, i) + 0
  BY <1>1, <1>6 DEF Ranked
<1>8. Ranked(r, K, rank, Null, "left")
  <2>1. rank[p] = rank[elm]
    <3>1. rank[p] = rank[m.child[o][p]] + Blacks(m, p) + 0
      BY <1>2, <1>7
    <3>2. rank[elm] \in Int
      BY <1>1, <1>2, <1>6, RankTypes
    <3> QED
      BY <1>5, <3>1, <3>2
  <2>2. /\ rank[p] = rank[m.child[d][elm]] + Blacks(r, p) + 0
        /\ rank[elm] = rank[p] + Blacks(r, elm) + 0
    <3>1. rank[elm] = rank[m.child[d][elm]] + Blacks(m, elm) + 0
      BY <1>2, <1>7
    <3>2. rank[elm] \in Int
      BY <1>1, <1>2, <1>6, RankTypes
    <3> QED
      BY <1>5, <2>1, <3>1, <3>2
  <2>3. /\ rank[p] = rank[m.child[d][p]] + Blacks(r, p) + 0
        /\ rank[elm] = rank[m.child[o][elm]] + Blacks(r, elm) + 0
    BY <1>2, <1>5, <1>7
  <2>4. \A i \in K, e \in Sides : i \notin {p, elm} =>
          rank[i] = rank[m.child[e][i]] + Blacks(r, i) + (IF i = Null /\ e = "left" THEN 1 ELSE 0)
    BY <1>5, <1>6, <1>7
  <2>5. /\ p # Null /\ elm # Null
        /\ rank[p] = rank[m.child[d][p]] + Blacks(r, p)
                       + (IF p = Null /\ d = "left" THEN 1 ELSE 0)
    BY <1>2, <1>6, <2>3
  <2>6. RankedThere(m, r, K, p, d, elm, rank, rank, Null, "left")
    BY <1>7, <2>1, <2>2, <2>3, <2>4, <2>5 DEF RankedThere
  <2> QED
    BY <1>1, <1>4, <2>6, TurnedRanked
<1>9. Coloured(r, h, K, p, Null)
  <2>1. /\ m.root[h] # elm => IsBlack(m, m.root[h])
        /\ \A i \in K, e \in Sides :
             m.color[i] = Red /\ m.child[e][i] # elm => IsBlack(m, m.child[e][i])
    BY <1>1, <1>6 DEF Coloured
  <2>0. \A i \in K, e \in Sides : m.child[e][i] # Null => m.parent[m.child[e][i]] = i
    BY <1>1, LinkedLaws
  <2>2. \A i \in K, e \in Sides : m.child[e][i] = elm => i = p
    BY <1>2, <2>0
  <2>3. \A i \in K, e \in Sides : m.child[e][i] = p => i = g
    <3>1. p # Null
      BY <1>2, <1>6
    <3> QED
      BY <1>2, <2>0, <3>1
  <2>4. r.root[h] # p => IsBlack(r, r.root[h])
    BY <1>2, <1>4, <1>5, <2>1 DEF Turned
  <2>5. \A i \in K, e \in Sides :
          i \notin {p, elm} /\ r.color[i] = Red /\ i # Null =>
            IF m.child[e][i] = p THEN elm # p => IsBlack(r, elm)
            ELSE m.child[e][i] # p => IsBlack(r, m.child[e][i])
    BY <1>2, <1>4, <1>5, <2>1, <2>2, <2>3 DEF Black, Red
  <2>6. /\ m.child[d][p] # elm
        /\ IsBlack(r, m.child[d][elm]) /\ IsBlack(r, m.child[o][elm])
    <3>1. m.child[d][p] # elm
      BY <1>2, <1>4 DEF Turned
    <3>2. m.child[d][elm] # elm /\ m.child[o][elm] # elm
      BY <1>2, <2>2
    <3> QED
      BY <1>2, <1>5, <2>1, <3>1, <3>2
  <2>7. IsBlack(r, m.child[d][p])
    BY <1>2, <1>5, <2>1, <2>6
  <2>8. ColouredThere(m, r, h, K, p, d, elm, p, Null)
    BY <2>4, <2>5, <2>6, <2>7 DEF ColouredThere
  <2> QED
    BY <1>4, <2>8, TurnedColoured
<1>10. Well(r, h, to, K, labels, rank)
  BY <1>1, <1>2, <1>4, <1>8, <1>9, InsertColorWell
<1>11. labels \in Labels
  BY <1>4, TreeTypes
<1> QED
  BY <1>1, <1>4, <1>10, <1>11 DEF Proceeds

\* UncleIsBlack, with elm an outer child
LEMMA OuterWell ==
  ASSUME NEW m, NEW h, NEW K, NEW under, NEW rank, NEW elm, NEW p, NEW g, NEW d,
         RedPair(m, h, K, under, rank, elm, p, g, d), m.child[Opposite(d)][p] # elm,
         IsBlack(m, m.child[Opposite(d)][g]),
         NEW r, r = Rotate(BlackRed(m, p, g), h, g, Opposite(d)),
         NEW to \in Operation, to.pc = "insertColor", to.elm = elm
  PROVE  Proceeds(m, r, h, to, K, K, under, rank)
<1> DEFINE o == Opposite(d)
<1>1. /\ IsTree(m, h, K, under) /\ rank \in Ranks
      /\ Ranked(m, K, rank, Null, "left") /\ Coloured(m, h, K, elm, Null)
  BY DEF RedPair
<1>2. /\ elm \in K /\ p \in K /\ g \in K /\ p # elm /\ g # p /\ g # elm
      /\ elm # Null /\ p # Null /\ g # Null
      /\ m.color[elm] = Red /\ m.color[p] = Red /\ m.color[g] = Black
      /\ d \in Sides /\ o \in Sides /\ m.child[d][g] = p /\ m.child[d][p] = elm
      /\ m.root[h] # elm /\ m.root[h] # p
      /\ m.parent[p] = g /\ m.parent[elm] = p
  BY DEF RedPair
<1>3. PICK a : a = BlackRed(m, p, g)
  OBVIOUS
<1>4. /\ m \in Memory /\ K \subseteq Keys
      /\ \A i \in K : i \in Nodes /\ i # Null /\ \A e \in Sides : m.child[e][i] \in Nodes
  BY <1>1, TreeTypes
<1>5. /\ Repainted(m, a, K)
      /\ a.color[p] = Black /\ a.color[g] = Red
      /\ \A i \in K : i \notin {p, g} => a.color[i] = m.color[i]
  <2>1. p \in Keys /\ g \in Keys /\ p # g /\ m \in Memory
    BY <1>2, <1>4
  <2>2. /\ a \in Memory /\ a.parent = m.parent /\ a.child = m.child /\ a.root = m.root
        /\ \A i \in Keys : a.color[i] =
             IF i = p THEN Black ELSE IF i = g THEN Red ELSE m.color[i]
    BY <1>3, <2>1, BlackRedFields
  <2> QED
    BY <1>2, <1>4, <2>2 DEF Repainted
<1>6. PICK labels \in Labels :
        /\ IsTree(r, h, K, labels) /\ r.color = a.color
        /\ Turned(m, r, h, K, g, o, p)
        /\ \A olds, news : (\A n \in Nodes : n \notin K => news[n] = olds[n]) =>
             Apart(m, r, h, K, under, labels, olds, news)
  <2>1. p = m.child[Opposite(o)][g] /\ r = Rotate(a, h, g, o)
    BY <1>2, <1>3, SidesLaws
  <2> QED
    BY <1>1, <1>2, <1>5, <2>1, PaintedTurns
<1>7. PICK ranks : ranks = [rank EXCEPT ![p] = rank[g], ![g] = rank[p]]
  OBVIOUS
<1>8. /\ ranks \in Ranks /\ ranks[p] = rank[g] /\ ranks[g] = rank[p]
      /\ \A n \in Nodes : n \notin {p, g} => ranks[n] = rank[n]
  BY <1>1, <1>2, <1>4, <1>7 DEF Ranks
<1>9. /\ rank[Null] = 0
      /\ \A i \in K, e \in Sides : rank[i] = rank[m.child[e][i]] + Blacks(m, i) + 0
  BY <1>1, <1>4 DEF Ranked
<1>10. /\ r.color[p] = Black /\ r.color[g] = Red
       /\ \A i \in K : i \notin {p, g} => r.color[i] = m.color[i]
       /\ Blacks(m, g) = 1 /\ Blacks(m, p) = 0 /\ Blacks(r, g) = 0 /\ Blacks(r, p) = 1
       /\ \A i \in K : i \notin {p, g} => Blacks(r, i) = Blacks(m, i)
  BY <1>2, <1>5, <1>6 DEF Blacks, Black, Red
<1>11. Ranked(r, K, ranks, Null, "left")
  <2>1. /\ rank[g] = rank[p] + 1 + 0
        /\ rank[g] = rank[m.child[o][g]] + 1 + 0
        /\ rank[p] = rank[elm] + 0 + 0
        /\ rank[p] = rank[m.child[o][p]] + 0 + 0
    BY <1>2, <1>9, <1>10
  <2>2. /\ rank[g] \in Int /\ rank[p] \in Int /\ rank[elm] \in Int
        /\ rank[m.child[o][g]] \in Int /\ rank[m.child[o][p]] \in Int
    BY <1>1, <1>2, <1>4, RankTypes
  <2>3. /\ ranks[g] = rank[m.child[o][p]] + Blacks(r, g) + 0
        /\ ranks[g] = rank[m.child[o][g]] + Blacks(r, g) + 0
        /\ ranks[p] = ranks[g] + Blacks(r, p) + 0
        /\ ranks[p] = rank[m.child[d][p]] + Blacks(r, p) + 0
    BY <1>2, <1>8, <1>10, <2>1, <2>2
  <2>4. /\ d = Opposite(o)
        /\ \A i \in K, e \in Sides : i \notin {g, p} =>
             rank[i] = rank[m.child[e][i]] + Blacks(r, i)
                         + (IF i = Null /\ e = "left" THEN 1 ELSE 0)
        /\ ranks[g] = rank[m.child[o][g]] + Blacks(r, g)
                        + (IF g = Null /\ o = "left" THEN 1 ELSE 0)
    BY <1>2, <1>4, <1>9, <1>10, <2>3, SidesLaws
  <2>5. RankedThere(m, r, K, g, o, p, rank, ranks, Null, "left")
    BY <1>2, <1>8, <1>9, <2>3, <2>4 DEF RankedThere
  <2> QED
    BY <1>1, <1>6, <2>5, TurnedRanked
<1>12. Coloured(r, h, K, elm, Null)
  <2>0. \A i \in K, e \in Sides : m.child[e][i] # Null =>
          m.child[e][i] \in K /\ m.parent[m.child[e][i]] = i
    BY <1>1, LinkedLaws
  <2>1. /\ m.root[h] # elm => IsBlack(m, m.root[h])
        /\ \A i \in K, e \in Sides :
             m.color[i] = Red /\ m.child[e][i] # elm => IsBlack(m, m.child[e][i])
    BY <1>1, <1>4 DEF Coloured
  <2>2. \A n \in K \cup {Null} : n # g /\ IsBlack(m, n) => IsBlack(r, n)
    BY <1>2, <1>10 DEF IsBlack
  <2>3. IsBlack(r, r.root[h])
    <3>1. m.root[h] \in K \cup {Null}
      BY <1>1, TreeTypes DEF Linked
    <3>2. r.root[h] = IF m.root[h] = g THEN p ELSE m.root[h]
      BY <1>6 DEF Turned
    <3> QED
      BY <1>2, <1>10, <2>1, <2>2, <3>1, <3>2 DEF IsBlack
  <2>4. \A i \in K, e \in Sides :
          i \notin {g, p} /\ r.color[i] = Red /\ i # Null =>
            IF m.child[e][i] = g THEN p # elm => IsBlack(r, p)
            ELSE m.child[e][i] # elm => IsBlack(r, m.child[e][i])
    <3>1. IsBlack(r, p)
      BY <1>10 DEF IsBlack
    <3>2. \A i \in K, e \in Sides : m.child[e][i] \in K \cup {Null}
      BY <2>0
    <3> QED
      BY <1>10, <2>1, <2>2, <3>1, <3>2
  <2>5. IsBlack(r, m.child[o][p]) /\ IsBlack(r, m.child[o][g])
    <3>1. m.child[o][p] \in K \cup {Null} /\ m.child[o][g] \in K \cup {Null}
      BY <1>2, <2>0
    <3>2. m.child[o][p] # g /\ m.child[o][g] # g
      BY <1>2, <1>6 DEF Turned
    <3> QED
      BY <1>2, <2>1, <2>2, <3>1, <3>2
  <2>6. r.color[p] # Red
    BY <1>10 DEF Black, Red
  <2>7. ColouredThere(m, r, h, K, g, o, p, elm, Null)
    BY <2>3, <2>4, <2>5, <2>6 DEF ColouredThere
  <2> QED
    BY <1>6, <2>7, TurnedColoured
<1>13. Well(r, h, to, K, labels, ranks)
  <2>1. r.color[elm] = Red
    BY <1>2, <1>10
  <2> QED
    BY <1>2, <1>6, <1>8, <1>11, <1>12, <2>1, InsertColorWell
<1>14. Apart(m, r, h, K, under, labels, rank, ranks)
  <2>1. \A n \in Nodes : n \notin K => ranks[n] = rank[n]
    BY <1>2, <1>8
  <2> QED
    BY <1>6, <2>1
<1> QED
  BY <1>6, <1>8, <1>13, <1>14 DEF Proceeds

\* InsertDone
LEMMA InsertDoneWell ==
  ASSUME NEW m, NEW h, NEW o, NEW K, NEW under, NEW rank, Well(m, h, o, K, under, rank),
         o.pc = "insertColor", IsBlack(m, m.parent[o.elm]),
         NEW r, r = Paint(m, m.root[h], Black)
  PROVE  Proceeds(m, r, h, Idle, K, K, under, rank)
<1> DEFINE elm == o.elm
<1>1. /\ IsTree(m, h, K, under) /\ Coloured(m, h, K, elm, Null)
      /\ elm \in K /\ m.color[elm] = Red
      /\ rank \in Ranks /\ Ranked(m, K, rank, Null, "left")
  BY DEF Well, Balanced
<1>2. PICK n : n = m.root[h]
  OBVIOUS
<1>3. /\ m \in Memory /\ K \subseteq Keys /\ n \in K /\ n \in Nodes /\ n \in Keys /\ Null \notin K
      /\ \A i \in K : i \in Nodes /\ i # Null /\ \A e \in Sides : m.child[e][i] \in Nodes
      /\ m.parent[n] = Null
  <2>1. n # Null
    BY <1>1, <1>2, TreeTypes DEF Sorted
  <2>2. n \in K /\ m.parent[n] = Null
    BY <1>1, <1>2, <2>1, TreeTypes DEF Linked
  <2> QED
    BY <1>1, <2>2, TreeTypes, KeysNodes
<1>4. /\ r \in Memory /\ r.parent = m.parent /\ r.child = m.child /\ r.root = m.root
      /\ \A i \in Keys : r.color[i] = IF i = n THEN Black ELSE m.color[i]
  BY <1>2, <1>3, PaintFields
<1>5. IsTree(r, h, K, under)
  BY <1>1, <1>4, PaintedTree
<1>6. PICK ranks : ranks = [rank EXCEPT ![n] = rank[n] + 1 - Blacks(m, n)]
  OBVIOUS
<1>7. /\ ranks \in Ranks /\ ranks[n] = rank[n] + 1 - Blacks(m, n)
      /\ \A i \in Nodes : i # n => ranks[i] = rank[i]
  <2>1. rank[n] \in Nat /\ (Blacks(m, n) = 0 \/ Blacks(m, n) = 1)
    BY <1>1, <1>3, RankTypes DEF Blacks
  <2>2. rank[n] + 1 - Blacks(m, n) \in Nat
    BY <2>1
  <2> QED
    BY <1>1, <1>3, <1>6, <2>2 DEF Ranks
<1>8. \A i \in K, e \in Sides : m.child[e][i] # n
  BY <1>1, <1>3, LinkedLaws
<1>9. Ranked(r, K, ranks, Null, "left")
  <2>1. ASSUME NEW i \in K, NEW e \in Sides
        PROVE  ranks[i] = ranks[r.child[e][i]] + Blacks(r, i) + 0
    <3>0. PICK c : c = m.child[e][i]
      OBVIOUS
    <3>1. rank[i] = rank[c] + Blacks(m, i) + 0 /\ c \in Nodes /\ ranks[c] = rank[c]
      BY <1>1, <1>3, <1>7, <1>8, <3>0 DEF Ranked
    <3>2. rank[i] \in Int /\ rank[c] \in Int
      BY <1>1, <1>3, <3>1, RankTypes
    <3>3. (Blacks(m, i) = 0 \/ Blacks(m, i) = 1) /\ i \in Nodes /\ r.child[e][i] = c
      BY <1>3, <1>4, <3>0 DEF Blacks
    <3>4. CASE i = n
      <4>1. Blacks(r, i) = 1
        BY <1>3, <1>4, <3>4 DEF Blacks
      <4> QED
        BY <1>7, <3>1, <3>2, <3>3, <3>4, <4>1
    <3>5. CASE i # n
      <4>1. Blacks(r, i) = Blacks(m, i)
        BY <1>3, <1>4, <3>5 DEF Blacks
      <4> QED
        BY <1>7, <3>1, <3>2, <3>3, <3>5, <4>1
    <3> QED
      BY <3>4, <3>5
  <2>2. ranks[Null] = 0
    BY <1>1, <1>3, <1>7, KeysNodes DEF Ranked
  <2> QED
    BY <1>3, <2>1, <2>2 DEF Ranked
<1>10. Coloured(r, h, K, Null, Null)
  <2>1. ASSUME NEW i \in K, NEW e \in Sides, r.color[i] = Red
        PROVE  IsBlack(r, m.child[e][i])
    <3>0. PICK c : c = m.child[e][i]
      OBVIOUS
    <3>1. i # n /\ m.color[i] = Red
      BY <1>3, <1>4, <2>1 DEF Black, Red
    <3>2. c # elm
      <4>0. \A j \in K, s \in Sides : m.child[s][j] # Null => m.parent[m.child[s][j]] = j
        BY <1>1, LinkedLaws
      <4>1. c = elm => m.parent[elm] = i
        BY <1>1, <1>3, <3>0, <4>0
      <4>2. c = elm => m.color[i] = Black
        BY <1>3, <4>1 DEF IsBlack
      <4> QED
        BY <3>1, <4>2 DEF Black, Red
    <3>3. IsBlack(m, c)
      BY <1>1, <1>3, <3>0, <3>1, <3>2 DEF Coloured
    <3>4. c # Null => c \in Keys
      BY <1>1, <1>3, <3>0, LinkedLaws
    <3> QED
      BY <1>4, <3>0, <3>3, <3>4 DEF IsBlack
  <2>2. IsBlack(r, r.root[h])
    BY <1>2, <1>3, <1>4 DEF IsBlack
  <2> QED
    BY <1>4, <2>1, <2>2 DEF Coloured
<1>11. Well(r, h, Idle, K, under, ranks)
  <2>1. Idle \in Operation /\ Idle.pc \in {"removed", "idle"}
    BY KeysNodes DEF Idle, Operation
  <2> QED
    BY <1>5, <1>7, <1>9, <1>10, <2>1, RestoredWell
<1>12. Apart(m, r, h, K, under, under, rank, ranks)
  BY <1>3, <1>4, <1>7 DEF Apart
<1> QED
  BY <1>1, <1>7, <1>11, <1>12, TreeTypes DEF Proceeds

-----------------------------------------------------------------------------
(* The loop that follows a removal                                         *)

\* The child of p that is short of a black node, on side d, and its sibling.
ShortPair(m, h, K, under, rank, elm, p, d, sib) ==
    /\ IsTree(m, h, K, under) /\ rank \in Ranks
    /\ Ranked(m, K, rank, p, d) /\ Coloured(m, h, K, Null, Null)
    /\ p \in K /\ sib \in K /\ elm \in K \cup {Null} /\ p # sib /\ elm # sib /\ elm # p
    /\ d \in Sides /\ Opposite(d) \in Sides /\ Opposite(d) # d
    /\ m.child[d][p] = elm /\ m.child[Opposite(d)][p] = sib /\ m.parent[sib] = p
    /\ IsBlack(m, elm) /\ rank[sib] = rank[elm] + 1

\* A node that is short of a black one has a parent and a sibling.
LEMMA SiblingLaws ==
  ASSUME NEW m, NEW h, NEW o, NEW K, NEW under, NEW rank, Well(m, h, o, K, under, rank),
         o.pc = "removeColor", o.elm # m.root[h], IsBlack(m, o.elm)
  PROVE  LET p == o.parent
             d == SideOf(m, p, o.elm)
         IN ShortPair(m, h, K, under, rank, o.elm, p, d, m.child[Opposite(d)][p])
<1>1. PICK elm, p : elm = o.elm /\ p = o.parent
  OBVIOUS
<1>2. /\ IsTree(m, h, K, under) /\ rank \in Ranks /\ Coloured(m, h, K, elm, elm)
      /\ elm \in K \cup {Null} /\ p \in K
  BY <1>1 DEF Well, Balanced
<1>3. PICK d \in Sides : Ranked(m, K, rank, p, d) /\ m.child[d][p] = elm
  BY <1>1, <1>2, TreeTypes DEF Well, Balanced
<1>4. PICK s, sib : s = Opposite(d) /\ sib = m.child[s][p]
  OBVIOUS
<1>5. s \in Sides /\ s # d /\ sib \in Nodes /\ elm \in Nodes /\ p \in Nodes /\ Null \in Nodes
  BY <1>2, <1>3, <1>4, SidesLaws, TreeTypes
<1>6. rank[sib] = rank[elm] + 1
  <2>1. /\ rank[p] = rank[elm] + Blacks(m, p) + 1
        /\ rank[p] = rank[sib] + Blacks(m, p) + 0
    BY <1>2, <1>3, <1>4, <1>5 DEF Ranked
  <2>2. rank[p] \in Int /\ rank[elm] \in Int /\ rank[sib] \in Int /\ Blacks(m, p) \in Int
    BY <1>2, <1>5, RankTypes DEF Blacks
  <2> QED
    BY <2>1, <2>2
<1>7. sib # Null /\ sib # elm
  <2>1. rank[elm] \in Nat /\ rank[sib] \in Nat /\ rank[Null] = 0
    BY <1>2, <1>3, <1>5, RankTypes DEF Ranked
  <2> QED
    BY <1>6, <2>1
<1>8. sib \in K /\ sib # p /\ m.parent[sib] = p
  BY <1>2, <1>4, <1>5, <1>7, ChildLaws
<1>9. elm # p
  BY <1>2, <1>3, ChildLaws, TreeTypes
<1>10. SideOf(m, p, elm) = d
  BY <1>3, <1>4, <1>5, <1>7 DEF SideOf, Sides
<1>11. Coloured(m, h, K, Null, Null)
  <2>1. IsBlack(m, elm)
    BY <1>1
  <2>2. elm # Null => m.color[elm] # Red
    BY <2>1 DEF IsBlack, Black, Red
  <2>3. \A i \in K : i # Null
    BY <1>2, TreeTypes
  <2> QED
    BY <1>1, <1>2, <2>1, <2>2, <2>3 DEF Coloured
<1>12. ShortPair(m, h, K, under, rank, elm, p, d, sib)
  BY <1>1, <1>2, <1>3, <1>4, <1>5, <1>6, <1>7, <1>8, <1>9, <1>11 DEF ShortPair
<1> QED
  BY <1>1, <1>4, <1>10, <1>12

\* The loop goes on at the same node: op is unchanged.
LEMMA StillShortWell ==
  ASSUME NEW r, NEW h, NEW K, NEW labels, NEW ranks \in Ranks, IsTree(r, h, K, labels),
         NEW elm, NEW p, NEW d \in Sides, Ranked(r, K, ranks, p, d),
         Coloured(r, h, K, Null, Null), elm \in K \cup {Null}, p \in K, r.child[d][p] = elm,
         NEW to \in Operation, to.pc = "removeColor", to.elm = elm, to.parent = p,
         elm # Null => r.color[elm] = Black
  PROVE  Well(r, h, to, K, labels, ranks)
<1>1. Coloured(r, h, K, elm, elm)
  <2>1. \A i \in K : i # Null
    BY TreeTypes
  <2> QED
    BY <2>1 DEF Coloured, IsBlack
<1>2. p # Null
  BY TreeTypes
<1> QED
  BY <1>1, <1>2, RemoveColorWell

\* Painting one node black and another red.
LEMMA BlackRedRepaints ==
  ASSUME NEW m \in Memory, NEW K, NEW black \in Keys, NEW red \in Keys,
         black \in K, red \in K, black # red
  PROVE  LET a == BlackRed(m, black, red) IN
         /\ Repainted(m, a, K)
         /\ a.color[black] = Black /\ a.color[red] = Red
         /\ \A i \in Keys : i \notin {black, red} => a.color[i] = m.color[i]
<1>a. PICK a : a = BlackRed(m, black, red)
  OBVIOUS
<1>2. /\ a \in Memory /\ a.parent = m.parent /\ a.child = m.child /\ a.root = m.root
      /\ \A i \in Keys : a.color[i] =
           IF i = black THEN Black ELSE IF i = red THEN Red ELSE m.color[i]
  BY <1>a, BlackRedFields
<1> QED
  BY <1>a, <1>2 DEF Repainted

\* SiblingIsRed
LEMMA SiblingIsRedWell ==
  ASSUME NEW m, NEW h, NEW K, NEW under, NEW rank, NEW elm, NEW p, NEW d, NEW sib,
         ShortPair(m, h, K, under, rank, elm, p, d, sib), m.color[sib] = Red,
         NEW r, r = Rotate(BlackRed(m, sib, p), h, p, d),
         NEW to \in Operation, to.pc = "removeColor", to.elm = elm, to.parent = p
  PROVE  Proceeds(m, r, h, to, K, K, under, rank)
<1> DEFINE o == Opposite(d)
<1>1. /\ IsTree(m, h, K, under) /\ rank \in Ranks
      /\ Ranked(m, K, rank, p, d) /\ Coloured(m, h, K, Null, Null)
  BY DEF ShortPair
<1>2. /\ p \in K /\ sib \in K /\ elm \in K \cup {Null} /\ p # sib /\ elm # sib /\ elm # p
      /\ d \in Sides /\ o \in Sides /\ o # d
      /\ m.child[d][p] = elm /\ m.child[o][p] = sib /\ m.parent[sib] = p
      /\ IsBlack(m, elm) /\ rank[sib] = rank[elm] + 1
  BY DEF ShortPair
<1>3. PICK a : a = BlackRed(m, sib, p)
  OBVIOUS
<1>4. /\ m \in Memory /\ K \subseteq Keys /\ Null \in Nodes
      /\ \A i \in K : i \in Nodes /\ i # Null /\ \A e \in Sides : m.child[e][i] \in Nodes
  BY <1>1, TreeTypes
<1>5. /\ Repainted(m, a, K)
      /\ a.color[sib] = Black /\ a.color[p] = Red
      /\ \A i \in K : i \notin {p, sib} => a.color[i] = m.color[i]
  <2>1. m \in Memory /\ sib \in Keys /\ p \in Keys /\ sib \in K /\ p \in K /\ sib # p
    BY <1>2, <1>4
  <2>2. /\ Repainted(m, a, K)
        /\ a.color[sib] = Black /\ a.color[p] = Red
        /\ \A i \in Keys : i \notin {sib, p} => a.color[i] = m.color[i]
    BY <1>3, <2>1, BlackRedRepaints
  <2> QED
    BY <1>4, <2>2
<1>6. PICK labels \in Labels :
        /\ IsTree(r, h, K, labels) /\ r.color = a.color
        /\ Turned(m, r, h, K, p, d, sib)
        /\ \A olds, news : (\A n \in Nodes : n \notin K => news[n] = olds[n]) =>
             Apart(m, r, h, K, under, labels, olds, news)
  <2>1. sib = m.child[Opposite(d)][p] /\ r = Rotate(a, h, p, d)
    BY <1>2, <1>3
  <2> QED
    BY <1>1, <1>2, <1>5, <2>1, PaintedTurns
<1>7. PICK ranks : ranks = [rank EXCEPT ![p] = rank[sib], ![sib] = rank[p]]
  OBVIOUS
<1>8. /\ ranks \in Ranks /\ ranks[p] = rank[sib] /\ ranks[sib] = rank[p]
      /\ \A n \in Nodes : n \notin {p, sib} => ranks[n] = rank[n]
  BY <1>1, <1>2, <1>4, <1>7 DEF Ranks
<1>9. /\ rank[Null] = 0
      /\ \A i \in K, e \in Sides :
           rank[i] = rank[m.child[e][i]] + Blacks(m, i) + (IF i = p /\ e = d THEN 1 ELSE 0)
  BY <1>1, <1>4 DEF Ranked
<1>c. /\ IsBlack(m, m.root[h])
      /\ \A i \in K, e \in Sides : m.color[i] = Red => IsBlack(m, m.child[e][i])
  <2>1. IsBlack(m, Null)
    BY DEF IsBlack
  <2> QED
    BY <1>1, <1>4, <2>1 DEF Coloured
<1>b. m.color[p] = Black
  <2>1. m.color[p] # Red
    BY <1>2, <1>4, <1>c DEF IsBlack, Black, Red
  <2>2. m.color[p] \in {Black, Red}
    BY <1>2, <1>4 DEF Memory
  <2> QED
    BY <2>1, <2>2
<1>10. /\ r.color[sib] = Black /\ r.color[p] = Red
       /\ \A i \in K : i \notin {p, sib} => r.color[i] = m.color[i]
       /\ Blacks(m, p) = 1 /\ Blacks(m, sib) = 0 /\ Blacks(r, p) = 0 /\ Blacks(r, sib) = 1
       /\ \A i \in K : i \notin {p, sib} => Blacks(r, i) = Blacks(m, i)
  BY <1>2, <1>5, <1>6, <1>b DEF Blacks, Black, Red
<1>11. Ranked(r, K, ranks, p, d)
  <2>1. /\ rank[p] = rank[elm] + 1 + 1
        /\ rank[sib] = rank[m.child[d][sib]] + 0 + 0
        /\ rank[sib] = rank[m.child[o][sib]] + 0 + 0
    BY <1>2, <1>9, <1>10
  <2>2. /\ rank[p] \in Int /\ rank[sib] \in Int /\ rank[elm] \in Int
        /\ rank[m.child[d][sib]] \in Int /\ rank[m.child[o][sib]] \in Int
    BY <1>1, <1>2, <1>4, RankTypes
  <2>3. /\ ranks[p] = rank[m.child[d][sib]] + Blacks(r, p) + 0
        /\ ranks[p] = rank[m.child[d][p]] + Blacks(r, p) + (IF p = p /\ d = d THEN 1 ELSE 0)
        /\ ranks[sib] = ranks[p] + Blacks(r, sib) + 0
        /\ ranks[sib] = rank[m.child[o][sib]] + Blacks(r, sib) + 0
    BY <1>2, <1>8, <1>10, <2>1, <2>2
  <2>4. \A i \in K, e \in Sides : i \notin {p, sib} =>
          rank[i] = rank[m.child[e][i]] + Blacks(r, i) + (IF i = p /\ e = d THEN 1 ELSE 0)
    BY <1>9, <1>10
  <2>5. RankedThere(m, r, K, p, d, sib, rank, ranks, p, d)
    BY <1>2, <1>8, <1>9, <2>3, <2>4 DEF RankedThere
  <2> QED
    BY <1>1, <1>6, <2>5, TurnedRanked
<1>12. Coloured(r, h, K, Null, Null)
  <2>0. \A i \in K, e \in Sides : m.child[e][i] # Null =>
          m.child[e][i] \in K /\ m.parent[m.child[e][i]] = i
    BY <1>1, LinkedLaws
  <2>2. \A n \in K \cup {Null} : n # p /\ IsBlack(m, n) => IsBlack(r, n)
    BY <1>2, <1>10 DEF IsBlack
  <2>3. IsBlack(r, r.root[h])
    <3>1. m.root[h] \in K \cup {Null}
      BY <1>1, TreeTypes DEF Linked
    <3>2. r.root[h] = IF m.root[h] = p THEN sib ELSE m.root[h]
      BY <1>6 DEF Turned
    <3> QED
      BY <1>2, <1>10, <1>c, <2>2, <3>1, <3>2 DEF IsBlack
  <2>4. \A i \in K, e \in Sides :
          i \notin {p, sib} /\ r.color[i] = Red /\ i # Null =>
            IF m.child[e][i] = p THEN sib # Null => IsBlack(r, sib)
            ELSE m.child[e][i] # Null => IsBlack(r, m.child[e][i])
    <3>1. IsBlack(r, sib)
      BY <1>10 DEF IsBlack
    <3> QED
      BY <1>10, <1>c, <2>0, <2>2, <3>1
  <2>5. IsBlack(r, m.child[d][sib]) /\ IsBlack(r, m.child[d][p])
    <3>1. m.child[d][sib] \in K \cup {Null} /\ m.child[d][sib] # p
      BY <1>2, <1>6, <2>0 DEF Turned
    <3>2. IsBlack(m, m.child[d][sib])
      BY <1>2, <1>c
    <3> QED
      BY <1>2, <2>2, <3>1, <3>2
  <2>6. r.color[sib] # Red
    BY <1>10 DEF Black, Red
  <2>7. ColouredThere(m, r, h, K, p, d, sib, Null, Null)
    BY <2>3, <2>4, <2>5, <2>6 DEF ColouredThere
  <2> QED
    BY <1>6, <2>7, TurnedColoured
<1>13. Well(r, h, to, K, labels, ranks)
  <2>1. r.child[d][p] = elm
    BY <1>2, <1>6 DEF Turned
  <2>2. elm # Null => r.color[elm] = Black
    BY <1>2, <1>10 DEF IsBlack
  <2> QED
    BY <1>2, <1>6, <1>8, <1>11, <1>12, <2>1, <2>2, StillShortWell
<1>14. Apart(m, r, h, K, under, labels, rank, ranks)
  <2>1. \A n \in Nodes : n \notin K => ranks[n] = rank[n]
    BY <1>2, <1>8
  <2> QED
    BY <1>6, <2>1
<1> QED
  BY <1>6, <1>8, <1>13, <1>14 DEF Proceeds

\* NearIsRed
LEMMA NearIsRedWell ==
  ASSUME NEW m, NEW h, NEW K, NEW under, NEW rank, NEW elm, NEW p, NEW d, NEW sib,
         ShortPair(m, h, K, under, rank, elm, p, d, sib), m.color[sib] = Black,
         ~ IsBlack(m, m.child[d][sib]), IsBlack(m, m.child[Opposite(d)][sib]),
         NEW r, r = Rotate(BlackRed(m, m.child[d][sib], sib), h, sib, Opposite(d)),
         NEW to \in Operation, to.pc = "removeColor", to.elm = elm, to.parent = p
  PROVE  Proceeds(m, r, h, to, K, K, under, rank)
<1>o. PICK o, near, far : o = Opposite(d) /\ near = m.child[d][sib] /\ far = m.child[o][sib]
  OBVIOUS
<1>1. /\ IsTree(m, h, K, under) /\ rank \in Ranks
      /\ Ranked(m, K, rank, p, d) /\ Coloured(m, h, K, Null, Null)
  BY DEF ShortPair
<1>2. /\ p \in K /\ sib \in K /\ elm \in K \cup {Null} /\ p # sib /\ elm # sib /\ elm # p
      /\ d \in Sides /\ o \in Sides /\ o # d
      /\ m.child[d][p] = elm /\ m.child[o][p] = sib /\ m.parent[sib] = p
      /\ IsBlack(m, elm) /\ rank[sib] = rank[elm] + 1
  BY <1>o DEF ShortPair
<1>3. PICK a : a = BlackRed(m, near, sib)
  OBVIOUS
<1>4. /\ m \in Memory /\ K \subseteq Keys /\ Null \in Nodes
      /\ \A i \in K : i \in Nodes /\ i # Null /\ \A e \in Sides : m.child[e][i] \in Nodes
      /\ \A i \in K, e \in Sides : m.child[e][i] # Null =>
           m.child[e][i] \in K /\ m.parent[m.child[e][i]] = i
  BY <1>1, LinkedLaws, TreeTypes
<1>n. /\ near # Null /\ m.color[near] # Black /\ near \in K /\ near # sib /\ m.parent[near] = sib
      /\ near # p /\ near # elm
  <2>1. near # Null /\ m.color[near] # Black
    BY <1>o DEF IsBlack
  <2>2. near \in K /\ m.parent[near] = sib
    BY <1>2, <1>4, <1>o, <2>1
  <2>3. near # elm
    BY <1>2, <2>1 DEF IsBlack
  <2>4. near # p /\ near # sib
    <3>1. near # sib
      BY <1>1, <1>2, <1>o, <2>1, ChildLaws
    <3>2. /\ near \in under[sib] /\ sib \in under[p] /\ p \notin under[sib]
      <4>1. \A i \in K, e \in Sides : m.child[e][i] # Null =>
              m.child[e][i] \in under[i] /\ i \notin under[m.child[e][i]]
        BY <1>1, ChildLaws
      <4>2. sib # Null
        BY <1>2, <1>4
      <4> QED
        BY <1>2, <1>o, <2>1, <4>1, <4>2
    <3> QED
      BY <3>1, <3>2
  <2> QED
    BY <2>1, <2>2, <2>3, <2>4
<1>5. /\ Repainted(m, a, K)
      /\ a.color[near] = Black /\ a.color[sib] = Red
      /\ \A i \in K : i \notin {near, sib} => a.color[i] = m.color[i]
  <2>1. m \in Memory /\ sib \in Keys /\ near \in Keys /\ sib \in K /\ near \in K /\ near # sib
    BY <1>2, <1>4, <1>n
  <2>2. /\ Repainted(m, a, K)
        /\ a.color[near] = Black /\ a.color[sib] = Red
        /\ \A i \in Keys : i \notin {near, sib} => a.color[i] = m.color[i]
    BY <1>3, <2>1, BlackRedRepaints
  <2> QED
    BY <1>4, <2>2
<1>6. PICK labels \in Labels :
        /\ IsTree(r, h, K, labels) /\ r.color = a.color
        /\ Turned(m, r, h, K, sib, o, near)
        /\ \A olds, news : (\A n \in Nodes : n \notin K => news[n] = olds[n]) =>
             Apart(m, r, h, K, under, labels, olds, news)
  <2>1. near = m.child[Opposite(o)][sib] /\ r = Rotate(a, h, sib, o)
    BY <1>2, <1>3, <1>o, SidesLaws
  <2> QED
    BY <1>1, <1>2, <1>5, <1>n, <2>1, PaintedTurns
<1>7. PICK ranks : ranks = [rank EXCEPT ![near] = rank[sib], ![sib] = rank[near]]
  OBVIOUS
<1>8. /\ ranks \in Ranks /\ ranks[near] = rank[sib] /\ ranks[sib] = rank[near]
      /\ \A n \in Nodes : n \notin {near, sib} => ranks[n] = rank[n]
  BY <1>1, <1>2, <1>4, <1>7, <1>n DEF Ranks
<1>9. /\ rank[Null] = 0
      /\ \A i \in K, e \in Sides :
           rank[i] = rank[m.child[e][i]] + Blacks(m, i) + (IF i = p /\ e = d THEN 1 ELSE 0)
  BY <1>1, <1>4 DEF Ranked
<1>c. /\ IsBlack(m, m.root[h])
      /\ \A i \in K, e \in Sides : m.color[i] = Red => IsBlack(m, m.child[e][i])
  <2>1. IsBlack(m, Null)
    BY DEF IsBlack
  <2> QED
    BY <1>1, <1>4, <2>1 DEF Coloured
<1>b. m.color[near] = Red
  BY <1>4, <1>n DEF Memory
<1>10. /\ r.color[near] = Black /\ r.color[sib] = Red
       /\ \A i \in K : i \notin {near, sib} => r.color[i] = m.color[i]
       /\ Blacks(m, near) = 0 /\ Blacks(m, sib) = 1 /\ Blacks(r, near) = 1 /\ Blacks(r, sib) = 0
       /\ \A i \in K : i \notin {near, sib} => Blacks(r, i) = Blacks(m, i)
  BY <1>2, <1>5, <1>6, <1>b DEF Blacks, Black, Red
<1>11. Ranked(r, K, ranks, p, d)
  <2>1. /\ rank[sib] = rank[near] + 1 + 0
        /\ rank[sib] = rank[far] + 1 + 0
        /\ rank[near] = rank[m.child[d][near]] + 0 + 0
        /\ rank[near] = rank[m.child[o][near]] + 0 + 0
    BY <1>2, <1>9, <1>10, <1>n, <1>o
  <2>2. /\ rank[near] \in Int /\ rank[sib] \in Int /\ rank[far] \in Int
        /\ rank[m.child[d][near]] \in Int /\ rank[m.child[o][near]] \in Int
    BY <1>1, <1>2, <1>4, <1>n, <1>o, RankTypes
  <2>3. /\ ranks[sib] = rank[m.child[o][near]] + Blacks(r, sib) + 0
        /\ ranks[sib] = rank[m.child[o][sib]] + Blacks(r, sib) + (IF sib = p /\ o = d THEN 1 ELSE 0)
        /\ ranks[near] = ranks[sib] + Blacks(r, near) + 0
        /\ ranks[near] = rank[m.child[d][near]] + Blacks(r, near) + 0
    BY <1>2, <1>8, <1>10, <1>o, <2>1, <2>2
  <2>4. /\ d = Opposite(o)
        /\ \A i \in K, e \in Sides : i \notin {near, sib} =>
             rank[i] = rank[m.child[e][i]] + Blacks(r, i) + (IF i = p /\ e = d THEN 1 ELSE 0)
    BY <1>2, <1>9, <1>10, <1>o, SidesLaws
  <2>5. RankedThere(m, r, K, sib, o, near, rank, ranks, p, d)
    BY <1>2, <1>8, <1>9, <1>n, <2>3, <2>4 DEF RankedThere
  <2> QED
    BY <1>1, <1>6, <2>5, TurnedRanked
<1>12. Coloured(r, h, K, Null, Null)
  <2>2. \A n \in K \cup {Null} : n # sib /\ IsBlack(m, n) => IsBlack(r, n)
    BY <1>10 DEF IsBlack
  <2>3. IsBlack(r, r.root[h])
    <3>1. m.root[h] \in K \cup {Null}
      BY <1>1, TreeTypes DEF Linked
    <3>2. r.root[h] = IF m.root[h] = sib THEN near ELSE m.root[h]
      BY <1>6 DEF Turned
    <3> QED
      BY <1>10, <1>c, <2>2, <3>1, <3>2 DEF IsBlack
  <2>4. \A i \in K, e \in Sides :
          i \notin {near, sib} /\ r.color[i] = Red /\ i # Null =>
            IF m.child[e][i] = sib THEN near # Null => IsBlack(r, near)
            ELSE m.child[e][i] # Null => IsBlack(r, m.child[e][i])
    <3>1. IsBlack(r, near)
      BY <1>10 DEF IsBlack
    <3> QED
      BY <1>4, <1>10, <1>c, <2>2, <3>1
  <2>5. IsBlack(r, m.child[o][near]) /\ IsBlack(r, m.child[o][sib])
    <3>1. /\ m.child[o][near] \in K \cup {Null} /\ m.child[o][near] # sib
          /\ m.child[o][sib] \in K \cup {Null} /\ m.child[o][sib] # sib
      BY <1>2, <1>4, <1>6, <1>n DEF Turned
    <3>2. IsBlack(m, m.child[o][near]) /\ IsBlack(m, m.child[o][sib])
      BY <1>2, <1>b, <1>c, <1>n, <1>o
    <3> QED
      BY <2>2, <3>1, <3>2
  <2>6. r.color[near] # Red
    BY <1>10 DEF Black, Red
  <2>7. ColouredThere(m, r, h, K, sib, o, near, Null, Null)
    BY <2>3, <2>4, <2>5, <2>6 DEF ColouredThere
  <2> QED
    BY <1>6, <2>7, TurnedColoured
<1>13. Well(r, h, to, K, labels, ranks)
  <2>1. r.child[d][p] = elm
    <3>1. r.child[d][p] = IF m.child[d][p] = sib THEN near ELSE m.child[d][p]
      BY <1>2, <1>6, <1>n DEF Turned
    <3> QED
      BY <1>2, <3>1
  <2>2. elm # Null => r.color[elm] = Black
    BY <1>2, <1>10, <1>n DEF IsBlack
  <2> QED
    BY <1>2, <1>6, <1>8, <1>11, <1>12, <2>1, <2>2, StillShortWell
<1>14. Apart(m, r, h, K, under, labels, rank, ranks)
  <2>1. \A n \in Nodes : n \notin K => ranks[n] = rank[n]
    BY <1>2, <1>8, <1>n
  <2> QED
    BY <1>6, <2>1
<1> QED
  BY <1>6, <1>8, <1>13, <1>14 DEF Proceeds

\* NephewsAreBlack
LEMMA NephewsAreBlackWell ==
  ASSUME NEW m, NEW h, NEW K, NEW under, NEW rank, NEW elm, NEW p, NEW d, NEW sib,
         ShortPair(m, h, K, under, rank, elm, p, d, sib), m.color[sib] = Black,
         IsBlack(m, m.child[d][sib]), IsBlack(m, m.child[Opposite(d)][sib]),
         NEW r, r = Paint(m, sib, Red),
         NEW to \in Operation, to.pc = "removeColor", to.elm = p, to.parent = m.parent[p]
  PROVE  Proceeds(m, r, h, to, K, K, under, rank)
<1>o. PICK o, up : o = Opposite(d) /\ up = m.parent[p]
  OBVIOUS
<1>1. /\ IsTree(m, h, K, under) /\ rank \in Ranks
      /\ Ranked(m, K, rank, p, d) /\ Coloured(m, h, K, Null, Null)
  BY DEF ShortPair
<1>2. /\ p \in K /\ sib \in K /\ elm \in K \cup {Null} /\ p # sib /\ elm # sib /\ elm # p
      /\ d \in Sides /\ o \in Sides /\ o # d
      /\ m.child[d][p] = elm /\ m.child[o][p] = sib /\ m.parent[sib] = p
      /\ IsBlack(m, elm) /\ rank[sib] = rank[elm] + 1
      /\ \A e \in Sides : e = d \/ e = o
  BY <1>o, SidesLaws DEF ShortPair
<1>4. /\ m \in Memory /\ K \subseteq Keys /\ Null \in Nodes
      /\ \A i \in K : i \in Nodes /\ i # Null /\ \A e \in Sides : m.child[e][i] \in Nodes
      /\ \A i \in K, e \in Sides : m.child[e][i] # Null =>
           m.child[e][i] \in K /\ m.parent[m.child[e][i]] = i
  BY <1>1, LinkedLaws, TreeTypes
<1>5. /\ r \in Memory /\ r.parent = m.parent /\ r.child = m.child /\ r.root = m.root
      /\ \A i \in Keys : r.color[i] = IF i = sib THEN Red ELSE m.color[i]
  <2>1. sib \in Nodes
    BY <1>2, <1>4
  <2> QED
    BY <1>4, <2>1, PaintFields
<1>6. IsTree(r, h, K, under)
  BY <1>1, <1>5, PaintedTree
<1>7. PICK ranks : ranks = [rank EXCEPT ![p] = rank[p] - 1, ![sib] = rank[sib] - 1]
  OBVIOUS
<1>9. /\ rank[Null] = 0
      /\ \A i \in K, e \in Sides :
           rank[i] = rank[m.child[e][i]] + Blacks(m, i) + (IF i = p /\ e = d THEN 1 ELSE 0)
  BY <1>1, <1>4 DEF Ranked
<1>t. \A i \in K : rank[i] \in Nat /\ (Blacks(m, i) = 0 \/ Blacks(m, i) = 1)
  BY <1>1, <1>4, RankTypes DEF Blacks
<1>8. /\ ranks \in Ranks /\ ranks[p] = rank[p] - 1 /\ ranks[sib] = rank[sib] - 1
      /\ \A n \in Nodes : n \notin {p, sib} => ranks[n] = rank[n]
  <2>1. rank[elm] \in Nat
    BY <1>1, <1>2, <1>4, RankTypes
  <2>2. rank[p] = rank[elm] + Blacks(m, p) + 1
    BY <1>2, <1>9
  <2>3. rank[p] - 1 \in Nat /\ rank[sib] - 1 \in Nat
    BY <1>2, <1>t, <2>1, <2>2
  <2> QED
    BY <1>1, <1>2, <1>4, <1>7, <2>3 DEF Ranks
<1>10. /\ r.color[sib] = Red /\ \A i \in K : i # sib => r.color[i] = m.color[i]
       /\ Blacks(m, sib) = 1 /\ Blacks(r, sib) = 0
       /\ \A i \in K : i # sib => Blacks(r, i) = Blacks(m, i)
  BY <1>2, <1>4, <1>5 DEF Blacks, Black, Red
<1>s. PICK s \in Sides : /\ up # Null => up \in K /\ m.child[s][up] = p
                         /\ \A i \in K, e \in Sides : m.child[e][i] = p => i = up /\ e = s
                         /\ up # Null => up # p /\ up # sib
                         /\ up = Null => m.root[h] = p
  <2>1. CASE up = Null
    <3>0. m.parent[p] = Null /\ p # Null
      BY <1>2, <1>4, <1>o, <2>1
    <3>1. \A i \in K, e \in Sides : m.child[e][i] # p
      BY <1>4, <3>0
    <3>2. m.root[h] = p
      <4>1. Linked(m, h, K)
        BY <1>1, TreeTypes
      <4> QED
        BY <1>2, <3>0, <4>1 DEF Linked
    <3> QED
      BY <1>2, <2>1, <3>1, <3>2
  <2>2. CASE up # Null
    <3>1. /\ up \in K /\ up # p /\ SideOf(m, up, p) \in Sides
          /\ m.child[SideOf(m, up, p)][up] = p
          /\ \A e \in Sides : m.child[e][up] = p => e = SideOf(m, up, p)
          /\ up \notin under[p]
      BY <1>1, <1>2, <1>o, <2>2, ParentLaws
    <3>2. \A i \in K, e \in Sides : m.child[e][i] = p => i = up
      BY <1>2, <1>4, <1>o
    <3>3. sib \in under[p]
      <4>1. \A i \in K, e \in Sides : m.child[e][i] # Null => m.child[e][i] \in under[i]
        BY <1>1, ChildLaws
      <4> QED
        BY <1>2, <1>4, <4>1
    <3> QED
      BY <2>2, <3>1, <3>2, <3>3
  <2> QED
    BY <2>1, <2>2
<1>11. Ranked(r, K, ranks, up, s)
  <2>0. \A i \in K, e \in Sides : m.child[e][i] = sib => i = p /\ e = o
    BY <1>2, <1>4
  <2>1. ASSUME NEW i \in K, NEW e \in Sides
        PROVE  ranks[i] = ranks[r.child[e][i]] + Blacks(r, i) + (IF i = up /\ e = s THEN 1 ELSE 0)
    <3>0. PICK c : c = m.child[e][i]
      OBVIOUS
    <3>1. /\ rank[i] = rank[c] + Blacks(m, i) + (IF i = p /\ e = d THEN 1 ELSE 0)
          /\ c \in Nodes /\ i \in Nodes /\ r.child[e][i] = c
      BY <1>4, <1>5, <1>9, <3>0
    <3>2. rank[i] \in Int /\ rank[c] \in Int
      BY <1>1, <3>1, RankTypes
    <3>3. CASE i = p
      <4>1. i # up /\ c # p
        BY <1>4, <1>s, <3>0, <3>3
      <4>2. Blacks(r, i) = Blacks(m, i) /\ (Blacks(m, i) = 0 \/ Blacks(m, i) = 1)
        BY <1>2, <1>10, <1>t, <3>3
      <4>3. CASE e = d
        <5>1. c = elm /\ ranks[c] = rank[c]
          BY <1>2, <1>8, <3>0, <3>1, <3>3, <4>3
        <5> QED
          BY <1>8, <3>1, <3>2, <3>3, <4>1, <4>2, <4>3, <5>1
      <4>4. CASE e # d
        <5>1. c = sib /\ ranks[c] = rank[c] - 1
          BY <1>2, <1>8, <3>0, <3>3, <4>4
        <5> QED
          BY <1>8, <3>1, <3>2, <3>3, <4>1, <4>2, <4>4, <5>1
      <4> QED
        BY <4>3, <4>4
    <3>4. CASE i = sib
      <4>1. i # up /\ i # p
        BY <1>2, <1>4, <1>s, <3>4
      <4>2. c # p /\ c # sib
        BY <1>2, <1>s, <2>0, <3>0, <3>4, <4>1
      <4>3. ranks[c] = rank[c]
        BY <1>8, <3>1, <4>2
      <4> QED
        BY <1>8, <1>10, <3>1, <3>2, <3>4, <4>1, <4>3
    <3>5. CASE i \notin {p, sib}
      <4>1. c # sib /\ ranks[i] = rank[i] /\ Blacks(r, i) = Blacks(m, i)
        BY <1>8, <1>10, <2>0, <3>0, <3>1, <3>5
      <4>2. Blacks(m, i) \in Int
        BY <1>t
      <4>3. CASE c = p
        <5>1. i = up /\ e = s /\ ranks[c] = rank[c] - 1
          BY <1>8, <1>s, <3>0, <4>3
        <5> QED
          BY <3>1, <3>2, <3>5, <4>1, <4>2, <5>1
      <4>4. CASE c # p
        <5>1. ~ (i = up /\ e = s)
          BY <1>4, <1>s, <3>0, <4>4
        <5>2. ranks[c] = rank[c]
          BY <1>8, <3>1, <4>1, <4>4
        <5> QED
          BY <3>1, <3>5, <4>1, <5>1, <5>2
      <4> QED
        BY <4>3, <4>4
    <3> QED
      BY <3>3, <3>4, <3>5
  <2>2. ranks[Null] = 0
    BY <1>2, <1>4, <1>8, <1>9
  <2> QED
    BY <2>1, <2>2 DEF Ranked
<1>12. Coloured(r, h, K, p, p)
  <2>0. \A i \in K, e \in Sides : m.child[e][i] = sib => i = p
    BY <1>2, <1>4
  <2>1. /\ IsBlack(m, m.root[h])
        /\ \A i \in K, e \in Sides : m.color[i] = Red => IsBlack(m, m.child[e][i])
    <3>1. IsBlack(m, Null)
      BY DEF IsBlack
    <3> QED
      BY <1>1, <1>4, <3>1 DEF Coloured
  <2>2. \A n \in K \cup {Null} : n # sib /\ IsBlack(m, n) => IsBlack(r, n)
    BY <1>10 DEF IsBlack
  <2>3. m.root[h] \in K \cup {Null} /\ m.root[h] # sib
    <3>1. m.parent[sib] # Null
      BY <1>2, <1>4
    <3>2. Linked(m, h, K)
      BY <1>1, TreeTypes
    <3> QED
      BY <1>2, <1>4, <3>1, <3>2 DEF Linked
  <2>4. \A i \in K, e \in Sides : r.color[i] = Red /\ i # p => IsBlack(r, m.child[e][i])
    <3> TAKE i \in K, e \in Sides
    <3> HAVE r.color[i] = Red /\ i # p
    <3>1. m.child[e][i] \in K \cup {Null} /\ m.child[e][i] # sib
      BY <1>4, <2>0
    <3>2. IsBlack(m, m.child[e][i])
      <4>1. CASE i = sib
        BY <1>2, <1>o, <4>1
      <4>2. CASE i # sib
        BY <1>10, <2>1, <4>2
      <4> QED
        BY <4>1, <4>2
    <3> QED
      BY <2>2, <3>1, <3>2
  <2>5. IsBlack(r, r.root[h])
    BY <1>5, <2>1, <2>2, <2>3
  <2> QED
    BY <1>5, <2>4, <2>5 DEF Coloured
<1>13. Well(r, h, to, K, under, ranks)
  <2>1. up \in K \cup {Null} /\ (up # Null => r.child[s][up] = p) /\ (up = Null => p = r.root[h])
    BY <1>5, <1>s
  <2>2. to.parent = up
    BY <1>o
  <2> QED
    BY <1>2, <1>6, <1>8, <1>11, <1>12, <2>1, <2>2, RemoveColorWell
<1>14. Apart(m, r, h, K, under, under, rank, ranks)
  BY <1>2, <1>5, <1>8 DEF Apart
<1> QED
  BY <1>1, <1>8, <1>13, <1>14, TreeTypes DEF Proceeds

\* Painting a black node black changes nothing.
LEMMA PaintSame ==
  ASSUME NEW m \in Memory, NEW n \in Nodes, IsBlack(m, n)
  PROVE  Paint(m, n, Black) = m
<1>1. CASE n = Null
  BY <1>1 DEF Paint
<1>2. CASE n # Null
  <2>1. n \in Keys /\ m.color[n] = Black
    BY <1>2, KeysNodes DEF IsBlack
  <2>2. [m EXCEPT !.color[n] = Black] = m
    BY <2>1 DEF Memory
  <2> QED
    BY <1>2, <2>2 DEF Paint
<1> QED
  BY <1>1, <1>2

\* What FarIsRed paints before it rotates.
FarPaint(m, p, sib, far) ==
    Paint([m EXCEPT !.color[sib] = m.color[p], !.color[p] = Black], far, Black)

\* What the last turn of RB_REMOVE_COLOR paints before it rotates.
LEMMA FarPaints ==
  ASSUME NEW m \in Memory, NEW K, NEW p \in Keys, NEW sib \in Keys, NEW far \in Keys,
         p \in K, sib \in K, far \in K, p # sib, far # p, far # sib
  PROVE  LET a == FarPaint(m, p, sib, far) IN
         /\ Repainted(m, a, K)
         /\ a.color[p] = Black /\ a.color[far] = Black /\ a.color[sib] = m.color[p]
         /\ \A i \in Keys : i \notin {p, sib, far} => a.color[i] = m.color[i]
<1>1. PICK b : b = [m EXCEPT !.color[sib] = m.color[p]]
  OBVIOUS
<1>2. /\ b \in Memory /\ b.parent = m.parent /\ b.child = m.child /\ b.root = m.root
      /\ \A i \in Keys : b.color[i] = IF i = sib THEN m.color[p] ELSE m.color[i]
  BY <1>1 DEF Memory
<1>3. PICK c : c = [b EXCEPT !.color[p] = Black]
  OBVIOUS
<1>4. /\ c \in Memory /\ c.parent = b.parent /\ c.child = b.child /\ c.root = b.root
      /\ \A i \in Keys : c.color[i] = IF i = p THEN Black ELSE b.color[i]
  BY <1>2, <1>3 DEF Memory
<1>5. PICK a : a = Paint(c, far, Black)
  OBVIOUS
<1>6. /\ a \in Memory /\ a.parent = c.parent /\ a.child = c.child /\ a.root = c.root
      /\ \A i \in Keys : a.color[i] = IF i = far THEN Black ELSE c.color[i]
  <2>1. far \in Nodes
    BY KeysNodes
  <2> QED
    BY <1>4, <1>5, <2>1, PaintFields
<1>7. a = FarPaint(m, p, sib, far)
  BY <1>1, <1>3, <1>5 DEF FarPaint
<1>8. /\ Repainted(m, a, K)
      /\ a.color[p] = Black /\ a.color[far] = Black /\ a.color[sib] = m.color[p]
      /\ \A i \in Keys : i \notin {p, sib, far} => a.color[i] = m.color[i]
  BY <1>2, <1>4, <1>6 DEF Repainted
<1> QED
  BY <1>7, <1>8

\* FarIsRed
FarTurned(m, q, r, h, p, d, sib) ==
    /\ q = Rotate(FarPaint(m, p, sib, m.child[Opposite(d)][sib]), h, p, d)
    /\ r = Paint(q, q.root[h], Black)

\* After that turn nothing is short any more.
LEMMA FarIsRedWell ==
  ASSUME NEW m, NEW h, NEW K, NEW under, NEW rank, NEW elm, NEW p, NEW d, NEW sib,
         ShortPair(m, h, K, under, rank, elm, p, d, sib), m.color[sib] = Black,
         ~ IsBlack(m, m.child[Opposite(d)][sib]),
         NEW q, NEW r, FarTurned(m, q, r, h, p, d, sib),
         NEW to \in Operation, to.pc = "removed"
  PROVE  Proceeds(m, r, h, to, K, K, under, rank)
<1>o. PICK o, near, far : o = Opposite(d) /\ near = m.child[d][sib] /\ far = m.child[o][sib]
  OBVIOUS
<1>1. /\ IsTree(m, h, K, under) /\ rank \in Ranks
      /\ Ranked(m, K, rank, p, d) /\ Coloured(m, h, K, Null, Null)
  BY DEF ShortPair
<1>2. /\ p \in K /\ sib \in K /\ elm \in K \cup {Null} /\ p # sib /\ elm # sib /\ elm # p
      /\ d \in Sides /\ o \in Sides /\ o # d
      /\ m.child[d][p] = elm /\ m.child[o][p] = sib /\ m.parent[sib] = p
      /\ IsBlack(m, elm) /\ rank[sib] = rank[elm] + 1
  BY <1>o DEF ShortPair
<1>3. PICK a : a = FarPaint(m, p, sib, far)
  OBVIOUS
<1>4. /\ m \in Memory /\ K \subseteq Keys /\ Null \in Nodes
      /\ \A i \in K : i \in Nodes /\ i # Null /\ \A e \in Sides : m.child[e][i] \in Nodes
      /\ \A i \in K, e \in Sides : m.child[e][i] # Null =>
           m.child[e][i] \in K /\ m.parent[m.child[e][i]] = i
  BY <1>1, LinkedLaws, TreeTypes
<1>n. /\ far # Null /\ m.color[far] # Black /\ far \in K /\ far # sib /\ m.parent[far] = sib
      /\ far # p /\ far # elm
  <2>1. far # Null /\ m.color[far] # Black
    BY <1>o DEF IsBlack
  <2>2. far \in K /\ m.parent[far] = sib
    BY <1>2, <1>4, <1>o, <2>1
  <2>3. far # elm
    BY <1>2, <2>1 DEF IsBlack
  <2>4. far # p /\ far # sib
    <3>2. /\ far \in under[sib] /\ sib \in under[p] /\ p \notin under[sib] /\ sib \notin under[far]
      <4>1. \A i \in K, e \in Sides : m.child[e][i] # Null =>
              m.child[e][i] \in under[i] /\ i \notin under[m.child[e][i]]
        BY <1>1, ChildLaws
      <4>2. sib # Null
        BY <1>2, <1>4
      <4> QED
        BY <1>2, <1>o, <2>1, <4>1, <4>2
    <3> QED
      BY <3>2
  <2> QED
    BY <2>1, <2>2, <2>3, <2>4
<1>5. /\ Repainted(m, a, K)
      /\ a.color[p] = Black /\ a.color[far] = Black /\ a.color[sib] = m.color[p]
      /\ \A i \in Keys : i \notin {p, sib, far} => a.color[i] = m.color[i]
  <2>1. /\ m \in Memory /\ sib \in Keys /\ far \in Keys /\ p \in Keys
        /\ sib \in K /\ far \in K /\ p \in K /\ p # sib /\ far # p /\ far # sib
    BY <1>2, <1>4, <1>n
  <2> QED
    BY <1>3, <2>1, FarPaints
<1>6. PICK labels \in Labels :
        /\ IsTree(q, h, K, labels) /\ q.color = a.color
        /\ Turned(m, q, h, K, p, d, sib)
        /\ \A olds, news : (\A n \in Nodes : n \notin K => news[n] = olds[n]) =>
             Apart(m, q, h, K, under, labels, olds, news)
  <2>1. sib = m.child[Opposite(d)][p] /\ q = Rotate(a, h, p, d) /\ p \in K /\ sib \in K /\ d \in Sides
    BY <1>2, <1>3, <1>o DEF FarTurned
  <2> QED
    BY <1>1, <1>5, <2>1, PaintedTurns
<1>7. PICK mid, ranks : /\ mid = [rank EXCEPT ![far] = rank[sib]]
                        /\ ranks = [mid EXCEPT ![p] = rank[sib], ![sib] = rank[p]]
  OBVIOUS
<1>8. /\ mid \in Ranks /\ ranks \in Ranks /\ mid[far] = rank[sib]
      /\ \A n \in Nodes : n # far => mid[n] = rank[n]
      /\ ranks[p] = rank[sib] /\ ranks[sib] = rank[p]
      /\ \A n \in Nodes : n \notin {p, sib} => ranks[n] = mid[n]
  <2>1. rank[sib] \in Nat /\ rank[p] \in Nat
    BY <1>1, <1>2, <1>4, RankTypes
  <2>2. mid \in Ranks /\ mid[far] = rank[sib] /\ \A n \in Nodes : n # far => mid[n] = rank[n]
    BY <1>1, <1>4, <1>7, <1>n, <2>1 DEF Ranks
  <2> QED
    BY <1>2, <1>4, <1>7, <2>1, <2>2 DEF Ranks
<1>9. /\ rank[Null] = 0
      /\ \A i \in K, e \in Sides :
           rank[i] = rank[m.child[e][i]] + Blacks(m, i) + (IF i = p /\ e = d THEN 1 ELSE 0)
  BY <1>1, <1>4 DEF Ranked
<1>c. /\ IsBlack(m, m.root[h])
      /\ \A i \in K, e \in Sides : m.color[i] = Red => IsBlack(m, m.child[e][i])
  <2>1. IsBlack(m, Null)
    BY DEF IsBlack
  <2> QED
    BY <1>1, <1>4, <2>1 DEF Coloured
<1>b. m.color[far] = Red
  BY <1>4, <1>n DEF Memory
<1>10. /\ q.color[p] = Black /\ q.color[far] = Black /\ q.color[sib] = m.color[p]
       /\ \A i \in K : i \notin {p, sib, far} => q.color[i] = m.color[i]
       /\ Blacks(m, far) = 0 /\ Blacks(m, sib) = 1 /\ Blacks(q, p) = 1 /\ Blacks(q, far) = 1
       /\ Blacks(q, sib) = Blacks(m, p)
       /\ \A i \in K : i \notin {p, sib, far} => Blacks(q, i) = Blacks(m, i)
  BY <1>2, <1>4, <1>5, <1>6, <1>b DEF Blacks, Black, Red
<1>f. \A i \in K, e \in Sides : m.child[e][i] = far => i = sib
  BY <1>4, <1>n
<1>11. Ranked(q, K, ranks, Null, "left")
  <2>1. /\ rank[p] = rank[elm] + Blacks(m, p) + 1
        /\ rank[sib] = rank[near] + 1 + 0
        /\ rank[sib] = rank[far] + 1 + 0
    BY <1>2, <1>9, <1>10, <1>o
  <2>2. /\ rank[p] \in Int /\ rank[sib] \in Int /\ rank[far] \in Int /\ rank[near] \in Int
        /\ rank[elm] \in Int /\ Blacks(m, p) \in Int
    BY <1>1, <1>2, <1>4, <1>n, <1>o, RankTypes DEF Blacks
  <2>3. mid[near] = rank[near] /\ mid[elm] = rank[elm] /\ mid[p] = rank[p] /\ mid[Null] = 0
    <3>1. near # far
      <4>1. \A e \in Sides : m.child[e][sib] = far => e = o
        BY <1>1, <1>2, <1>n, <1>o, ChildLaws
      <4> QED
        BY <1>2, <1>o, <4>1
    <3>2. near \in Nodes /\ elm \in Nodes
      BY <1>2, <1>4, <1>o
    <3> QED
      BY <1>2, <1>4, <1>8, <1>9, <1>n, <3>1, <3>2
  <2>4. /\ ranks[p] = mid[m.child[d][sib]] + Blacks(q, p) + 0
        /\ ranks[p] = mid[m.child[d][p]] + Blacks(q, p) + (IF p = Null /\ d = "left" THEN 1 ELSE 0)
        /\ ranks[sib] = ranks[p] + Blacks(q, sib) + 0
        /\ ranks[sib] = mid[m.child[o][sib]] + Blacks(q, sib) + 0
        /\ ranks[sib] = mid[p]
    <3>1. rank[p] = rank[sib] + Blacks(m, p) + 0
      BY <1>2, <1>9
    <3>2. p # Null
      BY <1>2, <1>4
    <3> QED
      BY <1>2, <1>8, <1>10, <1>o, <2>1, <2>2, <2>3, <3>1, <3>2
  <2>5. ASSUME NEW i \in K, NEW e \in Sides, i \notin {p, sib}
        PROVE  mid[i] = mid[m.child[e][i]] + Blacks(q, i)
                          + (IF i = Null /\ e = "left" THEN 1 ELSE 0)
    <3>0. PICK c : c = m.child[e][i]
      OBVIOUS
    <3>1. rank[i] = rank[c] + Blacks(m, i) + 0 /\ c \in Nodes /\ i \in Nodes /\ i # Null
      BY <1>4, <1>9, <2>5, <3>0
    <3>2. mid[c] = rank[c]
      BY <1>8, <1>f, <2>5, <3>0, <3>1
    <3>3. CASE i = far
      <4>1. rank[far] = rank[c] + 0 + 0 /\ rank[c] \in Int
        BY <1>1, <1>10, <3>1, <3>3, RankTypes
      <4> QED
        BY <1>8, <1>10, <2>1, <2>2, <3>0, <3>1, <3>2, <3>3, <4>1
    <3>4. CASE i # far
      <4>1. mid[i] = rank[i] /\ Blacks(q, i) = Blacks(m, i)
        BY <1>8, <1>10, <2>5, <3>1, <3>4
      <4> QED
        BY <3>0, <3>1, <3>2, <4>1
    <3> QED
      BY <3>3, <3>4
  <2>6. RankedThere(m, q, K, p, d, sib, mid, ranks, Null, "left")
    <3>1. p # Null /\ sib # Null
      BY <1>2, <1>4
    <3> QED
      BY <1>8, <1>o, <2>3, <2>4, <2>5, <3>1 DEF RankedThere
  <2> QED
    BY <1>1, <1>6, <2>6, TurnedRanked
<1>12. Coloured(q, h, K, Null, Null) /\ IsBlack(q, q.root[h])
  <2>2. \A i \in K, e \in Sides : m.child[e][i] = sib => i = p
    BY <1>2, <1>4
  <2>3. \A n \in K \cup {Null} : n # sib /\ IsBlack(m, n) => IsBlack(q, n)
    BY <1>10 DEF IsBlack
  <2>4. IsBlack(m, p) => IsBlack(q, sib)
    BY <1>2, <1>4, <1>10 DEF IsBlack
  <2>5. IsBlack(q, q.root[h])
    <3>1. m.root[h] \in K \cup {Null} /\ m.root[h] # sib
      <4>1. Linked(m, h, K) /\ m.parent[sib] # Null /\ sib # Null
        BY <1>1, <1>2, <1>4, TreeTypes
      <4> QED
        BY <4>1 DEF Linked
    <3>2. q.root[h] = IF m.root[h] = p THEN sib ELSE m.root[h]
      BY <1>6 DEF Turned
    <3> QED
      BY <1>c, <2>3, <2>4, <3>1, <3>2
  <2>6. \A i \in K, e \in Sides :
          i \notin {p, sib} /\ q.color[i] = Red /\ i # Null =>
            IF m.child[e][i] = p THEN sib # Null => IsBlack(q, sib)
            ELSE m.child[e][i] # Null => IsBlack(q, m.child[e][i])
    <3> TAKE i \in K, e \in Sides
    <3> HAVE i \notin {p, sib} /\ q.color[i] = Red /\ i # Null
    <3>1. m.color[i] = Red
      BY <1>10 DEF Black, Red
    <3>2. IsBlack(m, m.child[e][i]) /\ m.child[e][i] \in K \cup {Null} /\ m.child[e][i] # sib
      BY <1>4, <1>c, <2>2, <3>1
    <3> QED
      BY <2>3, <2>4, <3>2
  <2>7. q.color[p] # Red
    BY <1>10 DEF Black, Red
  <2>8. IsBlack(q, p) /\ IsBlack(q, m.child[o][sib])
    BY <1>10, <1>o DEF IsBlack
  <2>9. ColouredThere(m, q, h, K, p, d, sib, Null, Null)
    BY <1>o, <2>5, <2>6, <2>7, <2>8 DEF ColouredThere
  <2> QED
    BY <1>6, <2>5, <2>9, TurnedColoured
<1>r. r = q
  <2>1. q \in Memory /\ q.root[h] \in Nodes
    BY <1>6, TreeTypes
  <2>2. Paint(q, q.root[h], Black) = q
    BY <1>12, <2>1, PaintSame
  <2> QED
    BY <2>2 DEF FarTurned
<1>13. Well(r, h, to, K, labels, ranks)
  BY <1>6, <1>8, <1>11, <1>12, <1>r, RestoredWell
<1>14. Apart(m, r, h, K, under, labels, rank, ranks)
  <2>1. \A n \in Nodes : n \notin K => ranks[n] = rank[n]
    BY <1>2, <1>8, <1>n
  <2> QED
    BY <1>6, <1>r, <2>1
<1> QED
  BY <1>6, <1>8, <1>13, <1>14 DEF Proceeds

\* RemoveDone
LEMMA RemoveDoneWell ==
  ASSUME NEW m, NEW h, NEW o, NEW K, NEW under, NEW rank, Well(m, h, o, K, under, rank),
         o.pc = "removeColor", o.elm # m.root[h] => ~ IsBlack(m, o.elm),
         NEW r, r = Paint(m, o.elm, Black), NEW to \in Operation, to.pc = "removed"
  PROVE  Proceeds(m, r, h, to, K, K, under, rank)
<1>1. PICK elm, p : elm = o.elm /\ p = o.parent
  OBVIOUS
<1>2. /\ IsTree(m, h, K, under) /\ rank \in Ranks /\ Coloured(m, h, K, elm, elm)
      /\ elm \in K \cup {Null} /\ (p # Null => p \in K) /\ (p = Null => elm = m.root[h])
  BY <1>1 DEF Well, Balanced
<1>3. PICK d \in Sides : Ranked(m, K, rank, p, d) /\ (p # Null => m.child[d][p] = elm)
  BY <1>1 DEF Well, Balanced
<1>4. /\ m \in Memory /\ K \subseteq Keys /\ Null \in Nodes /\ elm \in Nodes
      /\ \A i \in K : i \in Nodes /\ i # Null /\ \A e \in Sides : m.child[e][i] \in Nodes
      /\ \A i \in K, e \in Sides : m.child[e][i] # Null =>
           m.child[e][i] \in K /\ m.parent[m.child[e][i]] = i
  BY <1>2, LinkedLaws, TreeTypes
<1>5. /\ r \in Memory /\ r.parent = m.parent /\ r.child = m.child /\ r.root = m.root
      /\ \A i \in Keys : r.color[i] = IF i = elm THEN Black ELSE m.color[i]
  BY <1>1, <1>4, PaintFields
<1>6. IsTree(r, h, K, under)
  BY <1>2, <1>5, PaintedTree
<1>7. CASE elm = Null
  <2>1. m.root[h] = Null
    BY <1>1, <1>7 DEF IsBlack
  <2>2. K = {}
    BY <1>2, <2>1, TreeTypes DEF Sorted
  <2>3. Ranked(r, K, rank, Null, "left") /\ Coloured(r, h, K, Null, Null)
    BY <1>3, <1>5, <2>1, <2>2 DEF Ranked, Coloured
  <2>4. Well(r, h, to, K, under, rank)
    BY <1>2, <1>6, <2>3, RestoredWell
  <2>5. Apart(m, r, h, K, under, under, rank, rank)
    BY <1>5, <1>7, KeysNodes DEF Apart
  <2> QED
    BY <1>2, <2>4, <2>5, TreeTypes DEF Proceeds
<1>8. CASE elm # Null
  <2>1. elm \in K /\ elm \in Keys
    BY <1>2, <1>4, <1>8
  <2>2. /\ p # Null => p \in K /\ m.parent[elm] = p /\ elm # p
                       /\ \A e \in Sides : m.child[e][p] = elm => e = d
        /\ m.root[h] = elm => p = Null /\ m.parent[elm] = Null
        /\ m.root[h] # elm => m.color[elm] = Red
    <3>1. p # Null => p \in K /\ m.parent[elm] = p /\ elm # p
                      /\ \A e \in Sides : m.child[e][p] = elm => e = d
      <4>1. \A i \in K : m.child[d][i] = elm =>
              m.parent[elm] = i /\ elm # i /\ \A e \in Sides : m.child[e][i] = elm => e = d
        BY <1>2, <1>8, ChildLaws
      <4> QED
        BY <1>2, <1>3, <4>1
    <3>2. m.root[h] = elm => m.parent[elm] = Null
      BY <1>2, <1>8, TreeTypes DEF Linked
    <3>3. m.root[h] # elm => m.color[elm] = Red
      <4>1. m.color[elm] \in {Black, Red}
        BY <1>4, <2>1 DEF Memory
      <4> QED
        BY <1>1, <4>1 DEF IsBlack
    <3> QED
      BY <3>1, <3>2, <3>3
  <2>3. PICK ranks : ranks = [rank EXCEPT ![elm] = rank[elm] + 1 - Blacks(m, elm)]
    OBVIOUS
  <2>4. /\ ranks \in Ranks /\ ranks[elm] = rank[elm] + 1 - Blacks(m, elm)
        /\ \A i \in Nodes : i # elm => ranks[i] = rank[i]
    <3>1. rank[elm] \in Nat /\ (Blacks(m, elm) = 0 \/ Blacks(m, elm) = 1)
      BY <1>2, <1>4, RankTypes DEF Blacks
    <3>2. rank[elm] + 1 - Blacks(m, elm) \in Nat
      BY <3>1
    <3> QED
      BY <1>2, <1>4, <2>3, <3>2 DEF Ranks
  <2>5. Ranked(r, K, ranks, Null, "left")
    <3>1. ASSUME NEW i \in K, NEW e \in Sides
          PROVE  ranks[i] = ranks[r.child[e][i]] + Blacks(r, i) + 0
      <4>0. PICK c : c = m.child[e][i]
        OBVIOUS
      <4>1. /\ rank[i] = rank[c] + Blacks(m, i) + (IF i = p /\ e = d THEN 1 ELSE 0)
            /\ c \in Nodes /\ i \in Nodes /\ r.child[e][i] = c
        BY <1>3, <1>4, <1>5, <4>0 DEF Ranked
      <4>2. /\ rank[i] \in Int /\ rank[c] \in Int /\ rank[elm] \in Int
            /\ (Blacks(m, i) = 0 \/ Blacks(m, i) = 1)
        BY <1>2, <1>4, <4>1, RankTypes DEF Blacks
      <4>3. CASE i = elm
        <5>1. c # elm /\ i # p /\ Blacks(r, i) = 1
          <6>1. c # elm
            BY <1>2, <1>8, <4>0, <4>3, ChildLaws
          <6>2. i # p
            BY <1>8, <2>2, <4>3
          <6>3. Blacks(r, i) = 1
            BY <1>5, <2>1, <4>3 DEF Blacks
          <6> QED
            BY <6>1, <6>2, <6>3
        <5> QED
          BY <2>4, <4>1, <4>2, <4>3, <5>1
      <4>4. CASE i # elm
        <5>1. Blacks(r, i) = Blacks(m, i) /\ ranks[i] = rank[i]
          BY <1>4, <1>5, <2>4, <4>1, <4>4 DEF Blacks
        <5>2. CASE c = elm
          <6>1. m.parent[elm] = i
            <7>1. m.child[e][i] # Null => m.parent[m.child[e][i]] = i
              BY <1>4
            <7> QED
              BY <1>8, <4>0, <5>2, <7>1
          <6>2. i # Null
            BY <1>4
          <6>3. m.root[h] # elm
            BY <2>2, <6>1, <6>2
          <6>4. p # Null
            BY <1>2, <6>3
          <6>5. i = p /\ e = d /\ Blacks(m, elm) = 0
            BY <2>2, <4>0, <5>2, <6>1, <6>3, <6>4 DEF Blacks, Black, Red
          <6> QED
            BY <2>4, <4>1, <4>2, <5>1, <5>2, <6>5
        <5>3. CASE c # elm
          <6>1. ~ (i = p /\ e = d)
            BY <1>3, <1>4, <4>0, <5>3
          <6> QED
            BY <2>4, <4>1, <5>1, <5>3, <6>1
        <5> QED
          BY <5>2, <5>3
      <4> QED
        BY <4>3, <4>4
    <3>2. ranks[Null] = 0
      BY <1>3, <1>4, <1>8, <2>4 DEF Ranked
    <3>3. \A i \in K : i # Null
      BY <1>4
    <3> QED
      BY <3>1, <3>2, <3>3 DEF Ranked
  <2>6. Coloured(r, h, K, Null, Null)
    <3>0. /\ m.root[h] # elm => IsBlack(m, m.root[h])
          /\ \A i \in K, e \in Sides :
               m.color[i] = Red /\ i # elm /\ m.child[e][i] # elm => IsBlack(m, m.child[e][i])
      BY <1>2 DEF Coloured
    <3>1. \A n \in K \cup {Null} : n = elm \/ IsBlack(m, n) => IsBlack(r, n)
      BY <1>4, <1>5 DEF IsBlack
    <3>2. \A i \in K, e \in Sides : r.color[i] = Red => IsBlack(r, m.child[e][i])
      <4> TAKE i \in K, e \in Sides
      <4> HAVE r.color[i] = Red
      <4>1. i # elm /\ m.color[i] = Red
        BY <1>4, <1>5 DEF Black, Red
      <4>2. m.child[e][i] \in K \cup {Null}
        BY <1>4
      <4> QED
        BY <3>0, <3>1, <4>1, <4>2
    <3>3. IsBlack(r, m.root[h])
      <4>1. m.root[h] \in K \cup {Null}
        BY <1>2, TreeTypes DEF Linked
      <4> QED
        BY <3>0, <3>1, <4>1
    <3> QED
      BY <1>5, <3>2, <3>3 DEF Coloured
  <2>7. Well(r, h, to, K, under, ranks)
    BY <1>6, <2>4, <2>5, <2>6, RestoredWell
  <2>8. Apart(m, r, h, K, under, under, rank, ranks)
    BY <1>5, <2>1, <2>4 DEF Apart
  <2> QED
    BY <1>2, <2>4, <2>7, <2>8, TreeTypes DEF Proceeds
<1> QED
  BY <1>7, <1>8

\* Free
Freed(m, r, k) ==
    r = [m EXCEPT !.child["left"][k] = Null, !.child["right"][k] = Null,
                  !.parent[k] = Null, !.color[k] = Black]

\* No tree has the freed node.
LEMMA FreeWell ==
  ASSUME NEW m, NEW h, NEW o, NEW K, NEW under, NEW rank, Well(m, h, o, K, under, rank),
         o.pc = "removed", NEW k \in Keys, k \notin K,
         NEW r, Freed(m, r, k)
  PROVE  Proceeds(m, r, h, Idle, K, K \cup {k}, under, rank)
<1>1. IsTree(m, h, K, under) /\ rank \in Ranks
  BY DEF Well
<1>2. m \in Memory /\ h \in Heads /\ under \in Labels /\ K \subseteq Keys
  BY <1>1, TreeTypes
<1>3. /\ r \in Memory /\ r.root = m.root
      /\ \A i \in Keys : i # k =>
           /\ r.parent[i] = m.parent[i] /\ r.color[i] = m.color[i]
           /\ \A e \in Sides : r.child[e][i] = m.child[e][i]
  <2>1. PICK a : a = [m EXCEPT !.child["left"][k] = Null]
    OBVIOUS
  <2>0. "left" \in Sides /\ "right" \in Sides /\ Null \in Nodes
    BY KeysNodes DEF Sides
  <2>2. /\ a \in Memory /\ a.root = m.root /\ a.parent = m.parent /\ a.color = m.color
        /\ \A e \in Sides, i \in Keys : i # k => a.child[e][i] = m.child[e][i]
    BY <1>2, <2>0, <2>1, SetChild
  <2>3. PICK b : b = [a EXCEPT !.child["right"][k] = Null]
    OBVIOUS
  <2>4. /\ b \in Memory /\ b.root = a.root /\ b.parent = a.parent /\ b.color = a.color
        /\ \A e \in Sides, i \in Keys : i # k => b.child[e][i] = a.child[e][i]
    BY <2>0, <2>2, <2>3, SetChild
  <2>5. PICK c : c = [b EXCEPT !.parent[k] = Null]
    OBVIOUS
  <2>6. /\ c \in Memory /\ c.root = b.root /\ c.child = b.child /\ c.color = b.color
        /\ \A i \in Keys : i # k => c.parent[i] = b.parent[i]
    BY <2>0, <2>4, <2>5, SetParentField
  <2>7. r = [c EXCEPT !.color[k] = Black]
    BY <2>1, <2>3, <2>5 DEF Freed
  <2>8. /\ r \in Memory /\ r.root = c.root /\ r.child = c.child /\ r.parent = c.parent
        /\ \A i \in Keys : i # k => r.color[i] = c.color[i]
    BY <2>6, <2>7 DEF Memory
  <2> QED
    BY <2>2, <2>4, <2>6, <2>8
<1>4. Well(r, h, o, K, under, rank)
  <2>1. \A i \in K : r.parent[i] = m.parent[i] /\ r.color[i] = m.color[i]
                     /\ \A d \in Sides : r.child[d][i] = m.child[d][i]
    BY <1>2, <1>3
  <2>2. r.root[h] = m.root[h] /\ r \in Memory /\ h \in Heads /\ under \in Labels /\ rank \in Ranks
    BY <1>1, <1>2, <1>3
  <2>3. \A n \in K \cup {Null} : under[n] = under[n] /\ rank[n] = rank[n]
    OBVIOUS
  <2> QED
    BY <2>1, <2>2, <2>3, SameWell
<1>5. Well(r, h, Idle, K, under, rank)
  <2>1. /\ Idle \in Operation /\ Idle.pc = "idle"
        /\ Pointers(r, h, Idle, K, under) /\ Answers(Idle, K)
    BY KeysNodes DEF Idle, Operation, Pointers, Answers
  <2>2. o.pc \notin {"insertColor", "removeColor"} /\ Idle.pc \notin {"insertColor", "removeColor"}
    BY <2>1
  <2> QED
    BY <1>4, <2>1, <2>2, Goes
<1>6. Apart(m, r, h, K \cup {k}, under, under, rank, rank)
  BY <1>3 DEF Apart
<1> QED
  BY <1>1, <1>2, <1>5, <1>6 DEF Proceeds

-----------------------------------------------------------------------------
(* Unlinking a node                                                        *)

\* A node of colour c was unlinked; child hangs on p now.
Unhooked(r, h, L, rank, c, p, child) ==
    /\ child \in L \cup {Null} /\ p \in L \cup {Null} /\ c \in {Black, Red}
    /\ c = Black =>
         /\ \E s \in Sides : Ranked(r, L, rank, p, s) /\ (p # Null => r.child[s][p] = child)
         /\ p = Null => child = r.root[h]
         /\ Coloured(r, h, L, child, child)
    /\ c = Red => Ranked(r, L, rank, Null, "left") /\ Coloured(r, h, L, Null, Null)

\* Splice does this.
LEMMA SpliceUnhooks ==
  ASSUME NEW m, NEW h, NEW K, NEW under, IsTree(m, h, K, under), NEW rank,
         Ranked(m, K, rank, Null, "left"), Coloured(m, h, K, Null, Null), rank \in Ranks,
         NEW elm \in K, NEW d \in Sides, m.child[d][elm] = Null,
         NEW child, child = m.child[Opposite(d)][elm],
         NEW r, Spliced(m, r, h, elm, child)
  PROVE  /\ Unhooked(r, h, K \ {elm}, rank, m.color[elm], m.parent[elm], child)
         /\ Apart(m, r, h, K, under, Without(under, elm), rank, rank)
<1> DEFINE p == m.parent[elm]
           L == K \ {elm}
           s == SideOf(m, p, elm)
<1>1. /\ m \in Memory /\ K \subseteq Keys /\ Null \in Nodes /\ h \in Heads
      /\ \A i \in K : i \in Nodes /\ i \in Keys /\ i # Null
                      /\ \A e \in Sides : m.child[e][i] \in Nodes
      /\ Linked(m, h, K)
  BY TreeTypes
<1>2. /\ \A i \in K, e \in Sides : m.child[e][i] # Null =>
           m.child[e][i] \in K /\ m.parent[m.child[e][i]] = i /\ m.child[e][i] # i
  BY ChildLaws
<1>3. /\ r.color = m.color
      /\ \A i \in Keys : r.parent[i] = IF i = child THEN p ELSE m.parent[i]
      /\ \A e \in Sides, i \in Keys : r.child[e][i] =
           IF i = p /\ e = s THEN child ELSE m.child[e][i]
      /\ \A g \in Heads : r.root[g] = IF g = h /\ p = Null THEN child ELSE m.root[g]
  BY DEF Spliced
<1>4. Opposite(d) \in Sides /\ child \in L \cup {Null} /\ child \in Nodes
  BY <1>1, <1>2, SidesLaws
<1>5. /\ p # Null => /\ p \in L /\ s \in Sides /\ m.child[s][p] = elm
                     /\ \A e \in Sides : m.child[e][p] = elm => e = s
                     /\ m.root[h] # elm
      /\ p = Null => m.root[h] = elm
  <2>1. p = Null => m.root[h] = elm
    BY <1>1 DEF Linked
  <2> QED
    BY <2>1, ParentLaws
<1>6. /\ \A i \in L, e \in Sides : m.child[e][i] = elm => i = p /\ e = s
      /\ \A i \in L, e \in Sides : i = p /\ e = s => m.child[e][i] = elm
  <2>1. elm # Null
    BY <1>1
  <2> QED
    BY <1>1, <1>2, <1>5, <2>1
<1>7. m.color[elm] \in {Black, Red}
  BY <1>1 DEF Memory
<1>u. child \in L \cup {Null} /\ p \in L \cup {Null} /\ m.color[elm] \in {Black, Red}
  BY <1>4, <1>5, <1>7
<1>8. /\ rank[Null] = 0
      /\ \A i \in K, e \in Sides : rank[i] = rank[m.child[e][i]] + Blacks(m, i) + 0
  BY <1>1 DEF Ranked
<1>c. /\ IsBlack(m, m.root[h])
      /\ \A i \in K, e \in Sides : m.color[i] = Red => IsBlack(m, m.child[e][i])
  <2>1. IsBlack(m, Null)
    BY DEF IsBlack
  <2> QED
    BY <1>1, <2>1 DEF Coloured
<1>9. ASSUME NEW i \in L, NEW e \in Sides
      PROVE  rank[i] = rank[r.child[e][i]] + Blacks(r, i) + (IF i = p /\ e = s THEN Blacks(m, elm) ELSE 0)
  <2>0. Blacks(r, i) = Blacks(m, i) /\ (Blacks(m, i) = 0 \/ Blacks(m, i) = 1)
    BY <1>3 DEF Blacks
  <2>1. CASE i = p /\ e = s
    <3>1. r.child[e][i] = child /\ m.child[e][i] = elm
      BY <1>1, <1>3, <1>6, <2>1
    <3>2. rank[elm] = rank[child] + Blacks(m, elm) + 0
      BY <1>4, <1>8
    <3>3. rank[i] = rank[elm] + Blacks(m, i) + 0
      BY <1>8, <3>1
    <3>4. /\ rank[child] \in Int /\ rank[elm] \in Int
          /\ (Blacks(m, elm) = 0 \/ Blacks(m, elm) = 1)
      BY <1>1, <1>4, RankTypes DEF Blacks
    <3> QED
      BY <2>0, <2>1, <3>1, <3>2, <3>3, <3>4
  <2>2. CASE ~ (i = p /\ e = s)
    <3>1. r.child[e][i] = m.child[e][i]
      BY <1>1, <1>3, <2>2
    <3> QED
      BY <1>8, <2>0, <2>2, <3>1
  <2> QED
    BY <2>1, <2>2
<1>10. \A n : IsBlack(r, n) <=> IsBlack(m, n)
  BY <1>3 DEF IsBlack
<1>11. ASSUME m.color[elm] = Black
       PROVE  Unhooked(r, h, L, rank, m.color[elm], p, child)
  <2>1. Blacks(m, elm) = 1
    BY <1>11 DEF Blacks
  <2>2. PICK t \in Sides : (p # Null => t = s)
    BY <1>4, <1>5
  <2>3. Ranked(r, L, rank, p, t) /\ (p # Null => r.child[t][p] = child)
    <3>1. p # Null => r.child[t][p] = child
      BY <1>1, <1>3, <1>5, <2>2
    <3>2. ASSUME NEW i \in L, NEW e \in Sides
          PROVE  rank[i] = rank[r.child[e][i]] + Blacks(r, i) + (IF i = p /\ e = t THEN 1 ELSE 0)
      BY <1>1, <1>9, <2>1, <2>2
    <3> QED
      BY <1>8, <3>1, <3>2 DEF Ranked
  <2>4. p = Null => child = r.root[h]
    BY <1>1, <1>3
  <2>5. Coloured(r, h, L, child, child)
    <3>1. r.root[h] # child => IsBlack(r, r.root[h])
      BY <1>1, <1>3, <1>10, <1>c
    <3>2. \A i \in L, e \in Sides :
            r.color[i] = Red /\ r.child[e][i] # child => IsBlack(r, r.child[e][i])
      BY <1>1, <1>3, <1>10, <1>c
    <3> QED
      BY <3>1, <3>2 DEF Coloured
  <2>6. m.color[elm] # Red
    BY <1>11 DEF Black, Red
  <2>7. \E e \in Sides : Ranked(r, L, rank, p, e) /\ (p # Null => r.child[e][p] = child)
    BY <2>3
  <2> HIDE DEF p, L
  <2>8. Unhooked(r, h, L, rank, m.color[elm], p, child)
    BY <1>u, <2>4, <2>5, <2>6, <2>7 DEF Unhooked
  <2> QED
    BY <2>8
<1>12. ASSUME m.color[elm] = Red
       PROVE  Unhooked(r, h, L, rank, m.color[elm], p, child)
  <2>1. Blacks(m, elm) = 0
    BY <1>12 DEF Blacks, Black, Red
  <2>2. Ranked(r, L, rank, Null, "left")
    <3>1. ASSUME NEW i \in L, NEW e \in Sides
          PROVE  rank[i] = rank[r.child[e][i]] + Blacks(r, i) + (IF i = Null /\ e = "left" THEN 1 ELSE 0)
      BY <1>1, <1>9, <2>1
    <3> QED
      BY <1>8, <3>1 DEF Ranked
  <2>3. Coloured(r, h, L, Null, Null)
    <3>1. p # Null
      <4>1. elm # Null
        BY <1>1
      <4> QED
        BY <1>5, <1>12, <1>c, <4>1 DEF IsBlack, Black, Red
    <3>2. IsBlack(m, child)
      BY <1>4, <1>12, <1>c
    <3>3. \A i \in L, e \in Sides : r.color[i] = Red => IsBlack(r, r.child[e][i])
      BY <1>1, <1>3, <1>10, <1>c, <3>2
    <3>4. IsBlack(r, r.root[h])
      BY <1>1, <1>3, <1>10, <1>c, <3>1
    <3> QED
      BY <3>3, <3>4 DEF Coloured
  <2>4. m.color[elm] # Black
    BY <1>12 DEF Black, Red
  <2> HIDE DEF p, L
  <2>5. Unhooked(r, h, L, rank, m.color[elm], p, child)
    BY <1>u, <2>2, <2>3, <2>4 DEF Unhooked
  <2> QED
    BY <2>5
<1>w. Unhooked(r, h, L, rank, m.color[elm], p, child)
  BY <1>7, <1>11, <1>12
<1>13. Apart(m, r, h, K, under, Without(under, elm), rank, rank)
  <2>1. \A g \in Heads : g # h => r.root[g] = m.root[g]
    BY <1>3
  <2>2. ASSUME NEW i \in Keys, i \notin K
        PROVE  /\ r.parent[i] = m.parent[i] /\ r.color[i] = m.color[i]
               /\ \A e \in Sides : r.child[e][i] = m.child[e][i]
    <3>1. i # p /\ i # child
      BY <1>1, <1>4, <1>5, <2>2, KeysNodes
    <3> QED
      BY <1>3, <3>1
  <2>3. \A n \in Nodes : under[n] \cap K = {} => Without(under, elm)[n] = under[n]
    BY DEF Without
  <2> QED
    BY <2>1, <2>2, <2>3 DEF Apart
<1> QED
  BY <1>13, <1>w

\* Where the operation is after that.
LEMMA UnhookedWell ==
  ASSUME NEW r, NEW h, NEW L, NEW labels, NEW ranks \in Ranks, IsTree(r, h, L, labels),
         NEW c, NEW p, NEW child, Unhooked(r, h, L, ranks, c, p, child), NEW k \in Nodes
  PROVE  Well(r, h, IF c = Black THEN At("removeColor", k, p, child)
                    ELSE At("removed", k, Null, Null), L, labels, ranks)
<1>1. p \in Nodes /\ child \in Nodes /\ Null \in Nodes
  BY TreeTypes DEF Unhooked
<1>2. CASE c = Black
  <2>1. PICK to : to = At("removeColor", k, p, child)
    OBVIOUS
  <2>2. to \in Operation /\ to.pc = "removeColor" /\ to.elm = child /\ to.parent = p
    BY <1>1, <2>1, AtOperation
  <2>3. PICK s \in Sides : Ranked(r, L, ranks, p, s) /\ (p # Null => r.child[s][p] = child)
    BY <1>2 DEF Unhooked
  <2>4. /\ child \in L \cup {Null} /\ p \in L \cup {Null}
        /\ (p = Null => child = r.root[h]) /\ Coloured(r, h, L, child, child)
    BY <1>2 DEF Unhooked
  <2>5. Well(r, h, to, L, labels, ranks)
    BY <2>2, <2>3, <2>4, RemoveColorWell
  <2> QED
    BY <1>2, <2>1, <2>5
<1>3. CASE c # Black
  <2>1. PICK to : to = At("removed", k, Null, Null)
    OBVIOUS
  <2>2. to \in Operation /\ to.pc = "removed"
    BY <1>1, <2>1, AtOperation
  <2>3. Ranked(r, L, ranks, Null, "left") /\ Coloured(r, h, L, Null, Null)
    BY <1>3 DEF Unhooked
  <2>4. Well(r, h, to, L, labels, ranks)
    BY <2>2, <2>3, RestoredWell
  <2> QED
    BY <1>3, <2>1, <2>4
<1> QED
  BY <1>2, <1>3

\* UnlinkOld
LEMMA UnlinkOldWell ==
  ASSUME NEW m, NEW h, NEW o, NEW K, NEW under, NEW rank, Well(m, h, o, K, under, rank),
         o.pc = "remove", o.elm = o.key,
         NEW left, left = m.child["left"][o.key],
         NEW child, child = IF left = Null THEN m.child["right"][o.key] ELSE left,
         NEW r, r = Splice(m, h, o.key, child)
  PROVE  /\ o.key \in K
         /\ Proceeds(m, r, h, IF m.color[o.key] = Black
                              THEN At("removeColor", o.key, m.parent[o.key], child)
                              ELSE At("removed", o.key, Null, Null),
                     K \ {o.key}, K, under, rank)
<1>1. PICK old : old = o.key
  OBVIOUS
<1>2. /\ IsTree(m, h, K, under) /\ rank \in Ranks /\ old \in K
      /\ Ranked(m, K, rank, Null, "left") /\ Coloured(m, h, K, Null, Null)
      /\ m.child["left"][old] = Null \/ m.child["right"][old] = Null
  BY <1>1 DEF Well, Balanced, Pointers
<1>3. PICK d \in Sides : m.child[d][old] = Null /\ child = m.child[Opposite(d)][old]
  <2>1. "left" \in Sides /\ "right" \in Sides /\ Opposite("left") = "right" /\ Opposite("right") = "left"
    BY DEF Sides, Opposite
  <2> QED
    BY <1>1, <1>2, <2>1
<1>4. m \in Memory /\ h \in Heads /\ old \in Keys /\ child \in Nodes /\ old \in Nodes
  BY <1>2, <1>3, SidesLaws, TreeTypes
<1>5. Spliced(m, r, h, old, child)
  BY <1>1, <1>4, SpliceFields
<1>6. IsTree(r, h, K \ {old}, Without(under, old))
  BY <1>2, <1>3, <1>5, SpliceTree
<1>7. /\ Unhooked(r, h, K \ {old}, rank, m.color[old], m.parent[old], child)
      /\ Apart(m, r, h, K, under, Without(under, old), rank, rank)
  BY <1>2, <1>3, <1>5, SpliceUnhooks
<1>8. Well(r, h, IF m.color[old] = Black THEN At("removeColor", old, m.parent[old], child)
                 ELSE At("removed", old, Null, Null), K \ {old}, Without(under, old), rank)
  BY <1>2, <1>4, <1>6, <1>7, UnhookedWell
<1>9. Without(under, old) \in Labels
  BY <1>6, TreeTypes
<1> QED
  BY <1>1, <1>2, <1>7, <1>8, <1>9 DEF Proceeds

\* succ takes the place of old, its colour and its rank.
LEMMA TakePlaceUnhooks ==
  ASSUME NEW m, NEW h, NEW K, NEW under, IsTree(m, h, K, under), NEW rank \in Ranks,
         NEW old \in K, NEW succ \in Keys, succ \notin K,
         NEW r, NEW L, NEW labels, Placed(m, r, h, succ, old),
         Renaming(m, r, h, K, L, under, labels, NewName(succ, old)),
         NEW c, NEW p, NEW child, child # old, Unhooked(m, h, K, rank, c, p, child)
  PROVE  \E ranks \in Ranks :
           /\ Unhooked(r, h, L, ranks, c, IF p = old THEN succ ELSE p, child)
           /\ \A n \in Nodes : n # succ => ranks[n] = rank[n]
<1>f. PICK f : f = NewName(succ, old)
  OBVIOUS
<1>1. /\ m \in Memory /\ K \subseteq Keys /\ Null \in Nodes /\ h \in Heads
      /\ \A i \in K : i \in Nodes /\ i \in Keys /\ i # Null /\ i # succ
      /\ m.root[h] \in K \cup {Null}
      /\ \A i \in K, e \in Sides : m.child[e][i] \in K \cup {Null}
      /\ succ \in Nodes /\ succ # Null
  BY TreeTypes, KeysNodes DEF Linked
<1>2. f[Null] = Null /\ f[old] = succ /\ \A n \in Nodes : n # old => f[n] = n
  BY <1>1, <1>f DEF NewName
<1>3. /\ \A l \in L : \E k \in K : l = f[k]
      /\ \A k \in K : f[k] \in L
      /\ r.root[h] = f[m.root[h]]
      /\ \A k \in K, e \in Sides : r.child[e][f[k]] = f[m.child[e][k]]
  BY <1>f DEF Renaming
<1>4. \A i, j \in K \cup {Null} : f[i] = f[j] => i = j
  BY <1>1, <1>2
<1>5. \A k \in K : r.color[f[k]] = m.color[k]
  <2>1. \A i \in Keys : r.color[i] = IF i = succ THEN m.color[old] ELSE m.color[i]
    BY DEF Placed
  <2> QED
    BY <1>1, <1>2, <2>1
<1>6. PICK ranks : ranks = [rank EXCEPT ![succ] = rank[old]]
  OBVIOUS
<1>7. /\ ranks \in Ranks /\ \A n \in Nodes : n # succ => ranks[n] = rank[n]
      /\ \A n \in K \cup {Null} : ranks[f[n]] = rank[n]
  <2>1. rank[old] \in Nat
    BY <1>1, RankTypes
  <2>2. ranks \in Ranks /\ ranks[succ] = rank[old] /\ \A n \in Nodes : n # succ => ranks[n] = rank[n]
    BY <1>1, <1>6, <2>1 DEF Ranks
  <2> QED
    BY <1>1, <1>2, <2>2
<1>8. \A n \in K \cup {Null} : IsBlack(r, f[n]) <=> IsBlack(m, n)
  BY <1>1, <1>2, <1>4, <1>5 DEF IsBlack
<1>9. ASSUME NEW q \in K \cup {Null}, NEW s, Ranked(m, K, rank, q, s)
      PROVE  Ranked(r, L, ranks, f[q], s)
  <2>1. ranks[Null] = 0
    BY <1>2, <1>7, <1>9 DEF Ranked
  <2>2. ASSUME NEW l \in L, NEW e \in Sides
        PROVE  ranks[l] = ranks[r.child[e][l]] + Blacks(r, l)
                            + (IF l = f[q] /\ e = s THEN 1 ELSE 0)
    <3>1. PICK k \in K : l = f[k]
      BY <1>3
    <3>2. rank[k] = rank[m.child[e][k]] + Blacks(m, k) + (IF k = q /\ e = s THEN 1 ELSE 0)
      BY <1>9 DEF Ranked
    <3>3. ranks[l] = rank[k] /\ ranks[r.child[e][l]] = rank[m.child[e][k]]
      BY <1>1, <1>3, <1>7, <3>1
    <3>4. Blacks(r, l) = Blacks(m, k)
      BY <1>5, <3>1 DEF Blacks
    <3>5. k = q <=> l = f[q]
      BY <1>4, <3>1
    <3> QED
      BY <3>2, <3>3, <3>4, <3>5
  <2> QED
    BY <2>1, <2>2 DEF Ranked
<1>10. ASSUME NEW low \in K \cup {Null}, Coloured(m, h, K, low, low)
       PROVE  Coloured(r, h, L, f[low], f[low])
  <2>1. r.root[h] # f[low] => IsBlack(r, r.root[h])
    <3>1. m.root[h] # low => IsBlack(m, m.root[h])
      BY <1>10 DEF Coloured
    <3> QED
      BY <1>1, <1>3, <1>8, <3>1
  <2>2. ASSUME NEW l \in L, NEW e \in Sides, r.color[l] = Red, l # f[low], r.child[e][l] # f[low]
        PROVE  IsBlack(r, r.child[e][l])
    <3>1. PICK k \in K : l = f[k]
      BY <1>3
    <3>2. m.color[k] = Red /\ k # low /\ r.child[e][l] = f[m.child[e][k]]
      BY <1>3, <1>5, <2>2, <3>1
    <3>3. m.child[e][k] # low
      BY <2>2, <3>2
    <3>4. IsBlack(m, m.child[e][k])
      BY <1>10, <3>2, <3>3 DEF Coloured
    <3> QED
      BY <1>1, <1>8, <3>2, <3>4
  <2> QED
    BY <2>1, <2>2 DEF Coloured
<1>q. PICK q : q = IF p = old THEN succ ELSE p
  OBVIOUS
<1>u. child \in K \cup {Null} /\ p \in K \cup {Null} /\ c \in {Black, Red}
  BY DEF Unhooked
<1>11. /\ f[p] = q /\ f[child] = child
       /\ child \in L \cup {Null} /\ q \in L \cup {Null} /\ (q = Null <=> p = Null)
  <2>1. f[p] = q /\ f[child] = child /\ (q = Null <=> p = Null)
    BY <1>1, <1>2, <1>q, <1>u
  <2> QED
    BY <1>2, <1>3, <1>u, <2>1
<1>12. c = Black => /\ \E s \in Sides : Ranked(r, L, ranks, q, s) /\ (q # Null => r.child[s][q] = child)
                    /\ q = Null => child = r.root[h]
                    /\ Coloured(r, h, L, child, child)
  <2> HAVE c = Black
  <2>1. PICK s \in Sides : Ranked(m, K, rank, p, s) /\ (p # Null => m.child[s][p] = child)
    BY DEF Unhooked
  <2>2. (p = Null => child = m.root[h]) /\ Coloured(m, h, K, child, child)
    BY DEF Unhooked
  <2>3. Ranked(r, L, ranks, q, s)
    BY <1>9, <1>11, <1>u, <2>1
  <2>4. q # Null => r.child[s][q] = child
    BY <1>3, <1>11, <1>u, <2>1
  <2>5. q = Null => child = r.root[h]
    BY <1>3, <1>11, <2>2
  <2>6. Coloured(r, h, L, child, child)
    BY <1>10, <1>11, <1>u, <2>2
  <2> QED
    BY <2>3, <2>4, <2>5, <2>6
<1>13. c = Red => Ranked(r, L, ranks, Null, "left") /\ Coloured(r, h, L, Null, Null)
  <2> HAVE c = Red
  <2>1. Ranked(m, K, rank, Null, "left") /\ Coloured(m, h, K, Null, Null)
    BY DEF Unhooked
  <2>2. Null \in K \cup {Null} /\ f[Null] = Null
    BY <1>2
  <2>3. Ranked(r, L, ranks, f[Null], "left") /\ Coloured(r, h, L, f[Null], f[Null])
    BY <1>9, <1>10, <2>1, <2>2
  <2> QED
    BY <2>2, <2>3
<1>14. Unhooked(r, h, L, ranks, c, q, child)
  BY <1>11, <1>12, <1>13, <1>u DEF Unhooked
<1> QED
  BY <1>7, <1>14, <1>q

\* The successor lies where the node lies that it replaces.
LEMMA SuccessorLaws ==
  ASSUME NEW m, NEW h, NEW o, NEW K, NEW under, NEW rank, Well(m, h, o, K, under, rank),
         o.pc = "remove", o.elm # o.key, m.child["left"][o.elm] = Null
  PROVE  /\ o.key \in K /\ o.elm \in K
         /\ o.key \notin under[o.elm]
         /\ \A j \in K : j # o.key /\ j # o.elm => (o.key < j <=> o.elm < j)
<1>1. PICK old, elm : old = o.key /\ elm = o.elm
  OBVIOUS
<1>2. PICK right, left : right = m.child["right"][old] /\ left = m.child["left"][old]
  OBVIOUS
<1>3. /\ IsTree(m, h, K, under) /\ old \in K
      /\ elm \in under[right]
      /\ \A j \in under[right] : j \notin under[elm] => elm < j
  BY <1>1, <1>2 DEF Well, Pointers
<1>4. /\ under[old] = {old} \cup under[left] \cup under[right]
      /\ \A j \in under[left] : j < old /\ j \in K /\ j \in Int
      /\ \A j \in under[right] : old < j /\ j \in K /\ j \in Int
      /\ old \in Int
  BY <1>2, <1>3, OrderLaws, TreeTypes
<1>5. elm \in K /\ elm \in Int /\ old < elm
  BY <1>3, <1>4
<1>6. \A j \in under[elm] : j # elm => elm < j
  <2>1. /\ under[elm] = {elm} \cup under[m.child["left"][elm]] \cup under[m.child["right"][elm]]
        /\ \A j \in under[m.child["right"][elm]] : elm < j
    BY <1>3, <1>5, OrderLaws
  <2>2. under[m.child["left"][elm]] = {}
    <3>1. under[Null] = {}
      BY <1>3, TreeTypes
    <3> QED
      BY <1>1, <3>1
  <2> QED
    BY <2>1, <2>2
<1>7. old \notin under[elm]
  BY <1>4, <1>5, <1>6
<1>8. ASSUME NEW j \in K, j # old, j # elm PROVE old < j <=> elm < j
  <2>1. j \in Int
    BY <1>3, TreeTypes
  <2>2. CASE j \in under[right]
    BY <1>3, <1>4, <1>6, <1>8, <2>2
  <2>3. CASE j \in under[left]
    BY <1>4, <1>5, <2>1, <2>3
  <2>4. CASE j \notin under[old]
    <3>1. elm \in under[old]
      BY <1>3, <1>4
    <3> QED
      BY <1>3, <2>4, <3>1, NestedLaws
  <2> QED
    BY <1>4, <1>8, <2>2, <2>3, <2>4
<1> QED
  BY <1>1, <1>3, <1>5, <1>7, <1>8

\* UnlinkSuccessor
LEMMA UnlinkSuccessorWell ==
  ASSUME NEW m, NEW h, NEW o, NEW K, NEW under, NEW rank, Well(m, h, o, K, under, rank),
         o.pc = "remove", o.elm # o.key, m.child["left"][o.elm] = Null,
         NEW child, child = m.child["right"][o.elm],
         NEW p, p = m.parent[o.elm],
         NEW r, r = TakePlace(Splice(m, h, o.elm, child), h, o.elm, o.key),
         NEW q, q = IF p = o.key THEN o.elm ELSE p
  PROVE  /\ o.key \in K
         /\ Proceeds(m, r, h, IF m.color[o.elm] = Black THEN At("removeColor", o.key, q, child)
                              ELSE At("removed", o.key, Null, Null),
                     K \ {o.key}, K, under, rank)
<1>1. PICK old, elm : old = o.key /\ elm = o.elm
  OBVIOUS
<1>2. /\ IsTree(m, h, K, under) /\ rank \in Ranks
      /\ Ranked(m, K, rank, Null, "left") /\ Coloured(m, h, K, Null, Null)
  BY DEF Well, Balanced
<1>3. /\ old \in K /\ elm \in K /\ elm # old /\ old \notin under[elm]
      /\ \A j \in K : j # old /\ j # elm => (old < j <=> elm < j)
  BY <1>1, SuccessorLaws
<1>4. /\ m \in Memory /\ h \in Heads /\ elm \in Keys /\ old \in Keys /\ old \in Nodes
      /\ child \in Nodes /\ K \subseteq Keys
      /\ m.child["left"][elm] = Null /\ child = m.child["right"][elm] /\ p = m.parent[elm]
      /\ "left" \in Sides /\ "right" \in Sides /\ Opposite("left") = "right"
  <2>1. "left" \in Sides /\ "right" \in Sides /\ Opposite("left") = "right"
    BY DEF Sides, Opposite
  <2> QED
    BY <1>1, <1>2, <1>3, <2>1, TreeTypes
<1>5. child # old
  <2>1. \A e \in Sides : m.child[e][elm] # Null => m.child[e][elm] \in under[elm]
    BY <1>2, <1>3, ChildLaws
  <2>2. old # Null
    BY <1>4, KeysNodes
  <2> QED
    BY <1>3, <1>4, <2>1, <2>2
<1>6. PICK a, one : a = Splice(m, h, elm, child) /\ one = Without(under, elm)
  OBVIOUS
<1>7. Spliced(m, a, h, elm, child)
  BY <1>4, <1>6, SpliceFields
<1>8. PICK L : L = K \ {elm}
  OBVIOUS
<1>9. IsTree(a, h, L, one)
  BY <1>2, <1>3, <1>4, <1>6, <1>7, <1>8, SpliceTree
<1>10. /\ Unhooked(a, h, L, rank, m.color[elm], p, child)
       /\ Apart(m, a, h, K, under, one, rank, rank)
  <2>1. /\ Unhooked(a, h, K \ {elm}, rank, m.color[elm], m.parent[elm], child)
        /\ Apart(m, a, h, K, under, Without(under, elm), rank, rank)
    BY <1>2, <1>3, <1>4, <1>7, SpliceUnhooks
  <2> QED
    BY <1>4, <1>6, <1>8, <2>1
<1>11. /\ old \in L /\ elm \notin L
       /\ \A j \in L : j # old => (old < j <=> elm < j)
  BY <1>3, <1>8
<1>12. Placed(a, r, h, elm, old)
  <2>1. a.parent[old] # elm
    <3>1. a.parent[old] # Null => a.parent[old] \in L
      BY <1>9, <1>11, ParentLaws
    <3>2. elm # Null
      BY <1>4, KeysNodes
    <3> QED
      BY <1>11, <3>1, <3>2
  <2>2. a \in Memory /\ r = TakePlace(a, h, elm, old)
    BY <1>1, <1>6, <1>9, TreeTypes
  <2> QED
    BY <1>3, <1>4, <2>1, <2>2, TakePlaceFields
<1>13. PICK labels, M : labels = Renamed(one, elm, old) /\ M = (L \ {old}) \cup {elm}
  OBVIOUS
<1>14. IsTree(r, h, M, labels) /\ Renaming(a, r, h, L, M, one, labels, NewName(elm, old))
  BY <1>4, <1>9, <1>11, <1>12, <1>13, TakePlaceTree
<1>15. PICK ranks \in Ranks : /\ Unhooked(r, h, M, ranks, m.color[elm], IF p = old THEN elm ELSE p, child)
                              /\ \A n \in Nodes : n # elm => ranks[n] = rank[n]
  BY <1>2, <1>4, <1>5, <1>9, <1>10, <1>11, <1>12, <1>14, TakePlaceUnhooks
<1>16. Well(r, h, IF m.color[elm] = Black THEN At("removeColor", old, q, child)
                  ELSE At("removed", old, Null, Null), M, labels, ranks)
  <2>1. q = IF p = old THEN elm ELSE p
    BY <1>1
  <2> QED
    BY <1>4, <1>14, <1>15, <2>1, UnhookedWell
<1>17. Apart(m, r, h, K, under, labels, rank, ranks)
  <2>1. /\ \A g \in Heads : g # h => r.root[g] = a.root[g]
        /\ \A g \in Heads : g # h => a.root[g] = m.root[g]
    BY <1>10, <1>12 DEF Apart, Placed
  <2>2. ASSUME NEW i \in Keys, i \notin K
        PROVE  /\ r.parent[i] = m.parent[i] /\ r.color[i] = m.color[i]
               /\ \A e \in Sides : r.child[e][i] = m.child[e][i]
    <3>1. /\ a.parent[i] = m.parent[i] /\ a.color[i] = m.color[i]
          /\ \A e \in Sides : a.child[e][i] = m.child[e][i]
      BY <1>10, <2>2 DEF Apart
    <3>2. i # elm /\ i # a.parent[old] /\ \A e \in Sides : i # a.child[e][old]
      <4>1. a.parent[old] # Null => a.parent[old] \in L
        BY <1>9, <1>11, ParentLaws
      <4>2. \A e \in Sides : a.child[e][old] # Null => a.child[e][old] \in L
        BY <1>9, <1>11, ChildLaws
      <4>3. i # Null
        BY KeysNodes
      <4> QED
        BY <1>3, <1>8, <2>2, <4>1, <4>2, <4>3
    <3> QED
      BY <1>12, <3>1, <3>2 DEF Placed
  <2>3. \A n \in Nodes : n \notin K /\ under[n] \cap K = {} => labels[n] = under[n]
    <3> TAKE n \in Nodes
    <3> HAVE n \notin K /\ under[n] \cap K = {}
    <3>1. one[n] = under[n]
      BY <1>10 DEF Apart
    <3>2. old \notin one[n] /\ n # elm
      BY <1>3, <3>1
    <3> QED
      BY <1>13, <3>1, <3>2 DEF Renamed
  <2>4. \A n \in Nodes : n \notin K => ranks[n] = rank[n]
    BY <1>3, <1>15
  <2> QED
    BY <2>1, <2>2, <2>3, <2>4 DEF Apart
<1>18. M = K \ {old} /\ labels \in Labels
  BY <1>3, <1>8, <1>13, <1>14, TreeTypes
<1> QED
  BY <1>1, <1>3, <1>15, <1>16, <1>17, <1>18 DEF Proceeds
=============================================================================
