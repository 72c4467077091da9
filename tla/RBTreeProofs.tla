---------------------------- MODULE RBTreeProofs ----------------------------
(***************************************************************************)
(* Proofs about RBTree, for any number of keys and of heads: IInv is       *)
(* inductive, and the properties of RBTree follow from it.                 *)
(*                                                                         *)
(* IInv says that there are labels of the nodes under which each head is   *)
(* Well.  A step finds new labels for the nodes of its own head; the other *)
(* heads keep theirs, since no node belongs to two of them (Owned).        *)
(***************************************************************************)
EXTENDS RBTreeBalance

-----------------------------------------------------------------------------
(* The inductive invariant                                                 *)

\* The nodes carry these labels, under which each head's tree is well.
Inv(under, rank) ==
    /\ under \in Labels /\ rank \in Ranks
    /\ TypeOK /\ Owned
    /\ \A h \in Heads : Well(mem, h, op[h], keys[h], under, rank)

IInv == \E under, rank : Inv(under, rank)

\* A step that writes nothing.
LEMMA SameProceeds ==
  ASSUME NEW m, NEW h, NEW to, NEW K, NEW under \in Labels, NEW rank \in Ranks,
         Well(m, h, to, K, under, rank)
  PROVE  Proceeds(m, m, h, to, K, {}, under, rank)
  BY DEF Proceeds, Apart

\* A step of one head that touches no other head's nodes preserves the invariant.
OneHead(h, to, L, own, under, rank) ==
    /\ Proceeds(mem, mem', h, to, L, own, under, rank)
    /\ op' = [op EXCEPT ![h] = to] /\ keys' = [keys EXCEPT ![h] = L]
    /\ Aside(to, L)
    /\ Null \notin own
    /\ \A g \in Heads : g # h => (own \cup Own(to, L)) \cap Own(op[g], keys[g]) = {}

\* The other heads do not notice.
LEMMA OneHeadKeeps ==
  ASSUME NEW under, NEW rank, Inv(under, rank), NEW h \in Heads, NEW to, NEW L, NEW own,
         OneHead(h, to, L, own, under, rank)
  PROVE  IInv'
<1>1. /\ under \in Labels /\ rank \in Ranks /\ TypeOK /\ Owned
      /\ \A g \in Heads : Well(mem, g, op[g], keys[g], under, rank)
  BY DEF Inv
<1>2. /\ op' = [op EXCEPT ![h] = to] /\ keys' = [keys EXCEPT ![h] = L]
      /\ Aside(to, L)
      /\ Null \notin own
      /\ \A g \in Heads : g # h => (own \cup Own(to, L)) \cap Own(op[g], keys[g]) = {}
  BY DEF OneHead
<1>3. PICK labels \in Labels, ranks \in Ranks :
        Well(mem', h, to, L, labels, ranks) /\ Apart(mem, mem', h, own, under, labels, rank, ranks)
  BY DEF OneHead, Proceeds
<1>4. mem' \in Memory /\ L \in SUBSET Keys /\ to \in Operation
  <2>1. IsTree(mem', h, L, labels) /\ to \in Operation
    BY <1>3 DEF Well
  <2> QED
    BY <2>1, TreeTypes
<1>5. TypeOK'
  BY <1>1, <1>2, <1>4 DEF TypeOK
<1>6. /\ op'[h] = to /\ keys'[h] = L
      /\ \A g \in Heads : g # h => op'[g] = op[g] /\ keys'[g] = keys[g]
  BY <1>1, <1>2 DEF TypeOK
<1>7. Owned'
  <2>1. ASSUME NEW g \in Heads PROVE Aside(op'[g], keys'[g])
    <3>1. CASE g = h
      BY <1>2, <1>6, <3>1
    <3>2. CASE g # h
      BY <1>1, <1>6, <3>2 DEF Owned
    <3> QED
      BY <3>1, <3>2
  <2>2. ASSUME NEW f \in Heads, NEW g \in Heads, g # f
        PROVE  Own(op'[g], keys'[g]) \cap Own(op'[f], keys'[f]) = {}
    <3>1. CASE f = h
      BY <1>2, <1>6, <2>2, <3>1
    <3>2. CASE g = h
      BY <1>2, <1>6, <2>2, <3>2
    <3>3. CASE f # h /\ g # h
      <4>1. Own(op[g], keys[g]) \cap Own(op[f], keys[f]) = {}
        BY <1>1, <2>2 DEF Owned
      <4> QED
        BY <1>6, <3>3, <4>1
    <3> QED
      BY <3>1, <3>2, <3>3
  <2> QED
    BY <2>1, <2>2 DEF Owned
<1>8. ASSUME NEW g \in Heads PROVE Well(mem', g, op'[g], keys'[g], labels, ranks)
  <2>1. CASE g = h
    BY <1>3, <1>6, <2>1
  <2>2. CASE g # h
    <3>1. \A k \in keys[g] : k \notin own
      BY <1>2, <2>2 DEF Own
    <3>2. Well(mem, g, op[g], keys[g], under, rank) /\ IsTree(mem, g, keys[g], under)
      BY <1>1 DEF Well
    <3>3. /\ keys[g] \subseteq Keys /\ under[Null] = {} /\ Null \in Nodes
          /\ \A k \in keys[g] : k \in Nodes /\ under[k] \subseteq keys[g]
      BY <3>2, TreeTypes
    <3>4. mem'.root[g] = mem.root[g]
      BY <1>3, <2>2 DEF Apart
    <3>5. \A k \in keys[g] : /\ mem'.parent[k] = mem.parent[k] /\ mem'.color[k] = mem.color[k]
                             /\ \A d \in Sides : mem'.child[d][k] = mem.child[d][k]
      BY <1>3, <3>1, <3>3 DEF Apart
    <3>6. \A n \in keys[g] \cup {Null} : labels[n] = under[n] /\ ranks[n] = rank[n]
      <4>1. ASSUME NEW n \in keys[g] \cup {Null} PROVE labels[n] = under[n] /\ ranks[n] = rank[n]
        <5>1. n \in Nodes /\ n \notin own /\ under[n] \cap own = {}
          BY <1>2, <3>1, <3>3
        <5> QED
          BY <1>3, <5>1 DEF Apart
      <4> QED
        BY <4>1
    <3>7. Well(mem', g, op[g], keys[g], labels, ranks)
      BY <1>3, <1>4, <3>2, <3>4, <3>5, <3>6, SameWell
    <3> QED
      BY <1>6, <2>2, <3>7
  <2> QED
    BY <2>1, <2>2
<1>9. Inv(labels, ranks)'
  BY <1>3, <1>5, <1>7, <1>8 DEF Inv
<1> QED
  BY <1>9 DEF IInv

\* In a step within a head's own nodes these are apart from the others'.
LEMMA OwnStep ==
  ASSUME NEW under, NEW rank, Inv(under, rank), NEW h \in Heads, NEW to, NEW L, NEW own,
         Proceeds(mem, mem', h, to, L, own, under, rank),
         op' = [op EXCEPT ![h] = to], keys' = [keys EXCEPT ![h] = L],
         Aside(to, L),
         own \in SUBSET Own(op[h], keys[h]), Own(to, L) \in SUBSET Own(op[h], keys[h])
  PROVE  IInv'
<1>1. /\ TypeOK /\ Owned
  BY DEF Inv
<1>2. Null \notin own
  <2>1. keys[h] \subseteq Keys /\ (op[h].pc \in Detached => op[h].key \in Keys)
    BY <1>1 DEF TypeOK, Owned, Aside
  <2>2. Own(op[h], keys[h]) \subseteq Keys
    BY <2>1 DEF Own
  <2> QED
    BY <2>2, KeysNodes
<1>3. \A g \in Heads : g # h => (own \cup Own(to, L)) \cap Own(op[g], keys[g]) = {}
  BY <1>1 DEF Owned
<1>4. OneHead(h, to, L, own, under, rank)
  BY <1>2, <1>3 DEF OneHead
<1> QED
  BY <1>4, OneHeadKeeps

-----------------------------------------------------------------------------
(* The steps that write nothing                                            *)

\* The invariant of one head, and what its operation points to.
LEMMA InvAt ==
  ASSUME NEW under, NEW rank, Inv(under, rank), NEW h \in Heads
  PROVE  /\ Well(mem, h, op[h], keys[h], under, rank)
         /\ under \in Labels /\ rank \in Ranks
         /\ op[h].key \in Nodes /\ op[h].parent \in Nodes /\ op[h].elm \in Nodes
         /\ op = [op EXCEPT ![h] = op[h]] /\ keys = [keys EXCEPT ![h] = keys[h]]
         /\ Aside(op[h], keys[h])
<1>1. /\ TypeOK /\ Owned /\ under \in Labels /\ rank \in Ranks
      /\ Well(mem, h, op[h], keys[h], under, rank)
  BY DEF Inv
<1>2. op[h] \in Operation
  BY <1>1 DEF Well
<1>3. Aside(op[h], keys[h])
  BY <1>1 DEF Owned
<1>4. op = [op EXCEPT ![h] = op[h]] /\ keys = [keys EXCEPT ![h] = keys[h]]
  BY <1>1 DEF TypeOK
<1> QED
  BY <1>1, <1>2, <1>3, <1>4, OperationTypes

\* A step from op[h] to to leaves detached the key that was, if any.
Keeps(o, to) ==
    to.pc \in Detached =>
        /\ o.pc \in Detached /\ to.key = o.key
        /\ o.pc = "insert" => to.pc = "insert"

\* A step that only reads.
LEMMA ReadStep ==
  ASSUME NEW under, NEW rank, Inv(under, rank), NEW h \in Heads, NEW to,
         Well(mem, h, to, keys[h], under, rank), Keeps(op[h], to),
         UNCHANGED <<mem, keys>>, op' = [op EXCEPT ![h] = to]
  PROVE  IInv'
<1>1. /\ under \in Labels /\ rank \in Ranks /\ keys = [keys EXCEPT ![h] = keys[h]]
      /\ Aside(op[h], keys[h])
  BY InvAt
<1>2. Proceeds(mem, mem', h, to, keys[h], {}, under, rank)
  BY <1>1, SameProceeds
<1>3. Aside(to, keys[h])
  BY <1>1 DEF Keeps, Aside
<1>4. Own(to, keys[h]) \in SUBSET Own(op[h], keys[h])
  BY DEF Keeps, Own
<1>5. {} \in SUBSET Own(op[h], keys[h])
  OBVIOUS
<1>6. keys' = [keys EXCEPT ![h] = keys[h]]
  BY <1>1
<1> QED
  BY <1>2, <1>3, <1>4, <1>5, <1>6, OwnStep

\* A step that rearranges the head's own nodes.
LEMMA WriteStep ==
  ASSUME NEW under, NEW rank, Inv(under, rank), NEW h \in Heads, NEW to,
         Proceeds(mem, mem', h, to, keys[h], keys[h], under, rank), Keeps(op[h], to),
         UNCHANGED keys, op' = [op EXCEPT ![h] = to]
  PROVE  IInv'
<1>1. /\ keys = [keys EXCEPT ![h] = keys[h]]
      /\ Aside(op[h], keys[h])
  BY InvAt
<1>3. Aside(to, keys[h])
  BY <1>1 DEF Keeps, Aside
<1>4. Own(to, keys[h]) \in SUBSET Own(op[h], keys[h])
  BY DEF Keeps, Own
<1>5. keys[h] \in SUBSET Own(op[h], keys[h])
  BY DEF Own
<1>6. keys' = [keys EXCEPT ![h] = keys[h]]
  BY <1>1
<1> QED
  BY <1>3, <1>4, <1>5, <1>6, OwnStep

\* A call may return, or one begin, anywhere but in a loop that restores colours.
LEMMA IdleWell ==
  ASSUME NEW m, NEW h, NEW o, NEW K, NEW under, NEW rank, Well(m, h, o, K, under, rank),
         o.pc \notin {"insertColor", "removeColor"}
  PROVE  Well(m, h, Idle, K, under, rank)
<1>1. Idle \in Operation /\ Idle.pc = "idle"
  BY KeysNodes DEF Idle, Operation
<1>2. Pointers(m, h, Idle, K, under) /\ Answers(Idle, K)
  BY <1>1 DEF Pointers, Answers
<1> QED
  BY <1>1, <1>2, Goes

\* RB_REMOVE of a node of the tree begins.
LEMMA RemoveNodeStep ==
  ASSUME NEW under, NEW rank, Inv(under, rank), NEW h \in Heads, NEW old \in keys[h],
         op[h].pc \notin {"insertColor", "removeColor"}, RemoveNode(h, old)
  PROVE  IInv'
<1>1. Well(mem, h, op[h], keys[h], under, rank)
  BY InvAt
<1>2. PICK right : right = mem.child["right"][old]
  OBVIOUS
<1>3. PICK to : to = At("remove", old, Null,
                        IF mem.child["left"][old] # Null /\ right # Null THEN right ELSE old)
  OBVIOUS
<1>4. UNCHANGED <<mem, keys>> /\ op' = [op EXCEPT ![h] = to]
  BY <1>2, <1>3 DEF RemoveNode, Goto, At
<1>5. Well(mem, h, to, keys[h], under, rank)
  BY <1>1, <1>2, <1>3, RemoveBegins
<1>6. Keeps(op[h], to)
  BY <1>3 DEF Keeps, Detached, At
<1> QED
  BY <1>4, <1>5, <1>6, ReadStep

\* Each step of a walk down or up a tree.
LEMMA WalkSteps ==
  ASSUME NEW under, NEW rank, Inv(under, rank), NEW h \in Heads
  PROVE  Walk(h) => IInv'
<1> DEFINE o == op[h]
           K == keys[h]
<1>1. /\ Well(mem, h, o, K, under, rank)
      /\ Aside(o, K)
  BY InvAt
<1>2. \A place, k, p, n : Goto(h, place, k, p, n) <=> op' = [op EXCEPT ![h] = At(place, k, p, n)]
  BY DEF Goto, At
<1>3. \A place, k, p, n : /\ At(place, k, p, n).pc = place /\ At(place, k, p, n).key = k
  BY DEF At
<1>4. ASSUME FindDescend(h) PROVE IInv'
  <2>1. PICK to : to = At("find", o.key, o.parent, mem.child[SideFor(o.key, o.elm)][o.elm])
    OBVIOUS
  <2>2. /\ o.pc = "find" /\ o.elm \notin {Null, o.key}
        /\ UNCHANGED <<mem, keys>> /\ op' = [op EXCEPT ![h] = to]
    BY <1>2, <1>4, <2>1 DEF FindDescend, Move
  <2>3. Well(mem, h, to, K, under, rank)
    BY <1>1, <2>1, <2>2, FindDescends
  <2>4. Keeps(o, to)
    BY <1>3, <2>1 DEF Keeps, Detached
  <2> QED
    BY <2>2, <2>3, <2>4, ReadStep
<1>5. ASSUME FindEnd(h) PROVE IInv'
  <2>1. PICK to : to = At("answer", o.key, o.parent, o.elm)
    OBVIOUS
  <2>2. /\ o.pc = "find" /\ o.elm \in {Null, o.key}
        /\ UNCHANGED <<mem, keys>> /\ op' = [op EXCEPT ![h] = to]
    BY <1>2, <1>5, <2>1 DEF FindEnd, Move
  <2>3. Well(mem, h, to, K, under, rank)
    BY <1>1, <2>1, <2>2, FindEnds
  <2>4. Keeps(o, to)
    BY <1>3, <2>1 DEF Keeps, Detached
  <2> QED
    BY <2>2, <2>3, <2>4, ReadStep
<1>6. ASSUME LeftmostDescend(h) PROVE IInv'
  <2>1. PICK to : to = At("leftmost", o.key, o.parent, mem.child["left"][o.elm])
    OBVIOUS
  <2>2. /\ o.pc = "leftmost" /\ o.elm # Null /\ mem.child["left"][o.elm] # Null
        /\ UNCHANGED <<mem, keys>> /\ op' = [op EXCEPT ![h] = to]
    BY <1>2, <1>6, <2>1 DEF LeftmostDescend, Move
  <2>3. Well(mem, h, to, K, under, rank)
    BY <1>1, <2>1, <2>2, LeftmostDescends
  <2>4. Keeps(o, to)
    BY <1>3, <2>1 DEF Keeps, Detached
  <2> QED
    BY <2>2, <2>3, <2>4, ReadStep
<1>7. ASSUME LeftmostEnd(h) PROVE IInv'
  <2>1. PICK to : to = At("visit", o.key, o.parent, o.elm)
    OBVIOUS
  <2>2. /\ o.pc = "leftmost" /\ (o.elm # Null => mem.child["left"][o.elm] = Null)
        /\ UNCHANGED <<mem, keys>> /\ op' = [op EXCEPT ![h] = to]
    BY <1>2, <1>7, <2>1 DEF LeftmostEnd, Move
  <2>3. Well(mem, h, to, K, under, rank)
    BY <1>1, <2>1, <2>2, LeftmostEnds
  <2>4. Keeps(o, to)
    BY <1>3, <2>1 DEF Keeps, Detached
  <2> QED
    BY <2>2, <2>3, <2>4, ReadStep
<1>8. ASSUME Following(h) PROVE IInv'
  <2>0. PICK right : right = mem.child["right"][o.elm]
    OBVIOUS
  <2>1. PICK to : to = IF right # Null THEN At("leftmost", o.elm, Null, right)
                       ELSE At("ascend", o.elm, Null, o.elm)
    OBVIOUS
  <2>2. /\ o.pc = "visit" /\ o.elm # Null
        /\ UNCHANGED <<mem, keys>> /\ op' = [op EXCEPT ![h] = to]
    BY <1>2, <1>8, <2>0, <2>1 DEF Following
  <2>3. Well(mem, h, to, K, under, rank)
    BY <1>1, <2>0, <2>1, <2>2, FollowingGoes
  <2>4. Keeps(o, to)
    BY <1>3, <2>1 DEF Keeps, Detached
  <2> QED
    BY <2>2, <2>3, <2>4, ReadStep
<1>9. ASSUME Ascend(h) PROVE IInv'
  <2>0. PICK p : p = mem.parent[o.elm]
    OBVIOUS
  <2>1. PICK to : to = IF p # Null /\ mem.child["left"][p] # o.elm
                       THEN At("ascend", o.key, o.parent, p) ELSE At("visit", o.key, o.parent, p)
    OBVIOUS
  <2>2. /\ o.pc = "ascend"
        /\ UNCHANGED <<mem, keys>> /\ op' = [op EXCEPT ![h] = to]
    BY <1>2, <1>9, <2>0, <2>1 DEF Ascend, Move
  <2>3. Well(mem, h, to, K, under, rank)
    BY <1>1, <2>0, <2>1, <2>2, Ascends
  <2>4. Keeps(o, to)
    BY <1>3, <2>1 DEF Keeps, Detached
  <2> QED
    BY <2>2, <2>3, <2>4, ReadStep
<1>10. ASSUME InsertDescend(h) PROVE IInv'
  <2>1. PICK to : to = At("insert", o.key, o.elm, mem.child[SideFor(o.key, o.elm)][o.elm])
    OBVIOUS
  <2>2. /\ o.pc = "insert" /\ o.elm \notin {Null, o.key}
        /\ UNCHANGED <<mem, keys>> /\ op' = [op EXCEPT ![h] = to]
    BY <1>2, <1>10, <2>1 DEF InsertDescend
  <2>5. o.key \in Keys
    BY <1>1, <2>2 DEF Aside, Detached
  <2>3. Well(mem, h, to, K, under, rank)
    BY <1>1, <2>1, <2>2, <2>5, InsertDescends
  <2>4. Keeps(o, to)
    <3>1. to.pc = "insert" /\ to.key = o.key
      BY <1>3, <2>1
    <3> QED
      BY <2>2, <3>1 DEF Keeps, Detached
  <2> QED
    BY <2>2, <2>3, <2>4, ReadStep
<1>11. ASSUME SuccessorDescend(h) PROVE IInv'
  <2>1. PICK to : to = At("remove", o.key, o.parent, mem.child["left"][o.elm])
    OBVIOUS
  <2>2. /\ o.pc = "remove" /\ o.elm # o.key /\ mem.child["left"][o.elm] # Null
        /\ UNCHANGED <<mem, keys>> /\ op' = [op EXCEPT ![h] = to]
    BY <1>2, <1>11, <2>1 DEF SuccessorDescend, Move
  <2>3. Well(mem, h, to, K, under, rank)
    BY <1>1, <2>1, <2>2, SuccessorDescends
  <2>4. Keeps(o, to)
    BY <1>3, <2>1 DEF Keeps, Detached
  <2> QED
    BY <2>2, <2>3, <2>4, ReadStep
<1>12. ASSUME Remove(h) PROVE IInv'
  <2>1. o.pc = "answer" /\ o.elm # Null /\ RemoveNode(h, o.elm)
    BY <1>12 DEF Remove
  <2>2. o.elm \in K
    BY <1>1, <2>1 DEF Well, Answers
  <2> QED
    BY <2>1, <2>2, RemoveNodeStep
<1>13. ASSUME CallEnds(h) PROVE IInv'
  <2>1. /\ o.pc \in {"answer", "visit"}
        /\ UNCHANGED <<mem, keys>> /\ op' = [op EXCEPT ![h] = Idle]
    BY <1>13 DEF CallEnds, Return
  <2>2. Well(mem, h, Idle, K, under, rank)
    BY <1>1, <2>1, IdleWell
  <2>3. Keeps(o, Idle)
    BY DEF Keeps, Detached, Idle
  <2> QED
    BY <2>1, <2>2, <2>3, ReadStep
<1>14. ASSUME InsertEqual(h) PROVE IInv'
  <2>1. /\ o.pc = "insert"
        /\ UNCHANGED <<mem, keys>> /\ op' = [op EXCEPT ![h] = Idle]
    BY <1>14 DEF InsertEqual, Return
  <2>2. Well(mem, h, Idle, K, under, rank)
    BY <1>1, <2>1, IdleWell
  <2>3. Keeps(o, Idle)
    BY DEF Keeps, Detached, Idle
  <2> QED
    BY <2>1, <2>2, <2>3, ReadStep
<1> QED
  BY <1>4, <1>5, <1>6, <1>7, <1>8, <1>9, <1>10, <1>11, <1>12, <1>13, <1>14 DEF Walk

-----------------------------------------------------------------------------
(* The steps that write                                                    *)

\* RB_INSERT links the node.
LEMMA InsertLinkStep ==
  ASSUME NEW under, NEW rank, Inv(under, rank), NEW h \in Heads, InsertLink(h)
  PROVE  IInv'
<1>1. /\ Well(mem, h, op[h], keys[h], under, rank)
      /\ Aside(op[h], keys[h])
  BY InvAt
<1>2. PICK k, K, to : k = op[h].key /\ K = keys[h] /\ to = At("insertColor", k, Null, k)
  OBVIOUS
<1>3. /\ op[h].pc = "insert" /\ op[h].elm = Null
      /\ mem' = Link(mem, h, k, op[h].parent)
      /\ op' = [op EXCEPT ![h] = to]
  BY <1>2 DEF InsertLink, Goto, At
<1>k. keys' = [keys EXCEPT ![h] = K \cup {k}]
  BY <1>2 DEF InsertLink
<1>4. k \in Keys /\ k \notin K
  <2>1. IsTree(mem, h, K, under) /\ Pointers(mem, h, op[h], K, under)
    BY <1>1, <1>2 DEF Well
  <2>2. k \in K <=> k \in under[Null]
    BY <1>2, <1>3, <2>1 DEF Pointers
  <2> QED
    BY <1>1, <1>2, <1>3, <2>1, <2>2, TreeTypes DEF Aside, Detached
<1>5. PICK labels, ranks : /\ labels = Extended(under, k, op[h].parent)
                           /\ ranks = [rank EXCEPT ![k] = 0]
  OBVIOUS
<1>6. /\ Well(mem', h, to, K \cup {k}, labels, ranks)
      /\ Apart(mem, mem', h, K \cup {k}, under, labels, rank, ranks)
  <2>1. PICK o : o = op[h]
    OBVIOUS
  <2>2. /\ Well(mem, h, o, K, under, rank)
        /\ o.pc = "insert" /\ o.elm = Null /\ k = o.key /\ k \in Keys /\ k \notin K
    BY <1>1, <1>2, <1>3, <1>4, <2>1
  <2>3. mem' = Link(mem, h, k, o.parent) /\ to = At("insertColor", k, Null, k)
    BY <1>2, <1>3, <2>1
  <2>4. labels = Extended(under, k, o.parent) /\ ranks = [rank EXCEPT ![k] = 0]
    BY <1>5, <2>1
  <2> QED
    BY <2>2, <2>3, <2>4, InsertLinks
<1>7. labels \in Labels /\ ranks \in Ranks
  BY <1>6, TreeTypes DEF Well
<1>8. Proceeds(mem, mem', h, to, K \cup {k}, K \cup {k}, under, rank)
  BY <1>6, <1>7 DEF Proceeds
<1>9. to.pc = "insertColor"
  BY <1>2 DEF At
<1>10. Own(op[h], keys[h]) = K \cup {k} /\ Own(to, K \cup {k}) = K \cup {k}
  BY <1>2, <1>3, <1>9 DEF Own, Detached
<1>11. Aside(to, K \cup {k})
  BY <1>9 DEF Aside, Detached
<1> QED
  BY <1>3, <1>k, <1>8, <1>10, <1>11, OwnStep

\* A node that is red with a red parent.
LEMMA RedRedLaws ==
  ASSUME NEW under, NEW rank, Inv(under, rank), NEW h \in Heads, RedRed(h)
  PROVE  LET elm == op[h].elm
             p   == mem.parent[elm]
             g   == mem.parent[p]
             d   == SideOf(mem, g, p)
         IN /\ RedPair(mem, h, keys[h], under, rank, elm, p, g, d)
            /\ p \in Nodes /\ g \in Nodes
            /\ op[h].pc = "insertColor" /\ op[h].key \in Nodes /\ op[h].elm \in Nodes
            /\ op[h] \in Operation
<1>1. /\ Well(mem, h, op[h], keys[h], under, rank)
      /\ op[h].key \in Nodes /\ op[h].elm \in Nodes
  BY InvAt
<1>2. op[h].pc = "insertColor" /\ ~ IsBlack(mem, mem.parent[op[h].elm])
  BY DEF RedRed
<1>3. PICK elm, p, g, d : /\ elm = op[h].elm /\ p = mem.parent[elm] /\ g = mem.parent[p]
                          /\ d = SideOf(mem, g, p)
  OBVIOUS
<1>4. RedPair(mem, h, keys[h], under, rank, elm, p, g, d)
  BY <1>1, <1>2, <1>3, GrandparentLaws
<1>5. p \in Nodes /\ g \in Nodes
  <2>1. IsTree(mem, h, keys[h], under) /\ p \in keys[h] /\ g \in keys[h]
    BY <1>4 DEF RedPair
  <2> QED
    BY <2>1, TreeTypes
<1>6. op[h] \in Operation
  BY <1>1 DEF Well
<1> QED
  BY <1>1, <1>2, <1>3, <1>4, <1>5, <1>6

\* RB_INSERT_COLOR, with a red uncle.
LEMMA UncleIsRedStep ==
  ASSUME NEW under, NEW rank, Inv(under, rank), NEW h \in Heads, UncleIsRed(h)
  PROVE  IInv'
<1>1. under \in Labels /\ RedRed(h)
  BY InvAt DEF UncleIsRed
<1>2. PICK elm, p, g, d : /\ elm = op[h].elm /\ p = mem.parent[elm] /\ g = mem.parent[p]
                          /\ d = SideOf(mem, g, p)
  OBVIOUS
<1>3. PICK uncle, k : uncle = mem.child[Opposite(d)][g] /\ k = op[h].key
  OBVIOUS
<1>4. RedPair(mem, h, keys[h], under, rank, elm, p, g, d) /\ k \in Nodes
  BY <1>1, <1>2, <1>3, RedRedLaws
<1>5. Flipped(mem, mem', p, g, d, uncle)
  BY <1>2, <1>3 DEF Flipped, UncleIsRed
<1>6. PICK to : to = At("insertColor", k, Null, g)
  OBVIOUS
<1>7. op' = [op EXCEPT ![h] = to] /\ UNCHANGED keys
  BY <1>2, <1>3, <1>6 DEF UncleIsRed, Goto, At
<1>8. Proceeds(mem, mem', h, to, keys[h], keys[h], under, rank)
  <2>1. \E ranks \in Ranks : /\ Well(mem', h, to, keys[h], under, ranks)
                             /\ Apart(mem, mem', h, keys[h], under, under, rank, ranks)
    BY <1>4, <1>5, <1>6, UncleIsRedWell
  <2> QED
    BY <1>1, <2>1 DEF Proceeds
<1>9. Keeps(op[h], to)
  BY <1>6 DEF Keeps, Detached, At
<1> QED
  BY <1>7, <1>8, <1>9, WriteStep

\* RB_INSERT_COLOR, with a black uncle: a rotation about the parent or about the
\* grandparent.
LEMMA UncleIsBlackStep ==
  ASSUME NEW under, NEW rank, Inv(under, rank), NEW h \in Heads, UncleIsBlack(h)
  PROVE  IInv'
<1>1. RedRed(h) /\ UNCHANGED keys
  BY DEF UncleIsBlack
<1>2. PICK elm, p, g, d : /\ elm = op[h].elm /\ p = mem.parent[elm] /\ g = mem.parent[p]
                          /\ d = SideOf(mem, g, p)
  OBVIOUS
<1>3. /\ RedPair(mem, h, keys[h], under, rank, elm, p, g, d)
      /\ p \in Nodes /\ op[h].key \in Nodes /\ op[h].pc = "insertColor"
      /\ op[h] \in Operation
  BY <1>1, <1>2, RedRedLaws
<1>4. IsBlack(mem, mem.child[Opposite(d)][g])
  BY <1>2 DEF UncleIsBlack
<1>5. ASSUME mem.child[Opposite(d)][p] = elm PROVE IInv'
  <2>1. PICK to : to = At("insertColor", op[h].key, Null, p)
    OBVIOUS
  <2>2. mem' = Rotate(mem, h, p, d) /\ op' = [op EXCEPT ![h] = to]
    BY <1>2, <1>5, <2>1 DEF UncleIsBlack, Goto, At
  <2>3. to \in Operation /\ to.pc = "insertColor" /\ to.elm = p
    BY <1>3, <2>1, KeysNodes, AtOperation
  <2>4. Proceeds(mem, mem', h, to, keys[h], keys[h], under, rank)
    BY <1>3, <1>5, <2>2, <2>3, InnerWell
  <2>5. Keeps(op[h], to)
    BY <2>3 DEF Keeps, Detached
  <2> QED
    BY <1>1, <2>2, <2>4, <2>5, WriteStep
<1>6. ASSUME mem.child[Opposite(d)][p] # elm PROVE IInv'
  <2>2. mem' = Rotate(BlackRed(mem, p, g), h, g, Opposite(d)) /\ UNCHANGED op
    BY <1>2, <1>6 DEF UncleIsBlack
  <2>4. Proceeds(mem, mem', h, op[h], keys[h], keys[h], under, rank)
    BY <1>2, <1>3, <1>4, <1>6, <2>2, OuterWell
  <2>5. Keeps(op[h], op[h])
    BY DEF Keeps
  <2>6. op' = [op EXCEPT ![h] = op[h]]
    BY <2>2, InvAt
  <2> QED
    BY <1>1, <2>4, <2>5, <2>6, WriteStep
<1> QED
  BY <1>5, <1>6

\* RB_INSERT_COLOR ends.
LEMMA InsertDoneStep ==
  ASSUME NEW under, NEW rank, Inv(under, rank), NEW h \in Heads, InsertDone(h)
  PROVE  IInv'
<1>1. Well(mem, h, op[h], keys[h], under, rank)
  BY InvAt
<1>2. /\ op[h].pc = "insertColor" /\ IsBlack(mem, mem.parent[op[h].elm])
      /\ mem' = Paint(mem, mem.root[h], Black)
      /\ op' = [op EXCEPT ![h] = Idle] /\ UNCHANGED keys
  BY DEF InsertDone, Return
<1>3. Proceeds(mem, mem', h, Idle, keys[h], keys[h], under, rank)
  BY <1>1, <1>2, InsertDoneWell
<1>4. Keeps(op[h], Idle)
  BY DEF Keeps, Detached, Idle
<1> QED
  BY <1>2, <1>3, <1>4, WriteStep

\* RB_REMOVE takes a key out of the tree.
LEMMA UnlinkStep ==
  ASSUME NEW under, NEW rank, Inv(under, rank), NEW h \in Heads, NEW k \in keys[h],
         NEW to, NEW p, NEW n, NEW black \in BOOLEAN,
         to = IF black THEN At("removeColor", k, p, n) ELSE At("removed", k, Null, Null),
         Proceeds(mem, mem', h, to, keys[h] \ {k}, keys[h], under, rank),
         op' = [op EXCEPT ![h] = to], keys' = [keys EXCEPT ![h] = keys[h] \ {k}]
  PROVE  IInv'
<1>1. to.pc \in Detached /\ to.key = k
  BY DEF At, Detached
<1>2. k \in Keys
  BY DEF Inv, TypeOK
<1>3. Aside(to, keys[h] \ {k})
  BY <1>1, <1>2 DEF Aside
<1>4. Own(to, keys[h] \ {k}) = keys[h]
  BY <1>1 DEF Own
<1>5. keys[h] \in SUBSET Own(op[h], keys[h])
  BY DEF Own
<1> QED
  BY <1>3, <1>4, <1>5, OwnStep

\* RB_REMOVE unlinks a node with at most one child.
LEMMA UnlinkOldStep ==
  ASSUME NEW under, NEW rank, Inv(under, rank), NEW h \in Heads, UnlinkOld(h)
  PROVE  IInv'
<1>1. Well(mem, h, op[h], keys[h], under, rank)
  BY InvAt
<1>2. PICK o, K, left : o = op[h] /\ K = keys[h] /\ left = mem.child["left"][o.key]
  OBVIOUS
<1>3. PICK child : child = IF left = Null THEN mem.child["right"][o.key] ELSE left
  OBVIOUS
<1>4. PICK to : to = IF mem.color[o.key] = Black
                     THEN At("removeColor", o.key, mem.parent[o.key], child)
                     ELSE At("removed", o.key, Null, Null)
  OBVIOUS
<1>5. /\ o.pc = "remove" /\ o.elm = o.key
      /\ mem' = Splice(mem, h, o.key, child)
  BY <1>2, <1>3 DEF UnlinkOld
<1>6. op' = [op EXCEPT ![h] = to] /\ keys' = [keys EXCEPT ![h] = K \ {o.key}]
  BY <1>2, <1>3, <1>4 DEF UnlinkOld, Unlinked, Goto, At
<1>7. Well(mem, h, o, K, under, rank)
  BY <1>1, <1>2
<1>8. /\ o.key \in K
      /\ Proceeds(mem, mem', h, to, K \ {o.key}, K, under, rank)
  BY <1>2, <1>3, <1>4, <1>5, <1>7, UnlinkOldWell
<1> QED
  BY <1>2, <1>4, <1>6, <1>8, UnlinkStep

\* RB_REMOVE of a node with two children: the successor is unlinked and takes
\* its place.
LEMMA UnlinkSuccessorStep ==
  ASSUME NEW under, NEW rank, Inv(under, rank), NEW h \in Heads, UnlinkSuccessor(h)
  PROVE  IInv'
<1>1. Well(mem, h, op[h], keys[h], under, rank)
  BY InvAt
<1>2. PICK o, K : o = op[h] /\ K = keys[h]
  OBVIOUS
<1>3. PICK child, p : child = mem.child["right"][o.elm] /\ p = mem.parent[o.elm]
  OBVIOUS
<1>q. PICK q : q = IF p = o.key THEN o.elm ELSE p
  OBVIOUS
<1>4. PICK to : to = IF mem.color[o.elm] = Black
                     THEN At("removeColor", o.key, q, child)
                     ELSE At("removed", o.key, Null, Null)
  OBVIOUS
<1>5. /\ o.pc = "remove" /\ o.elm # o.key /\ mem.child["left"][o.elm] = Null
      /\ mem' = TakePlace(Splice(mem, h, o.elm, child), h, o.elm, o.key)
  BY <1>2, <1>3 DEF UnlinkSuccessor
<1>6. op' = [op EXCEPT ![h] = to] /\ keys' = [keys EXCEPT ![h] = K \ {o.key}]
  BY <1>2, <1>3, <1>q, <1>4 DEF UnlinkSuccessor, Unlinked, Goto, At
<1>7. Well(mem, h, o, K, under, rank)
  BY <1>1, <1>2
<1>8. /\ o.key \in K
      /\ Proceeds(mem, mem', h, to, K \ {o.key}, K, under, rank)
  BY <1>3, <1>q, <1>4, <1>5, <1>7, UnlinkSuccessorWell
<1> QED
  BY <1>2, <1>4, <1>6, <1>8, UnlinkStep

\* A node that is short of a black one, in the loop of RB_REMOVE_COLOR.
LEMMA ShortLaws ==
  ASSUME NEW under, NEW rank, Inv(under, rank), NEW h \in Heads, Short(h)
  PROVE  LET elm == op[h].elm
             p   == op[h].parent
         IN /\ ShortPair(mem, h, keys[h], under, rank, elm, p, ShortSide(h), Sibling(h))
            /\ op[h] \in Operation /\ op[h].pc = "removeColor" /\ op[h].key \in Nodes
            /\ p \in keys[h] /\ mem.parent[p] \in Nodes /\ p \in Nodes
            /\ op = [op EXCEPT ![h] = op[h]]
<1>1. /\ Well(mem, h, op[h], keys[h], under, rank)
      /\ op[h].key \in Nodes /\ op = [op EXCEPT ![h] = op[h]]
  BY InvAt
<1>2. op[h].pc = "removeColor" /\ op[h].elm # mem.root[h] /\ IsBlack(mem, op[h].elm)
  BY DEF Short
<1>3. ShortPair(mem, h, keys[h], under, rank, op[h].elm, op[h].parent, ShortSide(h), Sibling(h))
  BY <1>1, <1>2, SiblingLaws DEF ShortSide, Sibling
<1>4. op[h].parent \in keys[h] /\ IsTree(mem, h, keys[h], under)
  BY <1>3 DEF ShortPair
<1>5. mem.parent[op[h].parent] \in Nodes /\ op[h].parent \in Nodes
  BY <1>4, TreeTypes
<1>6. op[h] \in Operation
  BY <1>1 DEF Well
<1> QED
  BY <1>1, <1>2, <1>3, <1>4, <1>5, <1>6

\* RB_REMOVE_COLOR, with a red sibling.
LEMMA SiblingIsRedStep ==
  ASSUME NEW under, NEW rank, Inv(under, rank), NEW h \in Heads, SiblingIsRed(h)
  PROVE  IInv'
<1>1. Short(h) /\ UNCHANGED <<op, keys>>
  BY DEF SiblingIsRed
<1>2. PICK elm, p, d, sib : /\ elm = op[h].elm /\ p = op[h].parent
                            /\ d = ShortSide(h) /\ sib = Sibling(h)
  OBVIOUS
<1>3. /\ ShortPair(mem, h, keys[h], under, rank, elm, p, d, sib)
      /\ op[h] \in Operation /\ op[h].pc = "removeColor" /\ op = [op EXCEPT ![h] = op[h]]
  BY <1>1, <1>2, ShortLaws
<1>4. mem.color[sib] = Red /\ mem' = Rotate(BlackRed(mem, sib, p), h, p, d)
  BY <1>2 DEF SiblingIsRed
<1>5. Proceeds(mem, mem', h, op[h], keys[h], keys[h], under, rank)
  BY <1>2, <1>3, <1>4, SiblingIsRedWell
<1>6. Keeps(op[h], op[h]) /\ op' = [op EXCEPT ![h] = op[h]]
  BY <1>1, <1>3 DEF Keeps
<1> QED
  BY <1>1, <1>5, <1>6, WriteStep

\* RB_REMOVE_COLOR, with a black sibling that has no red child.
LEMMA NephewsAreBlackStep ==
  ASSUME NEW under, NEW rank, Inv(under, rank), NEW h \in Heads, NephewsAreBlack(h)
  PROVE  IInv'
<1>1. Short(h) /\ UNCHANGED keys
  BY DEF NephewsAreBlack
<1>2. PICK elm, p, d, sib : /\ elm = op[h].elm /\ p = op[h].parent
                            /\ d = ShortSide(h) /\ sib = Sibling(h)
  OBVIOUS
<1>3. /\ ShortPair(mem, h, keys[h], under, rank, elm, p, d, sib)
      /\ op[h].pc = "removeColor" /\ op[h].key \in Nodes /\ mem.parent[p] \in Nodes /\ p \in Nodes
  BY <1>1, <1>2, ShortLaws
<1>4. /\ mem.color[sib] = Black /\ mem' = Paint(mem, sib, Red)
      /\ IsBlack(mem, mem.child[d][sib]) /\ IsBlack(mem, mem.child[Opposite(d)][sib])
  BY <1>2 DEF NephewsAreBlack, Near, Far
<1>5. PICK to : to = At("removeColor", op[h].key, mem.parent[p], p)
  OBVIOUS
<1>6. op' = [op EXCEPT ![h] = to]
  BY <1>2, <1>5 DEF NephewsAreBlack, Goto, At
<1>7. to \in Operation /\ to.pc = "removeColor" /\ to.elm = p /\ to.parent = mem.parent[p]
  BY <1>3, <1>5, AtOperation
<1>8. Proceeds(mem, mem', h, to, keys[h], keys[h], under, rank)
  BY <1>3, <1>4, <1>7, NephewsAreBlackWell
<1>9. Keeps(op[h], to)
  BY <1>3, <1>5 DEF Keeps, Detached, At
<1> QED
  BY <1>1, <1>6, <1>8, <1>9, WriteStep

\* RB_REMOVE_COLOR, with a black sibling whose near child only is red.
LEMMA NearIsRedStep ==
  ASSUME NEW under, NEW rank, Inv(under, rank), NEW h \in Heads, NearIsRed(h)
  PROVE  IInv'
<1>1. Short(h) /\ UNCHANGED <<op, keys>>
  BY DEF NearIsRed
<1>2. PICK elm, p, d, sib : /\ elm = op[h].elm /\ p = op[h].parent
                            /\ d = ShortSide(h) /\ sib = Sibling(h)
  OBVIOUS
<1>3. /\ ShortPair(mem, h, keys[h], under, rank, elm, p, d, sib)
      /\ op[h] \in Operation /\ op[h].pc = "removeColor" /\ op = [op EXCEPT ![h] = op[h]]
  BY <1>1, <1>2, ShortLaws
<1>4. /\ mem.color[sib] = Black
      /\ ~ IsBlack(mem, mem.child[d][sib]) /\ IsBlack(mem, mem.child[Opposite(d)][sib])
      /\ mem' = Rotate(BlackRed(mem, mem.child[d][sib], sib), h, sib, Opposite(d))
  BY <1>2 DEF NearIsRed, Near, Far
<1>5. Proceeds(mem, mem', h, op[h], keys[h], keys[h], under, rank)
  BY <1>2, <1>3, <1>4, NearIsRedWell
<1>6. Keeps(op[h], op[h]) /\ op' = [op EXCEPT ![h] = op[h]]
  BY <1>1, <1>3 DEF Keeps
<1> QED
  BY <1>1, <1>5, <1>6, WriteStep

\* RB_REMOVE_COLOR, with a black sibling whose far child is red: the last turn.
LEMMA FarIsRedStep ==
  ASSUME NEW under, NEW rank, Inv(under, rank), NEW h \in Heads, FarIsRed(h)
  PROVE  IInv'
<1>1. Short(h) /\ UNCHANGED keys
  BY DEF FarIsRed
<1>2. PICK elm, p, d, sib : /\ elm = op[h].elm /\ p = op[h].parent
                            /\ d = ShortSide(h) /\ sib = Sibling(h)
  OBVIOUS
<1>3. /\ ShortPair(mem, h, keys[h], under, rank, elm, p, d, sib)
      /\ op[h].pc = "removeColor" /\ op[h].key \in Nodes
  BY <1>1, <1>2, ShortLaws
<1>q. PICK q : q = Rotate(FarPaint(mem, p, sib, mem.child[Opposite(d)][sib]), h, p, d)
  OBVIOUS
<1>4. /\ mem.color[sib] = Black /\ ~ IsBlack(mem, mem.child[Opposite(d)][sib])
      /\ mem' = Paint(q, q.root[h], Black)
  BY <1>2, <1>q DEF FarIsRed, Far, FarPaint
<1>5. PICK to : to = At("removed", op[h].key, Null, Null)
  OBVIOUS
<1>6. op' = [op EXCEPT ![h] = to]
  BY <1>5 DEF FarIsRed, Goto, At
<1>7. to \in Operation /\ to.pc = "removed"
  <2>1. op[h].key \in Nodes /\ Null \in Nodes
    BY <1>3, KeysNodes
  <2> QED
    BY <1>5, <2>1, AtOperation
<1>8. FarTurned(mem, q, mem', h, p, d, sib)
  BY <1>q, <1>4 DEF FarTurned
<1>9. Proceeds(mem, mem', h, to, keys[h], keys[h], under, rank)
  BY <1>3, <1>4, <1>7, <1>8, FarIsRedWell
<1>10. Keeps(op[h], to)
  BY <1>3, <1>5 DEF Keeps, Detached, At
<1> QED
  BY <1>1, <1>6, <1>9, <1>10, WriteStep

\* RB_REMOVE_COLOR ends otherwise.
LEMMA RemoveDoneStep ==
  ASSUME NEW under, NEW rank, Inv(under, rank), NEW h \in Heads, RemoveDone(h)
  PROVE  IInv'
<1>1. Well(mem, h, op[h], keys[h], under, rank) /\ op[h].key \in Nodes
  BY InvAt
<1>2. PICK to : to = At("removed", op[h].key, Null, Null)
  OBVIOUS
<1>3. /\ op[h].pc = "removeColor" /\ (op[h].elm # mem.root[h] => ~ IsBlack(mem, op[h].elm))
      /\ mem' = Paint(mem, op[h].elm, Black)
      /\ op' = [op EXCEPT ![h] = to] /\ UNCHANGED keys
  BY <1>2 DEF RemoveDone, Goto, At
<1>4. to \in Operation /\ to.pc = "removed"
  BY <1>1, <1>2, KeysNodes, AtOperation
<1>5. Proceeds(mem, mem', h, to, keys[h], keys[h], under, rank)
  BY <1>1, <1>3, <1>4, RemoveDoneWell
<1>6. Keeps(op[h], to)
  BY <1>2, <1>3 DEF Keeps, Detached, At
<1> QED
  BY <1>3, <1>5, <1>6, WriteStep

\* The entry that was removed is freed.
LEMMA FreeStep ==
  ASSUME NEW under, NEW rank, Inv(under, rank), NEW h \in Heads, Free(h)
  PROVE  IInv'
<1>1. /\ Well(mem, h, op[h], keys[h], under, rank)
      /\ Aside(op[h], keys[h])
      /\ keys = [keys EXCEPT ![h] = keys[h]]
  BY InvAt
<1>2. PICK k : k = op[h].key
  OBVIOUS
<1>3. op[h].pc = "removed" /\ op' = [op EXCEPT ![h] = Idle] /\ UNCHANGED keys
  BY DEF Free, Return
<1>4. Freed(mem, mem', k)
  BY <1>2 DEF Free, Freed
<1>5. k \in Keys /\ k \notin keys[h]
  BY <1>1, <1>2, <1>3 DEF Aside, Detached
<1>6. Proceeds(mem, mem', h, Idle, keys[h], keys[h] \cup {k}, under, rank)
  BY <1>1, <1>3, <1>4, <1>5, FreeWell
<1>7. Own(op[h], keys[h]) = keys[h] \cup {k} /\ Own(Idle, keys[h]) = keys[h]
  BY <1>2, <1>3 DEF Own, Detached, Idle
<1>8. Aside(Idle, keys[h])
  BY DEF Aside, Detached, Idle
<1>9. keys' = [keys EXCEPT ![h] = keys[h]]
  BY <1>1, <1>3
<1> QED
  BY <1>3, <1>6, <1>7, <1>8, <1>9, OwnStep

\* Each step that writes.
LEMMA ChangeSteps ==
  ASSUME NEW under, NEW rank, Inv(under, rank), NEW h \in Heads
  PROVE  Change(h) => IInv'
  BY InsertLinkStep, UncleIsRedStep, UncleIsBlackStep, InsertDoneStep,
     UnlinkOldStep, UnlinkSuccessorStep, SiblingIsRedStep, NephewsAreBlackStep,
     NearIsRedStep, FarIsRedStep, RemoveDoneStep, FreeStep DEF Change

-----------------------------------------------------------------------------
(* The beginning of a call                                                 *)

\* A walk begins at the root.
LEMMA BeginsAtRoot ==
  ASSUME NEW m, NEW h, NEW o, NEW K, NEW under, NEW rank, Well(m, h, o, K, under, rank),
         o.pc = "idle", NEW k \in Nodes,
         NEW to, \/ to = At("find", k, Null, m.root[h]) \/ to = At("insert", k, Null, m.root[h])
                 \/ to = At("leftmost", Null, Null, m.root[h])
  PROVE  Well(m, h, to, K, under, rank)
<1>1. IsTree(m, h, K, under)
  BY DEF Well
<1>2. /\ Linked(m, h, K) /\ under[Null] = {} /\ under[m.root[h]] = K /\ m.root[h] \in Nodes
      /\ \A j \in K : j \in Keys /\ j > Null
      /\ Null \in Nodes
  <2>1. \A j \in K : j \in Keys
    BY <1>1, TreeTypes
  <2>2. \A j \in Keys : j > Null
    BY TreeAssumption DEF Keys, Null
  <2>3. Linked(m, h, K) /\ Sorted(m, h, K, under)
    BY <1>1, TreeTypes
  <2> QED
    BY <1>1, <2>1, <2>2, <2>3, TreeTypes, KeysNodes DEF Sorted
<1>3. m.root[h] \in K \cup {Null} /\ (m.root[h] = Null => K = {})
  BY <1>2 DEF Linked
<1>4. /\ to \in Operation /\ to.pc \in {"find", "insert", "leftmost"}
      /\ to.parent = Null /\ to.elm = m.root[h]
      /\ to.pc = "leftmost" => to.key = Null
  BY <1>2 DEF At, Operation, Finding, Iterating
<1>5. Pointers(m, h, to, K, under)
  <2>1. CASE to.pc = "leftmost"
    BY <1>2, <1>3, <1>4, <2>1 DEF Pointers
  <2>2. CASE to.pc # "leftmost"
    BY <1>2, <1>3, <1>4, <2>2 DEF Pointers
  <2> QED
    BY <2>1, <2>2
<1>6. Answers(to, K)
  BY <1>4 DEF Answers
<1> QED
  BY <1>4, <1>5, <1>6, Goes

\* synchronizedMap_insert.
LEMMA InsertStep ==
  ASSUME NEW under, NEW rank, Inv(under, rank), NEW k \in Keys, Insert(k)
  PROVE  IInv'
<1>1. /\ Well(mem, Map, op[Map], keys[Map], under, rank) /\ Map \in Heads
      /\ under \in Labels /\ rank \in Ranks
      /\ keys = [keys EXCEPT ![Map] = keys[Map]]
  BY InvAt DEF Heads
<1>2. PICK to : to = At("insert", k, Null, mem.root[Map])
  OBVIOUS
<1>3. /\ op[Map].pc = "idle" /\ UNCHANGED <<mem, keys>>
      /\ op' = [op EXCEPT ![Map] = to]
      /\ \A h \in Heads : k # op[h].key /\ (h # Map => k \notin keys[h])
  BY <1>2 DEF Insert, Goto, At
<1>4. Well(mem, Map, to, keys[Map], under, rank)
  BY <1>1, <1>2, <1>3, KeysNodes, BeginsAtRoot
<1>5. Proceeds(mem, mem', Map, to, keys[Map], {}, under, rank)
  BY <1>1, <1>3, <1>4, SameProceeds
<1>6. to.pc = "insert" /\ to.key = k
  BY <1>2 DEF At
<1>7. \A g \in Heads : g # Map => Own(to, keys[Map]) \cap Own(op[g], keys[g]) = {}
  <2>1. Owned /\ op[Map].pc \notin Detached
    BY <1>3 DEF Inv, Detached
  <2>2. Own(to, keys[Map]) = keys[Map] \cup {k}
    BY <1>6 DEF Own, Detached
  <2>3. ASSUME NEW g \in Heads, g # Map PROVE Own(to, keys[Map]) \cap Own(op[g], keys[g]) = {}
    <3>1. Own(op[Map], keys[Map]) \cap Own(op[g], keys[g]) = {}
      BY <1>1, <2>1, <2>3 DEF Owned
    <3>2. keys[Map] \cap Own(op[g], keys[g]) = {}
      BY <3>1 DEF Own
    <3>3. k \notin Own(op[g], keys[g])
      BY <1>3, <2>3 DEF Own
    <3> QED
      BY <2>2, <3>2, <3>3
  <2> QED
    BY <2>3
<1>8. OneHead(Map, to, keys[Map], {}, under, rank)
  BY <1>1, <1>3, <1>5, <1>6, <1>7 DEF OneHead, Aside
<1> QED
  BY <1>1, <1>8, OneHeadKeeps

\* RB_FIND, and RB_FOREACH.
LEMMA LookStep ==
  ASSUME NEW under, NEW rank, Inv(under, rank), Foreach \/ \E k \in Keys : Find(k)
  PROVE  IInv'
<1>1. Well(mem, Map, op[Map], keys[Map], under, rank) /\ Map \in Heads
  BY InvAt DEF Heads
<1>2. PICK k, to :
        /\ k \in Nodes
        /\ op[Map].pc = "idle" /\ UNCHANGED <<mem, keys>>
        /\ op' = [op EXCEPT ![Map] = to]
        /\ \/ to = At("find", k, Null, mem.root[Map])
           \/ to = At("leftmost", Null, Null, mem.root[Map])
  BY KeysNodes DEF Foreach, Find, Goto, At
<1>3. Well(mem, Map, to, keys[Map], under, rank)
  BY <1>1, <1>2, BeginsAtRoot
<1>4. Keeps(op[Map], to)
  BY <1>2 DEF Keeps, Detached, At
<1> QED
  BY <1>1, <1>2, <1>3, <1>4, ReadStep

\* removeAll removes the root of its tree.
LEMMA SweepRootStep ==
  ASSUME NEW under, NEW rank, Inv(under, rank), NEW l \in Locals, SweepRoot(l)
  PROVE  IInv'
<1>1. Well(mem, l, op[l], keys[l], under, rank) /\ l \in Heads
  BY InvAt DEF Heads
<1>2. op[l].pc = "idle" /\ mem.root[l] # Null /\ RemoveNode(l, mem.root[l])
  BY DEF SweepRoot
<1>3. mem.root[l] \in keys[l]
  BY <1>1, <1>2, TreeTypes DEF Well, Linked
<1> QED
  BY <1>1, <1>2, <1>3, RemoveNodeStep

-----------------------------------------------------------------------------
(* Trees change heads                                                      *)

\* A head without a tree.
LEMMA EmptyWell ==
  ASSUME NEW m \in Memory, NEW h \in Heads, NEW o \in Operation, o.pc = "idle",
         NEW under \in Labels, NEW rank \in Ranks,
         m.root[h] = Null, under[Null] = {}, rank[Null] = 0
  PROVE  Well(m, h, o, {}, under, rank)
<1>1. IsTree(m, h, {}, under)
  BY DEF IsTree, Tree, Linked, Sorted, Nested
<1>2. Balanced(m, h, o, {}, rank)
  BY DEF Balanced, Ranked, Coloured, IsBlack
<1> QED
  BY <1>1, <1>2 DEF Well, Pointers, Answers

\* removeAll makes the map's tree its own.
LEMMA SweepStep ==
  ASSUME NEW under, NEW rank, Inv(under, rank), NEW l \in Locals, Sweep(l)
  PROVE  IInv'
<1>1. /\ Well(mem, Map, op[Map], keys[Map], under, rank)
      /\ Well(mem, l, op[l], keys[l], under, rank)
      /\ Map \in Heads /\ l \in Heads /\ l # Map
      /\ under \in Labels /\ rank \in Ranks
      /\ TypeOK /\ Owned
  BY InvAt, TreeAssumption DEF Heads, Inv
<1>2. /\ op[Map].pc = "idle" /\ op[l].pc = "idle" /\ mem.root[l] = Null
      /\ mem' = [mem EXCEPT !.root[l] = mem.root[Map], !.root[Map] = Null]
      /\ keys' = [keys EXCEPT ![l] = keys[Map], ![Map] = {}]
      /\ UNCHANGED op
  BY DEF Sweep
<1>3. /\ mem' \in Memory
      /\ mem'.parent = mem.parent /\ mem'.child = mem.child /\ mem'.color = mem.color
      /\ \A h \in Heads : mem'.root[h] = IF h = Map THEN Null
                                         ELSE IF h = l THEN mem.root[Map] ELSE mem.root[h]
  BY <1>1, <1>2 DEF TypeOK, Memory
<1>4. \A h \in Heads : keys'[h] = IF h = Map THEN {} ELSE IF h = l THEN keys[Map] ELSE keys[h]
  BY <1>1, <1>2 DEF TypeOK
<1>5. under[Null] = {} /\ rank[Null] = 0
  <2>1. IsTree(mem, Map, keys[Map], under) /\ Balanced(mem, Map, op[Map], keys[Map], rank)
    BY <1>1 DEF Well
  <2> QED
    BY <1>2, <2>1, TreeTypes DEF Balanced, Ranked
<1>6. TypeOK'
  <2>1. keys' \in [Heads -> SUBSET Keys]
    BY <1>1, <1>2 DEF TypeOK
  <2> QED
    BY <1>1, <1>2, <1>3, <2>1 DEF TypeOK
<1>7. Owned'
  <2>1. op[Map].pc \notin Detached /\ op[l].pc \notin Detached
    BY <1>2 DEF Detached
  <2>2. \A h \in Heads : h # l => keys'[h] \subseteq keys[h]
    BY <1>4
  <2>3. ASSUME NEW h \in Heads PROVE Aside(op[h], keys'[h])
    BY <1>1, <2>1, <2>2, <2>3 DEF Owned, Aside
  <2>4. ASSUME NEW h \in Heads, NEW g \in Heads, g # h
        PROVE  Own(op[g], keys'[g]) \cap Own(op[h], keys'[h]) = {}
    <3>1. /\ Own(op[Map], keys'[Map]) = {}
          /\ Own(op[l], keys'[l]) = Own(op[Map], keys[Map])
      BY <1>1, <1>4, <2>1 DEF Own
    <3>2. \A f \in Heads : f # l /\ f # Map => Own(op[f], keys'[f]) = Own(op[f], keys[f])
      BY <1>4
    <3>3. \A f \in Heads : f # Map => Own(op[f], keys[f]) \cap Own(op[Map], keys[Map]) = {}
      BY <1>1 DEF Owned
    <3>4. Own(op[g], keys[g]) \cap Own(op[h], keys[h]) = {}
      BY <1>1, <2>4 DEF Owned
    <3>5. CASE g = Map \/ h = Map
      BY <3>1, <3>5
    <3>6. CASE g # Map /\ h # Map /\ g = l
      BY <2>4, <3>1, <3>2, <3>3, <3>6
    <3>7. CASE g # Map /\ h # Map /\ h = l
      BY <2>4, <3>1, <3>2, <3>3, <3>7
    <3>8. CASE g # Map /\ h # Map /\ g # l /\ h # l
      BY <3>2, <3>4, <3>8
    <3> QED
      BY <3>5, <3>6, <3>7, <3>8
  <2> QED
    BY <1>2, <2>3, <2>4 DEF Owned
<1>8. ASSUME NEW h \in Heads PROVE Well(mem', h, op[h], keys'[h], under, rank)
  <2>1. CASE h = Map
    <3>1. op[Map] \in Operation
      BY <1>1 DEF Well
    <3>2. mem'.root[Map] = Null /\ keys'[Map] = {}
      BY <1>1, <1>3, <1>4
    <3> QED
      BY <1>1, <1>2, <1>3, <1>5, <2>1, <3>1, <3>2, EmptyWell
  <2>2. CASE h = l
    <3>1. mem'.root[l] = mem.root[Map] /\ keys'[l] = keys[Map]
      BY <1>1, <1>3, <1>4
    <3>2. Well(mem', l, op[Map], keys[Map], under, rank)
      BY <1>1, <1>3, <3>1, SameWell
    <3>3. op[l] \in Operation
      BY <1>1 DEF Well
    <3>4. Pointers(mem', l, op[l], keys[Map], under) /\ Answers(op[l], keys[Map])
      BY <1>2 DEF Pointers, Answers
    <3>5. Well(mem', l, op[l], keys[Map], under, rank)
      BY <1>2, <3>2, <3>3, <3>4, Goes
    <3> QED
      BY <2>2, <3>1, <3>5
  <2>3. CASE h # Map /\ h # l
    <3>1. mem'.root[h] = mem.root[h] /\ keys'[h] = keys[h]
      BY <1>3, <1>4, <2>3
    <3>2. Well(mem, h, op[h], keys[h], under, rank)
      BY InvAt
    <3> QED
      BY <1>1, <1>3, <3>1, <3>2, SameWell
  <2> QED
    BY <2>1, <2>2, <2>3
<1>9. Inv(under, rank)'
  BY <1>1, <1>2, <1>6, <1>7, <1>8 DEF Inv
<1> QED
  BY <1>9 DEF IInv

-----------------------------------------------------------------------------
(* The invariant is inductive                                              *)

\* The trees are empty at first.
LEMMA InitIInv == Init => IInv
<1> SUFFICES ASSUME Init PROVE IInv
  OBVIOUS
<1>1. PICK under, rank : under = [n \in Nodes |-> {}] /\ rank = [n \in Nodes |-> 0]
  OBVIOUS
<1>2. under \in Labels /\ rank \in Ranks /\ under[Null] = {} /\ rank[Null] = 0
  BY <1>1, KeysNodes DEF Labels, Ranks
<1>3. Idle \in Operation /\ Idle.pc = "idle"
  BY KeysNodes DEF Idle, Operation
<1>4. mem \in Memory /\ \A h \in Heads : mem.root[h] = Null
  BY KeysNodes DEF Init, Memory
<1>5. \A h \in Heads : op[h] = Idle /\ keys[h] = {}
  BY DEF Init
<1>6. TypeOK
  BY <1>3, <1>4 DEF Init, TypeOK
<1>7. Owned
  BY <1>3, <1>5 DEF Owned, Aside, Own, Detached
<1>8. \A h \in Heads : Well(mem, h, op[h], keys[h], under, rank)
  BY <1>2, <1>3, <1>4, <1>5, EmptyWell
<1>9. Inv(under, rank)
  BY <1>2, <1>6, <1>7, <1>8 DEF Inv
<1> QED
  BY <1>9 DEF IInv

\* It does not depend on anything else.
LEMMA StutterIInv == IInv /\ UNCHANGED vars => IInv'
  BY DEF IInv, Inv, vars, TypeOK, Owned, Aside

\* Every step keeps it.
LEMMA NextIInv == IInv /\ Next => IInv'
<1> SUFFICES ASSUME IInv, Next PROVE IInv'
  OBVIOUS
<1>1. PICK under, rank : Inv(under, rank)
  BY DEF IInv
<1>2. CASE \E k \in Keys : Insert(k)
  BY <1>1, <1>2, InsertStep
<1>3. CASE Foreach \/ \E k \in Keys : Find(k)
  BY <1>1, <1>3, LookStep
<1>4. CASE \E l \in Locals : Sweep(l)
  BY <1>1, <1>4, SweepStep
<1>5. CASE \E l \in Locals : SweepRoot(l)
  BY <1>1, <1>5, SweepRootStep
<1>6. CASE \E h \in Heads : Walk(h)
  BY <1>1, <1>6, WalkSteps
<1>7. CASE \E h \in Heads : Change(h)
  BY <1>1, <1>7, ChangeSteps
<1> QED
  BY <1>2, <1>3, <1>4, <1>5, <1>6, <1>7 DEF Next

\* Hence it always holds.
LEMMA Inductive == Spec => []IInv
<1>1. IInv /\ [Next]_vars => IInv'
  BY NextIInv, StutterIInv
<1> QED
  BY <1>1, InitIInv, PTL DEF Spec

-----------------------------------------------------------------------------
(* The properties                                                          *)

\* The memory, the operations and the histories keep their types.
THEOREM TypesAlwaysOK == Spec => []TypeOK
<1>1. IInv => TypeOK
  BY DEF IInv, Inv
<1> QED
  BY <1>1, Inductive, PTL

\* A lookup finds just what is in the tree, and an iteration visits it in order.
THEOREM AlwaysTheSetOfItsKeys == Spec => []IsTheSetOfItsKeys
<1>1. IInv => IsTheSetOfItsKeys
  BY DEF IInv, Inv, Well, IsTheSetOfItsKeys
<1> QED
  BY <1>1, Inductive, PTL

\* The links of every tree agree, and no two trees share a node.
THEOREM LinksAlwaysAgree == Spec => []LinksAgree
<1>1. ASSUME IInv PROVE LinksAgree
  <2>1. PICK under, rank : Inv(under, rank)
    BY <1>1 DEF IInv
  <2>2. ASSUME NEW h \in Heads
        PROVE  Linked(mem, h, keys[h]) /\ (mem.root[h] = Null <=> keys[h] = {})
    <3>1. Linked(mem, h, keys[h]) /\ Sorted(mem, h, keys[h], under)
      BY <2>1, InvAt, TreeTypes DEF Well
    <3> QED
      BY <3>1 DEF Linked, Sorted
  <2>3. ASSUME NEW h \in Heads, NEW g \in Heads, g # h PROVE keys[g] \cap keys[h] = {}
    <3>1. Own(op[g], keys[g]) \cap Own(op[h], keys[h]) = {}
      BY <2>1, <2>3 DEF Inv, Owned
    <3> QED
      BY <3>1 DEF Own
  <2> QED
    BY <2>2, <2>3 DEF LinksAgree
<1> QED
  BY <1>1, Inductive, PTL

\* Red nodes have black children and the root is black, except in the loops that
\* restore this, which never follow a NULL.
THEOREM AlwaysRedBlack == Spec => []RedBlack
<1>1. ASSUME IInv PROVE RedBlack
  <2>1. PICK under, rank : Inv(under, rank)
    BY <1>1 DEF IInv
  <2>2. ASSUME NEW h \in Heads, op[h].pc \notin {"insertColor", "removeColor"}
        PROVE  /\ IsBlack(mem, mem.root[h])
               /\ \A k \in keys[h], d \in Sides :
                    mem.color[k] = Red => IsBlack(mem, mem.child[d][k])
    <3>1. Well(mem, h, op[h], keys[h], under, rank)
      BY <2>1, InvAt
    <3>2. Coloured(mem, h, keys[h], Null, Null)
      BY <2>2, <3>1 DEF Well, Balanced
    <3>3. \A k \in keys[h] : k # Null
      BY <3>1, TreeTypes DEF Well
    <3> QED
      BY <3>2, <3>3 DEF Coloured, IsBlack
  <2>3. ASSUME NEW h \in Heads, RedRed(h) PROVE mem.parent[mem.parent[op[h].elm]] # Null
    <3>1. PICK elm, p, g, d : /\ elm = op[h].elm /\ p = mem.parent[elm] /\ g = mem.parent[p]
                              /\ d = SideOf(mem, g, p)
      OBVIOUS
    <3>2. RedPair(mem, h, keys[h], under, rank, elm, p, g, d)
      BY <2>1, <2>3, <3>1, RedRedLaws
    <3> QED
      BY <3>1, <3>2 DEF RedPair
  <2>4. ASSUME NEW h \in Heads, Short(h) PROVE op[h].parent # Null /\ Sibling(h) # Null
    <3>1. ShortPair(mem, h, keys[h], under, rank, op[h].elm, op[h].parent, ShortSide(h), Sibling(h))
      BY <2>1, <2>4, ShortLaws
    <3>2. /\ IsTree(mem, h, keys[h], under)
          /\ op[h].parent \in keys[h] /\ Sibling(h) \in keys[h]
      BY <3>1 DEF ShortPair
    <3> QED
      BY <3>2, TreeTypes
  <2> QED
    BY <2>2, <2>3, <2>4 DEF RedBlack
<1> QED
  BY <1>1, Inductive, PTL

\* All paths from a node down have the same number of black nodes, in every tree
\* that no removal is restoring.
THEOREM AlwaysBalanced == Spec => []BlackHeightsAgree
<1>1. ASSUME IInv PROVE BlackHeightsAgree
  <2>1. PICK under, rank : Inv(under, rank)
    BY <1>1 DEF IInv
  <2>2. rank \in [Nodes -> Nat]
    BY <2>1 DEF Inv, Ranks
  <2>3. ASSUME NEW h \in Heads, op[h].pc # "removeColor"
        PROVE  Ranked(mem, keys[h], rank, Null, "left")
    <3>1. Well(mem, h, op[h], keys[h], under, rank)
      BY <2>1, InvAt
    <3> QED
      BY <2>3, <3>1 DEF Well, Balanced
  <2> QED
    BY <2>2, <2>3 DEF BlackHeightsAgree
<1> QED
  BY <1>1, Inductive, PTL
=============================================================================
