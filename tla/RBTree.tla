------------------------------- MODULE RBTree -------------------------------
(***************************************************************************)
(* The red-black tree under the synchronized map: the macros of            *)
(* src/mama/systree.h as mamaSynchronizedMap.c instantiates them.          *)
(*                                                                         *)
(* A node is its key (the key is an address, and comparing keys is all     *)
(* synchronizedMap_compare does).  The map has one head; each removeAll    *)
(* copies its root into a head of its own and empties that tree without    *)
(* the map's lock, so that several trees share one heap of nodes and       *)
(* change at the same time.  On one head there is one operation at a time: *)
(* the map's lock sees to that, and a local head has one thread.           *)
(*                                                                         *)
(* Each turn of a loop is a step.  A turn of the two loops that restore    *)
(* the colours has up to three rotations in the code; here each of them    *)
(* is a step that leads back to the head of the loop, whose tests then     *)
(* come out as before.  The macros come in mirrored pairs; an operator     *)
(* with a side stands for both of a pair, branch by branch.                *)
(*                                                                         *)
(* A NULL that the macros would dereference is outside the domains below:  *)
(* evaluating it is an error, so a run that ends has met none.             *)
(***************************************************************************)
EXTENDS Integers

CONSTANTS
    N,       \* keys, and so entries that may be in the trees
    Locals   \* local heads: calls of removeAll

Map == "map"

ASSUME TreeAssumption == N \in Nat /\ Map \notin Locals

Keys  == 1..N
Null  == 0
Nodes == Keys \cup {Null}
Heads == {Map} \cup Locals
Sides == {"left", "right"}
Black == 0
Red   == 1

VARIABLES
    mem,     \* root of each head; children, parent and colour of each node
    op,      \* the operation on each head: where it is, and its pointers
    keys     \* history: what has been put under each head and not taken out

vars == <<mem, op, keys>>

Memory ==
    [root : [Heads -> Nodes], child : [Sides -> [Keys -> Nodes]],
     parent : [Keys -> Nodes], color : [Keys -> {Black, Red}]]

Finding   == {"find", "answer"}
Removing  == {"remove", "removeColor", "removed"}
Iterating == {"leftmost", "ascend", "visit"}

\* key: what is inserted, looked up or removed, or was visited last.
Operation ==
    [pc : {"idle", "insert", "insertColor"} \cup Finding \cup Removing \cup Iterating,
     key : Nodes, parent : Nodes, elm : Nodes]

TypeOK ==
    /\ mem \in Memory
    /\ op \in [Heads -> Operation]
    /\ keys \in [Heads -> SUBSET Keys]

Idle == [pc |-> "idle", key |-> Null, parent |-> Null, elm |-> Null]

\* RB_INIT of an empty map; calloc has cleared the nodes.
Init ==
    /\ mem = [root   |-> [h \in Heads |-> Null],
              child  |-> [d \in Sides |-> [k \in Keys |-> Null]],
              parent |-> [k \in Keys |-> Null],
              color  |-> [k \in Keys |-> Black]]
    /\ op = [h \in Heads |-> Idle]
    /\ keys = [h \in Heads |-> {}]

Goto(h, place, k, p, n) ==
    op' = [op EXCEPT ![h] = [pc |-> place, key |-> k, parent |-> p, elm |-> n]]

\* The pointer goes on to n, and nothing is written.
Move(h, place, n) ==
    /\ Goto(h, place, op[h].key, op[h].parent, n)
    /\ UNCHANGED <<mem, keys>>

Return(h) == op' = [op EXCEPT ![h] = Idle]

-----------------------------------------------------------------------------
(* Links and colours                                                       *)

Opposite(d) == IF d = "left" THEN "right" ELSE "left"

\* The side of node p that n hangs on.
SideOf(m, p, n) == IF m.child["left"][p] = n THEN "left" ELSE "right"

\* The side on which k belongs, seen from n.
SideFor(k, n) == IF k < n THEN "left" ELSE "right"

SetParent(m, n, p) == IF n = Null THEN m ELSE [m EXCEPT !.parent[n] = p]

Paint(m, n, c) == IF n = Null THEN m ELSE [m EXCEPT !.color[n] = c]

\* RB_SET_BLACKRED
BlackRed(m, black, red) == [m EXCEPT !.color[black] = Black, !.color[red] = Red]

IsBlack(m, n) == n # Null => m.color[n] = Black

\* Whatever led to old, from its parent p or from the head, leads to new.
Replace(m, h, p, old, new) ==
    IF p = Null THEN [m EXCEPT !.root[h] = new]
    ELSE [m EXCEPT !.child[SideOf(m, p, old)][p] = new]

\* (mutant) the inner child keeps its old parent.
RotateForgetsParent(m, h, elm, d) ==
    LET o     == Opposite(d)
        tmp   == m.child[o][elm]
        up    == m.parent[elm]
        m1    == [m EXCEPT !.child[o][elm] = m.child[d][tmp], !.parent[tmp] = up]
    IN [Replace(m1, h, up, elm, tmp) EXCEPT !.child[d][tmp] = elm, !.parent[elm] = tmp]

\* RB_ROTATE_LEFT and RB_ROTATE_RIGHT: elm goes down on side d.
Rotate(m, h, elm, d) ==
    LET o     == Opposite(d)
        tmp   == m.child[o][elm]
        inner == m.child[d][tmp]
        up    == m.parent[elm]
        m1    == SetParent([m EXCEPT !.child[o][elm] = inner], inner, elm)
        m2    == Replace([m1 EXCEPT !.parent[tmp] = up], h, up, elm, tmp)
    IN [m2 EXCEPT !.child[d][tmp] = elm, !.parent[elm] = tmp]

-----------------------------------------------------------------------------
(* RB_FIND, for synchronizedMap_remove and synchronizedMap_for             *)

Find(k) ==
    /\ op[Map].pc = "idle"
    /\ Goto(Map, "find", k, Null, mem.root[Map])
    /\ UNCHANGED <<mem, keys>>

FindDescend(h) ==
    LET n == op[h].elm IN
    /\ op[h].pc = "find"
    /\ n \notin {Null, op[h].key}
    /\ Move(h, "find", mem.child[SideFor(op[h].key, n)][n])

FindEnd(h) ==
    /\ op[h].pc = "find"
    /\ op[h].elm \in {Null, op[h].key}
    /\ Move(h, "answer", op[h].elm)

-----------------------------------------------------------------------------
(* RB_FOREACH: RB_MIN, and RB_NEXT until there is none                     *)

Foreach ==
    /\ op[Map].pc = "idle"
    /\ Goto(Map, "leftmost", Null, Null, mem.root[Map])
    /\ UNCHANGED <<mem, keys>>

LeftmostDescend(h) ==
    LET n == op[h].elm IN
    /\ op[h].pc = "leftmost"
    /\ n # Null /\ mem.child["left"][n] # Null
    /\ Move(h, "leftmost", mem.child["left"][n])

LeftmostEnd(h) ==
    LET n == op[h].elm IN
    /\ op[h].pc = "leftmost"
    /\ n # Null => mem.child["left"][n] = Null
    /\ Move(h, "visit", n)

\* RB_NEXT of the entry that was visited.
Following(h) ==
    LET n == op[h].elm
        right == mem.child["right"][n]
    IN
    /\ op[h].pc = "visit"
    /\ n # Null
    /\ IF right # Null THEN Goto(h, "leftmost", n, Null, right)
       ELSE Goto(h, "ascend", n, Null, n)
    /\ UNCHANGED <<mem, keys>>

\* (mutant) goes up once.
AscendOnce(h) ==
    /\ op[h].pc = "ascend"
    /\ Move(h, "visit", mem.parent[op[h].elm])

\* Up while the node is a right child, and once more.
Ascend(h) ==
    LET p == mem.parent[op[h].elm] IN
    /\ op[h].pc = "ascend"
    /\ IF p # Null /\ mem.child["left"][p] # op[h].elm
       THEN Move(h, "ascend", p)
       ELSE Move(h, "visit", p)

\* The map's call returns with what it has found, or after the last entry, or
\* earlier when a callback has failed.
CallEnds(h) ==
    /\ op[h].pc \in {"answer", "visit"}
    /\ Return(h)
    /\ UNCHANGED <<mem, keys>>

-----------------------------------------------------------------------------
(* RB_INSERT                                                               *)

\* synchronizedMap_insert of an object that is not being taken out.  It may be in
\* the map already: the new entry with its key is then never linked.
Insert(k) ==
    /\ op[Map].pc = "idle"
    /\ \A h \in Heads : k # op[h].key /\ (h # Map => k \notin keys[h])
    /\ Goto(Map, "insert", k, Null, mem.root[Map])
    /\ UNCHANGED <<mem, keys>>

InsertDescend(h) ==
    LET k == op[h].key
        n == op[h].elm
    IN
    /\ op[h].pc = "insert"
    /\ n \notin {Null, k}
    /\ Goto(h, "insert", k, n, mem.child[SideFor(k, n)][n])
    /\ UNCHANGED <<mem, keys>>

\* An equal key: RB_INSERT returns, and synchronizedMap_insert does not ask what.
InsertEqual(h) ==
    /\ op[h].pc = "insert"
    /\ op[h].elm # Null /\ op[h].elm = op[h].key
    /\ Return(h)
    /\ UNCHANGED <<mem, keys>>

\* RB_SET, and the link from p or from the head.
Link(m, h, k, p) ==
    LET m1 == [m EXCEPT !.parent[k] = p, !.child["left"][k] = Null,
                        !.child["right"][k] = Null, !.color[k] = Red]
    IN IF p = Null THEN [m1 EXCEPT !.root[h] = k]
       ELSE [m1 EXCEPT !.child[SideFor(k, p)][p] = k]

InsertLink(h) ==
    LET k == op[h].key IN
    /\ op[h].pc = "insert"
    /\ op[h].elm = Null
    /\ mem' = Link(mem, h, k, op[h].parent)
    /\ keys' = [keys EXCEPT ![h] = @ \cup {k}]
    /\ Goto(h, "insertColor", k, Null, k)

\* The loop of RB_INSERT_COLOR goes on: elm and its parent are red.
RedRed(h) ==
    /\ op[h].pc = "insertColor"
    /\ ~IsBlack(mem, mem.parent[op[h].elm])

UncleIsRed(h) ==
    LET p     == mem.parent[op[h].elm]
        g     == mem.parent[p]
        uncle == mem.child[Opposite(SideOf(mem, g, p))][g]
    IN
    /\ RedRed(h)
    /\ ~IsBlack(mem, uncle)
    /\ mem' = BlackRed(Paint(mem, uncle, Black), p, g)
    /\ Goto(h, "insertColor", op[h].key, Null, g)
    /\ UNCHANGED keys

UncleIsBlack(h) ==
    LET elm == op[h].elm
        p   == mem.parent[elm]
        g   == mem.parent[p]
        d   == SideOf(mem, g, p)
        o   == Opposite(d)
    IN
    /\ RedRed(h)
    /\ IsBlack(mem, mem.child[o][g])
    /\ UNCHANGED keys
    /\ \/ /\ mem.child[o][p] = elm      \* an inner child changes places with p
          /\ mem' = Rotate(mem, h, p, d)
          /\ Goto(h, "insertColor", op[h].key, Null, p)
       \/ /\ mem.child[o][p] # elm
          /\ mem' = Rotate(BlackRed(mem, p, g), h, g, o)
          /\ UNCHANGED op

InsertDone(h) ==
    /\ op[h].pc = "insertColor"
    /\ IsBlack(mem, mem.parent[op[h].elm])
    /\ mem' = Paint(mem, mem.root[h], Black)
    /\ Return(h)
    /\ UNCHANGED keys

-----------------------------------------------------------------------------
(* RB_REMOVE                                                               *)

\* An old with two children is replaced by its successor.
RemoveNode(h, old) ==
    LET right == mem.child["right"][old] IN
    /\ Goto(h, "remove", old, Null,
            IF mem.child["left"][old] # Null /\ right # Null THEN right ELSE old)
    /\ UNCHANGED <<mem, keys>>

\* synchronizedMap_remove of an entry that RB_FIND has found.
Remove(h) ==
    /\ op[h].pc = "answer"
    /\ op[h].elm # Null
    /\ RemoveNode(h, op[h].elm)

\* The loop of synchronizedMap_removeAll: remove the root of the local tree.
SweepRoot(l) ==
    /\ op[l].pc = "idle"
    /\ mem.root[l] # Null
    /\ RemoveNode(l, mem.root[l])

SuccessorDescend(h) ==
    LET n == op[h].elm IN
    /\ op[h].pc = "remove"
    /\ n # op[h].key
    /\ mem.child["left"][n] # Null
    /\ Move(h, "remove", mem.child["left"][n])

\* Unlink elm, which has at most one child.
Splice(m, h, elm, child) ==
    Replace(SetParent(m, child, m.parent[elm]), h, m.parent[elm], elm, child)

\* succ takes the place of old: its fields, and the links of its neighbours.
TakePlace(m, h, succ, old) ==
    LET m1 == [m EXCEPT !.child["left"][succ]  = m.child["left"][old],
                        !.child["right"][succ] = m.child["right"][old],
                        !.parent[succ] = m.parent[old],
                        !.color[succ]  = m.color[old]]
        m2 == Replace(m1, h, m.parent[old], old, succ)
    IN SetParent(SetParent(m2, m.child["left"][old], succ), m.child["right"][old], succ)

\* elm is out of its place, where child now hangs on p; a black node is missed.
Unlinked(h, elm, p, child) ==
    /\ keys' = [keys EXCEPT ![h] = @ \ {op[h].key}]
    /\ IF mem.color[elm] = Black
       THEN Goto(h, "removeColor", op[h].key, p, child)
       ELSE Goto(h, "removed", op[h].key, Null, Null)

UnlinkOld(h) ==
    LET old   == op[h].key
        left  == mem.child["left"][old]
        child == IF left = Null THEN mem.child["right"][old] ELSE left
    IN
    /\ op[h].pc = "remove"
    /\ op[h].elm = old
    /\ mem' = Splice(mem, h, old, child)
    /\ Unlinked(h, old, mem.parent[old], child)

UnlinkSuccessor(h) ==
    LET old   == op[h].key
        elm   == op[h].elm
        child == mem.child["right"][elm]
        p     == mem.parent[elm]
    IN
    /\ op[h].pc = "remove"
    /\ elm # old
    /\ mem.child["left"][elm] = Null
    /\ mem' = TakePlace(Splice(mem, h, elm, child), h, elm, old)
    /\ Unlinked(h, elm, IF p = old THEN elm ELSE p, child)

\* The loop of RB_REMOVE_COLOR goes on: elm, a child of p or NULL, has one
\* black node too few below it.
Short(h) ==
    /\ op[h].pc = "removeColor"
    /\ op[h].elm # mem.root[h]
    /\ IsBlack(mem, op[h].elm)

ShortSide(h) == SideOf(mem, op[h].parent, op[h].elm)

\* tmp in the code.
Sibling(h) == mem.child[Opposite(ShortSide(h))][op[h].parent]
Near(h)    == mem.child[ShortSide(h)][Sibling(h)]
Far(h)     == mem.child[Opposite(ShortSide(h))][Sibling(h)]

SiblingIsRed(h) ==
    LET p == op[h].parent IN
    /\ Short(h)
    /\ mem.color[Sibling(h)] = Red
    /\ mem' = Rotate(BlackRed(mem, Sibling(h), p), h, p, ShortSide(h))
    /\ UNCHANGED <<op, keys>>

NephewsAreBlack(h) ==
    LET p == op[h].parent IN
    /\ Short(h)
    /\ mem.color[Sibling(h)] = Black
    /\ IsBlack(mem, Near(h)) /\ IsBlack(mem, Far(h))
    /\ mem' = Paint(mem, Sibling(h), Red)
    /\ Goto(h, "removeColor", op[h].key, mem.parent[p], p)
    /\ UNCHANGED keys

NearIsRed(h) ==
    /\ Short(h)
    /\ mem.color[Sibling(h)] = Black
    /\ ~IsBlack(mem, Near(h)) /\ IsBlack(mem, Far(h))
    /\ mem' = Rotate(BlackRed(mem, Near(h), Sibling(h)), h, Sibling(h), Opposite(ShortSide(h)))
    /\ UNCHANGED <<op, keys>>

\* (mutant) the sibling does not get its parent's colour.
FarIsRedKeepsColor(h) ==
    LET p  == op[h].parent
        m1 == [mem EXCEPT !.color[p] = Black]
        m2 == Rotate(Paint(m1, Far(h), Black), h, p, ShortSide(h))
    IN
    /\ Short(h)
    /\ mem.color[Sibling(h)] = Black
    /\ ~IsBlack(mem, Far(h))
    /\ mem' = Paint(m2, m2.root[h], Black)
    /\ Goto(h, "removed", op[h].key, Null, Null)
    /\ UNCHANGED keys

FarIsRed(h) ==
    LET p   == op[h].parent
        sib == Sibling(h)
        m1  == [mem EXCEPT !.color[sib] = mem.color[p], !.color[p] = Black]
        m2  == Rotate(Paint(m1, Far(h), Black), h, p, ShortSide(h))
    IN
    /\ Short(h)
    /\ mem.color[sib] = Black
    /\ ~IsBlack(mem, Far(h))
    /\ mem' = Paint(m2, m2.root[h], Black)
    /\ Goto(h, "removed", op[h].key, Null, Null)
    /\ UNCHANGED keys

RemoveDone(h) ==
    /\ op[h].pc = "removeColor"
    /\ op[h].elm # mem.root[h] => ~IsBlack(mem, op[h].elm)
    /\ mem' = Paint(mem, op[h].elm, Black)
    /\ Goto(h, "removed", op[h].key, Null, Null)
    /\ UNCHANGED keys

\* The caller frees the entry.  Nobody else can reach it, so that it makes no
\* difference that the map's lock is let go just before.
Free(h) ==
    LET k == op[h].key IN
    /\ op[h].pc = "removed"
    /\ mem' = [mem EXCEPT !.child["left"][k] = Null, !.child["right"][k] = Null,
                          !.parent[k] = Null, !.color[k] = Black]
    /\ Return(h)
    /\ UNCHANGED keys

-----------------------------------------------------------------------------
\* synchronizedMap_removeAll: RB_COPY to the local head, RB_INIT of the map's.
Sweep(l) ==
    /\ op[Map].pc = "idle" /\ op[l].pc = "idle"
    /\ mem.root[l] = Null /\ mem.root[Map] # Null
    /\ mem' = [mem EXCEPT !.root[l] = mem.root[Map], !.root[Map] = Null]
    /\ keys' = [keys EXCEPT ![l] = keys[Map], ![Map] = {}]
    /\ UNCHANGED op

Walk(h) ==
    \/ FindDescend(h) \/ FindEnd(h)
    \/ LeftmostDescend(h) \/ LeftmostEnd(h) \/ Following(h) \/ Ascend(h)
    \/ InsertDescend(h) \/ InsertEqual(h) \/ SuccessorDescend(h)
    \/ Remove(h)
    \/ CallEnds(h)

Change(h) ==
    \/ InsertLink(h) \/ UncleIsRed(h) \/ UncleIsBlack(h) \/ InsertDone(h)
    \/ UnlinkOld(h) \/ UnlinkSuccessor(h)
    \/ SiblingIsRed(h) \/ NephewsAreBlack(h) \/ NearIsRed(h) \/ FarIsRed(h)
    \/ RemoveDone(h) \/ Free(h)

Next ==
    \/ \E k \in Keys : Insert(k) \/ Find(k)
    \/ Foreach
    \/ \E l \in Locals : Sweep(l) \/ SweepRoot(l)
    \/ \E h \in Heads : Walk(h) \/ Change(h)

\* The thread of an operation that has begun runs on.
Fairness == \A h \in Heads : WF_vars(Walk(h) \/ Change(h))

Spec == Init /\ [][Next]_vars /\ Fairness

-----------------------------------------------------------------------------
(* Properties                                                              *)

\* What the operation o answers, when the keys in the tree are K.
Answers(o, K) ==
    /\ o.pc = "answer" => o.elm = IF o.key \in K THEN o.key ELSE Null
    /\ o.pc = "visit" =>
         /\ o.elm # Null => o.elm \in K /\ o.key < o.elm
         /\ \A j \in K : o.key < j => o.elm # Null /\ o.elm <= j

\* The tree is the set of its keys, which is all that SynchronizedMap knows of
\* it: RB_FIND returns the entry just when it has been inserted and not removed,
\* and RB_FOREACH goes from each key to the next greater one, from the least to
\* the last (mamaSynchronizedMap.c:98, :165, :209).
IsTheSetOfItsKeys == \A h \in Heads : Answers(op[h], keys[h])

\* The links of the tree with keys K agree in both directions.
Linked(m, h, K) ==
    /\ m.root[h] # Null => m.root[h] \in K /\ m.parent[m.root[h]] = Null
    /\ \A k \in K :
         /\ \A d \in Sides : m.child[d][k] # Null =>
              m.child[d][k] \in K /\ m.parent[m.child[d][k]] = k
         /\ m.parent[k] # Null =>
              m.parent[k] \in K /\ \E d \in Sides : m.child[d][m.parent[k]] = k
         /\ m.parent[k] = Null => m.root[h] = k

\* The links agree in both directions, a head is NULL just when its tree is
\* empty, and no node is in two trees, so that the tree removeAll works on
\* without the lock is its own (mamaSynchronizedMap.c:238-261).
LinksAgree ==
    \A h \in Heads :
        /\ Linked(mem, h, keys[h])
        /\ mem.root[h] = Null <=> keys[h] = {}
        /\ \A g \in Heads : g # h => keys[g] \cap keys[h] = {}

\* Between two operations the root is black and a red node has black children.
\* In the loops that get there the nodes are there that the macros take for
\* granted: a red parent has a parent (systree.h:415), and a node that is short
\* of a black one has a sibling (systree.h:460).
RedBlack ==
    \A h \in Heads :
        /\ op[h].pc \notin {"insertColor", "removeColor"} =>
             /\ IsBlack(mem, mem.root[h])
             /\ \A k \in keys[h], d \in Sides :
                  mem.color[k] = Red => IsBlack(mem, mem.child[d][k])
        /\ RedRed(h) => mem.parent[mem.parent[op[h].elm]] # Null
        /\ Short(h) => op[h].parent # Null /\ Sibling(h) # Null

\* Every loop of the macros ends: a walk gets to the bottom, or to the root, an
\* enumeration to the last entry, and the colours come right (systree.h:412, :456,
\* :603, :671, :678).
OperationsEnd == \A h \in Heads : op[h].pc # "idle" ~> op[h].pc = "idle"

-----------------------------------------------------------------------------
(***************************************************************************)
(* Why they hold.  Label each node with the set of the keys under it,      *)
(* itself among them, and with the number of black nodes on a path from it *)
(* down.  What the labels of a node have to do with those of its children  *)
(* says that the links form a search tree and that it is balanced, without *)
(* any recursion, and each step of an operation changes few of them.       *)
(***************************************************************************)
Before(d, j, k) == IF d = "left" THEN j < k ELSE k < j

\* under labels the nodes of K with the keys below them, which are on the right
\* side of each node.
Sorted(m, h, K, under) ==
    /\ under[Null] = {}
    /\ under[m.root[h]] = K
    /\ \A k \in K :
         /\ under[k] \subseteq K
         /\ under[k] = {k} \cup under[m.child["left"][k]] \cup under[m.child["right"][k]]
         /\ \A d \in Sides : \A j \in under[m.child[d][k]] : Before(d, j, k)

\* The sets are nested as the nodes are, and no key of K lies between two keys
\* of a set that it is not in.
Nested(m, K, under) ==
    \A k \in K : \A j \in under[k] :
        /\ under[j] \subseteq under[k]
        /\ j # k => m.parent[j] \in under[k]
        /\ \A i \in K \ under[k] : j < i <=> k < i

Tree(m, h, K, under) == Linked(m, h, K) /\ Sorted(m, h, K, under) /\ Nested(m, K, under)

Blacks(m, k) == IF m.color[k] = Black THEN 1 ELSE 0

\* rank labels the nodes of K with the black nodes on each path down, of which
\* the paths through p's child on side d have one too few.
Ranked(m, K, rank, p, d) ==
    /\ rank[Null] = 0
    /\ \A k \in K, e \in Sides :
         rank[k] = rank[m.child[e][k]] + Blacks(m, k) + (IF k = p /\ e = d THEN 1 ELSE 0)

\* The paths from a node down to NULL have the same number of black nodes, in
\* each tree but while a removal restores that.
BlackHeightsAgree ==
    \E rank \in [Nodes -> Nat] :
        \A h \in Heads : op[h].pc # "removeColor" =>
            Ranked(mem, keys[h], rank, Null, "left")

\* A red node is not the root and has no red child, except that low may be the
\* root or a red child, and top may have one.
Coloured(m, h, K, low, top) ==
    /\ m.root[h] # low => IsBlack(m, m.root[h])
    /\ \A k \in K, d \in Sides :
         m.color[k] = Red /\ k # top /\ m.child[d][k] # low => IsBlack(m, m.child[d][k])

\* What the colours are like where operation o is.
Balanced(m, h, o, K, rank) ==
    /\ o.pc = "insertColor" =>
         /\ Ranked(m, K, rank, Null, "left")
         /\ Coloured(m, h, K, o.elm, Null)
         /\ o.elm \in K /\ m.color[o.elm] = Red
    /\ o.pc = "removeColor" =>
         /\ \E d \in Sides :
              /\ Ranked(m, K, rank, o.parent, d)
              /\ o.parent # Null => m.child[d][o.parent] = o.elm
         /\ Coloured(m, h, K, o.elm, o.elm)
         /\ o.elm \in K \cup {Null}
         /\ o.parent = Null => o.elm = m.root[h]
         /\ o.parent # Null => o.parent \in K
    /\ o.pc \notin {"insertColor", "removeColor"} =>
         /\ Ranked(m, K, rank, Null, "left")
         /\ Coloured(m, h, K, Null, Null)

\* Where the pointers of operation o are.
Pointers(m, h, o, K, under) ==
    /\ o.pc \in {"find", "insert", "leftmost"} => o.elm \in K \cup {Null}
    /\ o.pc \in {"find", "insert"} => (o.key \in K <=> o.key \in under[o.elm])
    /\ o.pc = "insert" =>
         /\ o.parent = Null => o.elm = m.root[h]
         /\ o.parent # Null =>
              /\ o.parent \in K
              /\ o.elm = m.child[SideFor(o.key, o.parent)][o.parent]
              /\ \A j \in K \ under[o.elm] :
                   j # o.parent => (o.parent < j <=> o.key < j)
    /\ o.pc = "leftmost" =>
         /\ \A j \in under[o.elm] : o.key < j
         /\ \A j \in K \ under[o.elm] : o.key < j => \A i \in under[o.elm] : i < j
         /\ o.elm = Null => K = {}
    /\ o.pc = "ascend" =>
         /\ o.elm \in K /\ o.key \in under[o.elm]
         /\ \A j \in under[o.elm] : j <= o.key
    /\ o.pc = "remove" =>
         LET right == m.child["right"][o.key] IN
         /\ o.key \in K
         /\ o.elm = o.key => m.child["left"][o.key] = Null \/ right = Null
         /\ o.elm # o.key =>
              /\ m.child["left"][o.key] # Null
              /\ o.elm \in under[right]
              /\ \A j \in under[right] \ under[o.elm] : o.elm < j

\* The operation has a node besides those of the tree: not yet linked, or no
\* longer.
Detached == {"insert", "removeColor", "removed"}

\* A node that is no longer linked is not in the tree; the key of one that is not
\* yet linked may be.
Aside(o, K) ==
    o.pc \in Detached => o.key \in Keys /\ (o.pc = "insert" \/ o.key \notin K)

\* The nodes that a head with the keys K and its operation o have to themselves.
Own(o, K) == K \cup (IF o.pc \in Detached THEN {o.key} ELSE {})

Owned ==
    \A h \in Heads :
        /\ Aside(op[h], keys[h])
        /\ \A g \in Heads : g # h => Own(op[g], keys[g]) \cap Own(op[h], keys[h]) = {}

\* The inductive invariant of the proofs, for given labels.
Labelled(under, rank) ==
    \A h \in Heads :
        /\ Tree(mem, h, keys[h], under)
        /\ Balanced(mem, h, op[h], keys[h], rank)
        /\ Pointers(mem, h, op[h], keys[h], under)
=============================================================================
