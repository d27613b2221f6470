------------------------------- MODULE RbTree -------------------------------
(***************************************************************************)
(* The timer trees of the pollers (common/ngx_rbtree.cpp): red-black trees *)
(* of the timer nodes of events.  Every tree of every Epoller has the same *)
(* sentinel, a static object (mio/mio_poller.cpp).  A poller works on its  *)
(* two trees from its own thread; ngx_rbtree_delete is cut between the     *)
(* unlinking, each round of the fixup and the last assignment, so that two *)
(* pollers can meet in it.                                                 *)
(*                                                                         *)
(* left and right are the two sides of child, and what the code writes out *)
(* for both sides is written once for a side d.                            *)
(***************************************************************************)
EXTENDS Integers, FiniteSets, Sequences

CONSTANTS TimerNodes, Trees, Pollers,
          TreeOf,     \* the tree a node is put into
          PollerOf,   \* the poller a tree belongs to
          KeyOf,      \* the second at which a node's timer expires
          Timings,    \* bound: [first, sets], timers set first, in order, and at any time later
          sentinel, NIL

ASSUME RbTreeAssumption ==
  /\ IsFiniteSet(TimerNodes) /\ sentinel \notin TimerNodes /\ NIL \notin TimerNodes \cup {sentinel}
  /\ TreeOf \in [TimerNodes -> Trees] /\ PollerOf \in [Trees -> Pollers]
  /\ KeyOf \in [TimerNodes -> Nat \ {0}]
  /\ \A t \in Timings : t.first \in Seq(TimerNodes) /\ t.sets \subseteq TimerNodes

VARIABLES heap,    \* the trees: root, child, parent, red and key
          fixing,  \* per poller: the delete under way, if any
          timing   \* what is left of the member of Timings this behaviour keeps to

rvars == <<heap, fixing, timing>>

Cell == TimerNodes \cup {sentinel}
Sides == {"left", "right"}
Opposite(d) == IF d = "left" THEN "right" ELSE "left"
Idle == [tree |-> NIL, temp |-> NIL]

\* The constructor of Epoller, and nodes that are in no tree (key = 0).
RInit ==
  /\ heap = [root   |-> [t \in Trees |-> sentinel],
             child  |-> [n \in Cell |-> [d \in Sides |-> IF n = sentinel THEN sentinel ELSE NIL]],
             parent |-> [n \in Cell |-> NIL],
             red    |-> [n \in Cell |-> FALSE],
             key    |-> [n \in Cell |-> 0]]
  /\ fixing = [p \in Pollers |-> Idle]
  /\ timing \in Timings

\* x after k rounds of f.
Iterate(f(_), x, k) == LET it[i \in Nat] == IF i = 0 THEN x ELSE f(it[i - 1]) IN it[k]

Paint(h, n, isred) == [h EXCEPT !.red[n] = isred]
SideOf(h, n) == IF n = h.child[h.parent[n]]["left"] THEN "left" ELSE "right"

\* new takes the place of old below old's parent, or as the root.
Replace(h, t, old, new) ==
  IF old = h.root[t] THEN [h EXCEPT !.root[t] = new]
  ELSE [h EXCEPT !.child[h.parent[old]][SideOf(h, old)] = new]

\* ngx_rbtree_left_rotate (d = "left") and ngx_rbtree_right_rotate.
Rotate(h, t, n, d) ==
  LET temp == h.child[n][Opposite(d)]
      mid  == h.child[temp][d]
      h1 == [h EXCEPT !.child[n][Opposite(d)] = mid,
                      !.parent[mid] = IF mid # sentinel THEN n ELSE @]
      h2 == Replace([h1 EXCEPT !.parent[temp] = h1.parent[n]], t, n, temp)
  IN [h2 EXCEPT !.child[temp][d] = n, !.parent[n] = temp]

\* ngx_rbtree_min.
Minimum(h, n) ==
  Iterate(LAMBDA m : IF h.child[m]["left"] # sentinel THEN h.child[m]["left"] ELSE m,
          n, Cardinality(TimerNodes))
-----------------------------------------------------------------------------
(* ngx_rbtree_insert.                                                      *)

\* node->key < temp->key ? &temp->left : &temp->right
Goes(h, n, m) == IF h.key[n] < h.key[m] THEN "left" ELSE "right"

\* ngx_rbtree_insert_value.
InsertValue(h, t, n) ==
  LET temp == Iterate(LAMBDA m : IF h.child[m][Goes(h, n, m)] = sentinel THEN m
                                 ELSE h.child[m][Goes(h, n, m)],
                      h.root[t], Cardinality(TimerNodes))
  IN [h EXCEPT !.child[temp][Goes(h, n, temp)] = n,
               !.child[n] = [d \in Sides |-> sentinel],
               !.parent[n] = temp, !.red[n] = TRUE]

\* One round of "re-balance tree", of s = [h, node].
Rebalance(t, s) ==
  LET h == s.h
      up == h.parent[s.node]
      grand == h.parent[up]
      d == SideOf(h, up)
      uncle == h.child[grand][Opposite(d)]
      inner == s.node = h.child[up][Opposite(d)]
      h1 == IF inner THEN Rotate(h, t, up, d) ELSE h
      node == IF inner THEN up ELSE s.node
      top == h1.parent[node]
  IN IF s.node = h.root[t] \/ ~h.red[up] THEN s
     ELSE IF h.red[uncle]
     THEN [h |-> [h EXCEPT !.red[up] = FALSE, !.red[uncle] = FALSE, !.red[grand] = TRUE], node |-> grand]
     ELSE [h |-> Rotate(Paint(Paint(h1, top, FALSE), h1.parent[top], TRUE), t, h1.parent[top], Opposite(d)),
           node |-> node]

Blacken(h, n) == Paint(h, n, FALSE)

Inserted(h, t, n) ==
  IF h.root[t] = sentinel
  THEN [h EXCEPT !.parent[n] = NIL, !.child[n] = [d \in Sides |-> sentinel],
                 !.red[n] = FALSE, !.root[t] = n]
  ELSE LET s == Iterate(LAMBDA x : Rebalance(t, x), [h |-> InsertValue(h, t, n), node |-> n],
                        Cardinality(TimerNodes))
       IN Blacken(s.h, s.h.root[t])

\* SetReadTimeOut / SetWriteTimeOut of an event without a timer.
Insert(n) ==
  /\ heap.key[n] = 0
  /\ IF timing.first = <<>> THEN n \in timing.sets ELSE n = Head(timing.first)
  /\ fixing[PollerOf[TreeOf[n]]] = Idle
  /\ heap' = Inserted([heap EXCEPT !.key[n] = KeyOf[n]], TreeOf[n], n)
  /\ timing' = IF timing.first = <<>> THEN timing ELSE [timing EXCEPT !.first = Tail(@)]
  /\ UNCHANGED fixing
-----------------------------------------------------------------------------
(* ngx_rbtree_delete.                                                      *)

\* subst and temp: the node that leaves its place, and the one that takes it.
Subst(h, n) == IF \E d \in Sides : h.child[n][d] = sentinel THEN n
               ELSE Minimum(h, h.child[n]["right"])
Temp(h, s) == IF h.child[s]["left"] = sentinel THEN h.child[s]["right"] ELSE h.child[s]["left"]

Forget(h, n) ==
  [h EXCEPT !.child[n] = [d \in Sides |-> NIL], !.parent[n] = NIL, !.key[n] = 0]

\* The parent temp gets: subst itself if its old parent is the deleted node.
SubstParent(h, n, subst) ==
  IF subst # n /\ h.parent[subst] = n THEN subst ELSE h.parent[subst]

\* The tree once subst has left its place and taken that of n.
Unlink(h, t, n) ==
  LET subst == Subst(h, n)
      temp == Temp(h, subst)
      h1 == [h EXCEPT !.child[h.parent[subst]][SideOf(h, subst)] = temp,
                      !.parent[temp] = SubstParent(h, n, subst)]
      h2 == [h1 EXCEPT !.child[subst] = h1.child[n], !.parent[subst] = h1.parent[n],
                       !.red[subst] = h1.red[n]]
      h3 == Replace(h2, t, n, subst)
      h4 == [h3 EXCEPT !.parent = [m \in Cell |->
               IF m # sentinel /\ \E d \in Sides : m = h3.child[subst][d] THEN subst ELSE h3.parent[m]]]
  IN IF subst = n THEN h1 ELSE h4

\* The first part of the delete: nothing is left to do when the root went, or
\* a red node.
Delete(n) ==
  LET t == TreeOf[n]
      subst == Subst(heap, n)
      temp == Temp(heap, subst)
  IN /\ heap.key[n] # 0 /\ fixing[PollerOf[t]] = Idle /\ timing.first = <<>>
     /\ IF subst = heap.root[t]
        THEN /\ heap' = Forget(Paint([heap EXCEPT !.root[t] = temp], temp, FALSE), n)
             /\ UNCHANGED fixing
        ELSE /\ heap' = Forget(Unlink(heap, t, n), n)
             /\ fixing' = IF heap.red[subst] THEN fixing
                          ELSE [fixing EXCEPT ![PollerOf[t]] = [tree |-> t, temp |-> temp]]
     /\ UNCHANGED timing

FixupDone(p) == LET f == fixing[p] IN f.temp = heap.root[f.tree] \/ heap.red[f.temp]

\* A red sibling w is rotated above the parent of temp first.
RedSibling(h, t, temp, d) ==
  LET w == h.child[h.parent[temp]][Opposite(d)]
      up == h.parent[temp]
  IN IF h.red[w] THEN Rotate(Paint(Paint(h, w, FALSE), up, TRUE), t, up, d) ELSE h

\* A red nephew on the near side is rotated to the far side.
NearNephew(h, t, temp, d) ==
  LET w == h.child[h.parent[temp]][Opposite(d)]
      near == h.child[w][d]
  IN IF ~h.red[h.child[w][Opposite(d)]]
     THEN Rotate(Paint(Paint(h, near, FALSE), w, TRUE), t, w, Opposite(d)) ELSE h

FarNephew_Kept(h, t, temp, d) ==
  LET up == h.parent[temp]
      w == h.child[up][Opposite(d)]
  IN Rotate([h EXCEPT !.red[w] = h.red[up], !.red[up] = FALSE], t, up, d)

\* The last rotation: w gets the colour of the parent, both sides turn black.
FarNephew(h, t, temp, d) ==
  LET up == h.parent[temp]
      w == h.child[up][Opposite(d)]
  IN Rotate([h EXCEPT !.red[w] = h.red[up], !.red[up] = FALSE,
                      !.red[h.child[w][Opposite(d)]] = FALSE], t, up, d)

\* One round of "a delete fixup".
Fixup(p) ==
  LET t == fixing[p].tree
      temp == fixing[p].temp
      d == SideOf(heap, temp)
      h == RedSibling(heap, t, temp, d)
      w == h.child[h.parent[temp]][Opposite(d)]
      end == FarNephew(NearNephew(h, t, temp, d), t, temp, d)
  IN /\ fixing[p] # Idle /\ ~FixupDone(p)
     /\ IF \A s \in Sides : ~h.red[h.child[w][s]]
        THEN /\ heap' = Paint(h, w, TRUE)
             /\ fixing' = [fixing EXCEPT ![p].temp = h.parent[temp]]
        ELSE /\ heap' = end
             /\ fixing' = [fixing EXCEPT ![p].temp = end.root[t]]
     /\ UNCHANGED timing

\* ngx_rbt_black(temp), and ngx_rbtree_delete returns.
FixupEnd(p) ==
  /\ fixing[p] # Idle /\ FixupDone(p)
  /\ heap' = Blacken(heap, fixing[p].temp)
  /\ fixing' = [fixing EXCEPT ![p] = Idle]
  /\ UNCHANGED timing
-----------------------------------------------------------------------------
RNext == \/ \E n \in TimerNodes : Insert(n) \/ Delete(n)
         \/ \E p \in Pollers : Fixup(p) \/ FixupEnd(p)

RSpec == RInit /\ [][RNext]_rvars
-----------------------------------------------------------------------------
(* Properties.                                                             *)

Resting == {t \in Trees : fixing[PollerOf[t]] = Idle}
Members(t) == {n \in TimerNodes : TreeOf[n] = t /\ heap.key[n] # 0}

\* The nodes below n, n included.
Below(n) ==
  Iterate(LAMBDA s : s \cup ({heap.child[m][d] : m \in s, d \in Sides} \ {sentinel}),
          {n} \ {sentinel}, Cardinality(TimerNodes))

\* The black nodes on the paths from the sentinel up to the root of t.
BlackHeights(t) ==
  {Cardinality({a \in Members(t) : ~heap.red[a] /\ n \in Below(a)}) :
     n \in {m \in Members(t) : \E d \in Sides : heap.child[m][d] = sentinel}}

\* Between operations a tree is what its users take it for: it holds the nodes
\* whose timers are set and no other, in the order of the keys, each pointing
\* back to its parent.  DelEvent relies on it to take out exactly the timers of
\* the event that goes.
SearchTree ==
  \A t \in Resting :
    /\ Below(heap.root[t]) = Members(t)
    /\ \A n \in Members(t), d \in Sides :
         LET c == heap.child[n][d]
         IN /\ c # sentinel => heap.parent[c] = n
            /\ \A m \in Below(c) : IF d = "left" THEN heap.key[m] <= heap.key[n]
                                                 ELSE heap.key[m] >= heap.key[n]

\* ProcessTimeOut takes the leftmost node for the timer that expires first.
LeftmostIsFirst ==
  \A t \in Resting : Members(t) # {} =>
    /\ Minimum(heap, heap.root[t]) \in Members(t)
    /\ \A n \in Members(t) : heap.key[Minimum(heap, heap.root[t])] <= heap.key[n]

\* The tree stays balanced: no red node has a red child, and every path has
\* the same number of black nodes.
Balanced ==
  \A t \in Resting :
    /\ heap.root[t] # sentinel => ~heap.red[heap.root[t]]
    /\ \A n \in Members(t), d \in Sides : heap.red[n] => ~heap.red[heap.child[n][d]]
    /\ Cardinality(BlackHeights(t)) <= 1

\* ngx_rbtree.h: "a sentinel must be black".  The fixup finds its way up by the
\* parent of the sentinel when temp is the sentinel; with one poller that
\* pointer is its own.  (Two pollers that delete at the same time overwrite it,
\* and the sentinel can end up red in both.)
SentinelIsBlack == ~heap.red[sentinel]

\* What Epoller relies on, for the two trees of one poller: each is a search
\* tree of its timers with the earliest at the left, balanced, over a sentinel
\* that stays black.
TimerTree == SearchTree /\ LeftmostIsFirst /\ Balanced /\ SentinelIsBlack
=============================================================================
