---- MODULE BTree ----
(***************************************************************************)
(* The index of wmtasql/btree.c: a B+ tree whose leaves hold the keys with *)
(* their record numbers and whose inner nodes hold, for each son, the      *)
(* son's first key (its "mark").  A full leaf lends an entry to a brother  *)
(* before it splits; a leaf that gets small is merged with a brother; the  *)
(* numbers of freed nodes form the rubbish chain.                          *)
(*                                                                         *)
(* All threads share one bHEAD, pbh, with one current position (cur).  A   *)
(* thread that scans works through a handle of its own, which remembers    *)
(* its position and the time stamp of pbh, and finds its way back when the *)
(* stamp has moved on (saveBtreeEnv and restoreBtreeEnv of btreewmt.c).    *)
(* The writes go through the handle the open table keeps for its index     *)
(* and follow each other (put1rec holds the section of the table).         *)
(* Every operation is one step under pbh->dCriticalSection, except what    *)
(* IndexSyncDbf does for a record that is written: it saves the position,  *)
(* deletes, inserts and restores the position in steps of their own, the   *)
(* first and the last of them outside that section.  (That one of these    *)
(* two may even run in the midst of the step of a scan is left out.)       *)
(*                                                                         *)
(* Abstractions: all nodes are in memory (32 fit), so the flags that tell  *)
(* pointers from node numbers are left out; keys have their full length;   *)
(* positions count from 1; the entry taken out of the last slot of a leaf  *)
(* is all that is kept of the bytes past keyNum (ghost).                   *)
(***************************************************************************)
EXTENDS Integers, Sequences, FiniteSets, SequencesExt

CONSTANTS Handles,              \* the handles of the threads that scan
          Writer,               \* pdf->bhs[k], that of the table
          Keys, Records,        \* keys are sequences of KeyLen numbers
          Strides,              \* the counts IndexSkip is called with
          KeyLen,
          KeyMaxCount, NodeBreakPos, UpperKeyNum, NodeCorpNum,
          Starts,               \* the keys of the file IndexBuild reads, and the
                                \* bounds: how many scans and writes follow
          NoEntry, NoRecord

ASSUME TreeSizes == /\ KeyMaxCount \in Nat /\ KeyMaxCount >= 3
                    /\ NodeBreakPos \in 1 .. KeyMaxCount - 1
                    /\ UpperKeyNum \in 1 .. KeyMaxCount
                    /\ NodeCorpNum \in 1 .. KeyMaxCount

VARIABLES tree,       \* the nodes and the head of the file
          cur,        \* pbh->CurNodePtr, nodeCurPos; node 0 is a freed buffer
          stamp,      \* pbh->timeStamp
          handle,     \* the bHEAD copies of the threads
          table,      \* rec_num of the table and how far IndexSyncDbf is
          undefined,  \* a step used a "freed" node, or "bytes" outside its keys
          stale,      \* some node has claimed a prefix its keys do not share
          answer,     \* the result of the last operation
          entries,    \* what the leaves below the root hold, a function of tree
          steps       \* bound on the behaviour

vars == <<tree, cur, stamp, handle, table, undefined, stale, answer, entries, steps>>

-----------------------------------------------------------------------------
(* Comparing keys inside a node.                                           *)

Smaller(a, b) == \E i \in DOMAIN a : /\ a[i] < b[i]
                                     /\ \A j \in 1 .. i - 1 : a[j] = b[j]

\* reCalPrefixLen: how many first characters all keys of the node share.
SharedPrefix(ent) ==
    IF Len(ent) < 2 THEN KeyLen
    ELSE Len(LongestCommonPrefix({ent[i].key : i \in DOMAIN ent}))

SamePrefix(k, ent, n) == SubSeq(k, 1, n) = SubSeq(ent[1].key, 1, n)

\* blenStrCmp: the prefix is skipped in every comparison when the key differs
\* from the first one of the node behind the prefix only.
Skipped(k, node) ==
    IF k # node.ent[1].key /\ SamePrefix(k, node.ent, node.prefix)
    THEN node.prefix ELSE 0

\* bStrCmp.
StrCmp(a, b) == IF Smaller(a, b) THEN -1 ELSE IF a = b THEN 0 ELSE 1

\* The key compared with each entry of the node.
Compared(k, node) ==
    LET behind(s) == [i \in DOMAIN node.ent |->
                         StrCmp(SubSeq(k, s + 1, KeyLen),
                                SubSeq(node.ent[i].key, s + 1, KeyLen))]
    IN  behind(Skipped(k, node))

\* How binSearch answers: FindFirst and FindLast the first and the last equal
\* entry, or the one before; InsertLast the place behind the last equal one.
Modes == {"FindFirst", "FindLast", "InsertLast"}

RECURSIVE Probe(_, _, _, _)
Probe(c, mode, low, high) ==
    LET mid == (low + high) \div 2
        greater == {i \in mid + 1 .. Len(c) : c[i] = -1}
        smaller == {i \in 1 .. mid - 1 : c[i] = 1}
        past == CHOOSE i \in greater \cup {Len(c) + 1} :
                    \A j \in greater : i <= j
    IN  IF c[mid] = 0
        THEN CASE mode = "FindFirst" ->
                    1 + CHOOSE i \in smaller \cup {0} : \A j \in smaller : i >= j
               [] mode = "FindLast" -> past - 1
               [] mode = "InsertLast" -> past
        ELSE IF c[mid] = 1
        THEN IF mid + 1 <= high THEN Probe(c, mode, mid + 1, high)
             ELSE IF mode = "InsertLast" THEN mid + 1 ELSE mid
        ELSE IF low <= mid - 1 THEN Probe(c, mode, low, mid - 1)
             ELSE IF mode = "InsertLast" THEN mid ELSE mid - 1

BinSearch(k, node, mode) ==
    IF node.ent = <<>> THEN 1
    ELSE Probe(Compared(k, node), mode, 1, Len(node.ent))

-----------------------------------------------------------------------------
(* Finding a key.                                                          *)

RECURSIVE Descend(_, _, _, _)
Descend(t, n, k, mode) ==
    IF t.node[n].leaf THEN n
    ELSE LET son(i) == t.node[n].ent[IF i < 1 THEN 1 ELSE i].ref
         IN  Descend(t, son(BinSearch(k, t.node[n], mode)), k, mode)

\* KeyLocateIntoNodeAndPos.
KeyLocate(t, k, mode) ==
    LET at(n, i) == [node |-> n, pos |-> IF i < 1 THEN 1 ELSE i, ok |-> i >= 1]
        within(n) == at(n, BinSearch(k, t.node[n], mode))
    IN  within(Descend(t, t.root, k, IF mode = "FindFirst" THEN mode ELSE "FindLast"))

Ent(t, c) == t.node[c.node].ent
Within(t, c) == c.pos \in DOMAIN Ent(t, c)
EntryAt(t, c) == IF c.node # 0 /\ Within(t, c) THEN Ent(t, c)[c.pos] ELSE NoEntry

\* The loops of IndexSkip over the brothers of a leaf.
RECURSIVE Forward(_, _, _)
Forward(t, c, n) ==
    LET num == Len(Ent(t, c))
        next == t.node[c.node].next
    IN  IF next # 0 /\ num < c.pos + n
        THEN Forward(t, [node |-> next, pos |-> 1], n - (num - c.pos + 1))
        ELSE IF num >= c.pos + n THEN [node |-> c.node, pos |-> c.pos + n, ok |-> TRUE]
        ELSE [node |-> c.node, pos |-> num, ok |-> FALSE]

RECURSIVE Backward(_, _, _)
Backward(t, c, n) ==
    LET last == t.node[c.node].last
    IN  IF last # 0 /\ c.pos - n < 1
        THEN Backward(t, [node |-> last, pos |-> Len(t.node[last].ent)], n - c.pos)
        ELSE IF c.pos - n < 1 THEN [node |-> c.node, pos |-> 1, ok |-> FALSE]
        ELSE [node |-> c.node, pos |-> c.pos - n, ok |-> TRUE]

Walk(t, c, n) == IF n > 0 THEN Forward(t, c, n) ELSE Backward(t, c, -n)

Place(c) == [node |-> c.node, pos |-> c.pos]

\* IndexStrEqSkipInside: one step among the entries with key k.
EqWalk(t, c, k, n) ==
    LET to(w) == IF w.ok /\ EntryAt(t, w) # NoEntry /\ EntryAt(t, w).key = k THEN w
                 ELSE [node |-> c.node, pos |-> c.pos, ok |-> FALSE]
    IN  to(Walk(t, c, n))

RECURSIVE FirstEqual(_, _, _)
FirstEqual(t, c, k) ==
    LET from(w) == IF w.ok THEN FirstEqual(t, w, k) ELSE c
    IN  from(EqWalk(t, c, k, -1))

\* IndexLocateAndGetRecNo: the first entry with key k.  Only from the first
\* place of a leaf are the brothers before it looked at.
Locate(t, k) ==
    LET from(c) == IF ~c.ok \/ ~Within(t, c) \/ EntryAt(t, c).key # k
                   THEN [c EXCEPT !.ok = FALSE]
                   ELSE IF c.pos = 1 THEN [FirstEqual(t, c, k) EXCEPT !.ok = TRUE]
                   ELSE c
    IN  from(KeyLocate(t, k, "FindFirst"))

\* On from there to the entry with record number r.
RECURSIVE SeekRecord(_, _, _, _)
SeekRecord(t, c, k, r) ==
    IF EntryAt(t, c).ref = r THEN [c EXCEPT !.ok = TRUE]
    ELSE LET from(w) == IF w.ok THEN SeekRecord(t, w, k, r) ELSE w
         IN  from(EqWalk(t, c, k, 1))

LocateRecord(t, k, r) ==
    LET from(c) == IF c.ok THEN SeekRecord(t, c, k, r) ELSE c
    IN  from(Locate(t, k))

-----------------------------------------------------------------------------
(* Changing nodes.                                                         *)

SetEnt(t, n, e) == [t EXCEPT !.node[n].ent = e]
SetPrefix(t, n) == [t EXCEPT !.node[n].prefix = SharedPrefix(t.node[n].ent)]
Recount(t, n, e) == SetPrefix(SetEnt(t, n, e), n)

\* The prefix is reckoned anew only if key k does not share it.
Adjust(t, n, k) ==
    IF SamePrefix(k, t.node[n].ent, t.node[n].prefix) THEN t ELSE SetPrefix(t, n)

SonAt(t, f, n) == SelectInSeq(t.node[f].ent, LAMBDA e : e.ref = n)

\* Node n has the first key k now: its mark in its father is changed, and the
\* father's in its own father while it is the first one there.
RECURSIVE Remark(_, _, _, _)
Remark(t, n, k, lazily) ==
    LET f == t.node[n].father
        i == SonAt(t, f, n)
        marked == [t EXCEPT !.node[f].ent[i].key = k]
        upward(u) == IF i = 1 THEN Remark(u, f, k, lazily) ELSE u
    IN  IF f = 0 THEN t
        ELSE upward(IF lazily THEN Adjust(marked, f, k) ELSE SetPrefix(marked, f))

\* getRubbishBlockNo, or else a new block at the end of the file.
NewNo(t) == IF t.rubbish = <<>> THEN t.top + 1 ELSE Head(t.rubbish)

NewNode(t, n, nd) ==
    IF t.rubbish = <<>> THEN [t EXCEPT !.top = n, !.node = Append(@, nd)]
    ELSE [t EXCEPT !.rubbish = Tail(@), !.node[n] = nd]

PutRubbish(t, n) == [t EXCEPT !.rubbish = <<n>> \o @]

\* The entries of a full node and one more, divided at nodeBreakPos.
Halves(ent, p, e) ==
    LET left == SubSeq(ent, 1, NodeBreakPos)
        right == SubSeq(ent, NodeBreakPos + 1, Len(ent))
    IN  IF p > NodeBreakPos THEN <<left, InsertAt(right, p - NodeBreakPos, e)>>
        ELSE <<InsertAt(left, p, e), right>>

\* Node n keeps the left half, a new brother behind it takes the right one.
SplitNode(t, n, p, e) ==
    LET m == NewNo(t)
        x == t.node[n].next
        right(ent) == [t.node[n] EXCEPT !.ent = ent, !.last = n,
                                        !.prefix = SharedPrefix(ent)]
        chained(u) == IF x = 0 THEN [u EXCEPT !.node[n].next = m]
                      ELSE [u EXCEPT !.node[n].next = m, !.node[x].last = m]
        divided(half) == Recount(chained(NewNode(t, m, right(half[2]))), n, half[1])
    IN  divided(Halves(t.node[n].ent, p, e))

\* The new brother m of n is made known to their father, which may be full
\* and divided in its turn (modSonNode), or is the head: a new root.
RECURSIVE AddSon(_, _, _)
AddSon(t, n, m) ==
    LET f == t.node[n].father
        mark(a) == [key |-> t.node[a].ent[1].key, ref |-> a]
        root(ent) == [leaf |-> FALSE, ent |-> ent, father |-> 0,
                      prefix |-> SharedPrefix(ent), next |-> 0, last |-> 0]
        rooted(r) == [NewNode(t, r, root(<<mark(n), mark(m)>>)) EXCEPT !.root = r,
                         !.node[n].father = r, !.node[m].father = r]
        i == SonAt(t, f, n) + 1
        t1 == [t EXCEPT !.node[m].father = f]
        sons == t.node[f].ent
        adopted(u, g) == [u EXCEPT !.node = [a \in DOMAIN @ |->
                             IF \E s \in ToSet(@[g].ent) : s.ref = a
                             THEN [@[a] EXCEPT !.father = g] ELSE @[a]]]
        above(g) == AddSon(adopted(SplitNode(t1, f, i, mark(m)), g), f, g)
    IN  IF f = 0 THEN rooted(NewNo(t))
        ELSE IF Len(sons) < KeyMaxCount
        THEN Adjust(SetEnt(t1, f, InsertAt(sons, i, mark(m))), f, mark(m).key)
        ELSE above(NewNo(t))

\* bTreeNodeMove: entry e comes to place p of leaf n.  The result carries the
\* leaf and the place the code stops at.
RECURSIVE NodeMove(_, _, _, _)

\* A new first key: it takes the place of the old one, which then follows.
TakeFirst(t, e, n) ==
    Remark(Recount(t, n, <<e>> \o Tail(t.node[n].ent)), n, e.key, FALSE)

LendLast(t, e, n, p) ==
    LET l == t.node[n].last
        ent == t.node[n].ent
        marked(u) == Remark(u, n, u.node[n].ent[1].key, TRUE)
        lent(u) == NodeMove(u, ent[1], l, Len(u.node[l].ent) + 1)
    IN  lent(marked(Recount(t, n, InsertAt(Tail(ent), p - 1, e))))

LendNext(t, e, n, p) ==
    LET x == t.node[n].next
        ent == t.node[n].ent
    IN  IF p > Len(ent) THEN NodeMove(t, e, x, 1)
        ELSE NodeMove(Adjust(SetEnt(t, n, InsertAt(Front(ent), p, e)), n, e.key),
                      Last(ent), x, 1)

BreakLeaf(t, e, n, p) ==
    [AddSon(SplitNode(t, n, p, e), n, NewNo(t)) EXCEPT !.count = @ + 1]

NodeMove(t, e, n, at) ==
    LET ent == t.node[n].ent
        here == [node |-> n, pos |-> at]
        counted(u) == [t |-> [u EXCEPT !.count = @ + 1], c |-> here]
        room(u, b) == b # 0 /\ Len(u.node[b].ent) < UpperKeyNum
        into(u, d, p) ==
            IF Len(ent) < KeyMaxCount
            THEN counted(Adjust(SetEnt(u, n, InsertAt(u.node[n].ent, p, d)), n, d.key))
            ELSE IF room(u, u.node[n].last) THEN LendLast(u, d, n, p)
            ELSE IF room(u, u.node[n].next) THEN LendNext(u, d, n, p)
            ELSE [t |-> BreakLeaf(u, d, n, p), c |-> here]
    IN  IF at # 1 \/ t.top = 1 THEN into(t, e, at)
        ELSE IF ent = <<>> THEN counted(Recount(t, n, <<e>>))
        ELSE into(TakeFirst(t, e, n), ent[1], 2)

\* IndexRecIns without the handle.
PutKey(t, e) ==
    LET at(c) == NodeMove(t, e, c.node, c.pos) IN at(KeyLocate(t, e.key, "InsertLast"))

-----------------------------------------------------------------------------
(* bTreeNodeIncorporate: the entry at place p of node n is taken out.      *)

RECURSIVE TakeOut(_, _, _)

Unlink(t, n) ==
    LET l == t.node[n].last
        x == t.node[n].next
    IN  [t EXCEPT !.node = [a \in DOMAIN @ |->
            IF a = l THEN [@[a] EXCEPT !.next = x]
            ELSE IF a = x THEN [@[a] EXCEPT !.last = l] ELSE @[a]]]

\* Collapse that forgets the nodes above the leaf.
CollapseKept(t, leaf, n) ==
    [t EXCEPT !.root = leaf, !.node[leaf].father = 0,
              !.node[leaf].prefix = IF t.node[leaf].ent = <<>> THEN 0 ELSE @]

\* The last leaf of all becomes the root; the nodes above it are freed.
RECURSIVE Collapse(_, _, _)
Collapse(t, leaf, n) ==
    LET f == t.node[n].father
    IN  IF f # 0 THEN Collapse(PutRubbish(t, f), leaf, f)
        ELSE [t EXCEPT !.root = leaf, !.node[leaf].father = 0,
                       !.node[leaf].prefix = IF t.node[leaf].ent = <<>> THEN 0 ELSE @]

\* The empty node n is freed and its mark taken out of its father.
DropNode(t, n) ==
    LET f == t.node[n].father
    IN  IF f = 0 THEN t
        ELSE IF t.node[n].last = 0 /\ t.node[n].next = 0 THEN Collapse(t, n, n)
        ELSE TakeOut(PutRubbish(Unlink(t, n), n), f, SonAt(t, f, n))

\* The entries of leaf n go to the brother before it, whose prefix length is
\* left as it was; n is freed.
MergeIntoLast(t, n) ==
    LET l == t.node[n].last
    IN  DropNode(SetEnt(SetEnt(t, l, t.node[l].ent \o t.node[n].ent), n, <<>>), n)

\* MergeNext without the new mark of a node whose first key was taken out.
MergeNextUnmarked(t, n, p) ==
    LET x == t.node[n].next
    IN  DropNode(SetEnt(Recount(t, n, t.node[n].ent \o t.node[x].ent), x, <<>>), x)

\* The entries of the next brother come to leaf n; the brother is freed.
MergeNext(t, n, p) ==
    LET x == t.node[n].next
        marked(u) == IF p = 1 THEN Remark(u, n, u.node[n].ent[1].key, FALSE) ELSE u
    IN  DropNode(marked(SetEnt(Recount(t, n, t.node[n].ent \o t.node[x].ent), x, <<>>)), x)

TakeOut(t, n, p) ==
    LET nd == t.node[n]
        fits(b, ent) == b # 0 /\ Len(t.node[b].ent) + Len(ent) <= UpperKeyNum
        without(u, ent) ==
            IF ent = <<>> THEN DropNode(u, n)
            ELSE IF nd.leaf /\ Len(ent) < NodeCorpNum /\ fits(nd.last, ent)
            THEN MergeIntoLast(u, n)
            ELSE IF nd.leaf /\ Len(ent) < NodeCorpNum /\ fits(nd.next, ent)
            THEN MergeNext(u, n, p)
            ELSE IF p = 1 THEN Remark(u, n, ent[1].key, FALSE) ELSE u
        taken(ent) == [SetEnt(t, n, ent) EXCEPT !.ghost =
                            IF nd.leaf /\ p = Len(nd.ent) THEN nd.ent[p] ELSE @]
        left(ent) == without(taken(ent), ent)
    IN  left(RemoveAt(nd.ent, p))

RemoveKey(t, c) == TakeOut([t EXCEPT !.count = @ - 1], c.node, c.pos)

\* pbh still points at the leaf; its buffer is gone when the leaf was freed.
AfterRemoval(t, c) ==
    [node |-> IF Contains(t.rubbish, c.node) THEN 0 ELSE c.node, pos |-> c.pos]

\* The loop of IndexRecDel over all entries with key k.
RECURSIVE RemoveEqual(_, _, _)
RemoveEqual(t, k, r) ==
    LET at(c) == IF c.ok THEN RemoveEqual(RemoveKey(t, c), k, EntryAt(t, c).ref)
                 ELSE [t |-> t, c |-> Place(c), r |-> r]
    IN  at(Locate(t, k))

-----------------------------------------------------------------------------
(* The handles.                                                            *)

\* saveBtreeEnv: behind the last key its slot still holds what was taken out.
Saved(t, c, at) ==
    [node |-> c.node, pos |-> c.pos, stamp |-> at, sure |-> EntryAt(t, c) # NoEntry,
     ent |-> IF c.node # 0 /\ c.pos = Len(Ent(t, c)) + 1 THEN t.ghost
             ELSE EntryAt(t, c)]

\* SaveEnv that gives the handle the next stamp and pbh none.
SaveEnvAhead(h, t, c) == /\ handle' = [handle EXCEPT ![h] = Saved(t, c, stamp + 1)]
                         /\ UNCHANGED stamp

SaveEnv(h, t, c) == /\ stamp' = stamp + 1
                    /\ handle' = [handle EXCEPT ![h] = Saved(t, c, stamp + 1)]

\* Restored that trusts the old place as long as its leaf has so many keys.
RestoredByPlace(h) ==
    LET m == handle[h]
        sought(c) == [c |-> Place(c), ok |-> IF c.ok THEN "yes" ELSE "no"]
    IN  IF m.stamp = stamp THEN [c |-> cur, ok |-> IF cur.node = 0 THEN "bytes" ELSE "yes"]
        ELSE IF Contains(tree.rubbish, m.node) THEN [c |-> cur, ok |-> "freed"]
        ELSE IF m.ent = NoEntry THEN [c |-> cur, ok |-> "bytes"]
        ELSE IF m.node # 0 /\ tree.node[m.node].leaf /\ Within(tree, m)
        THEN [c |-> Place(m), ok |-> "yes"]
        ELSE sought(LocateRecord(tree, m.ent.key, m.ent.ref))

\* restoreBtreeEnv.  A node that was freed is read from its block all the
\* same: what the block holds is not known any more (ok = "freed").
Restored(h) ==
    LET m == handle[h]
        there == /\ m.node # 0 /\ tree.node[m.node].leaf /\ Within(tree, m)
                 /\ EntryAt(tree, m).ref = m.ent.ref
        sought(c) == [c |-> Place(c), ok |-> IF c.ok THEN "yes" ELSE "no"]
    IN  IF m.stamp = stamp THEN [c |-> cur, ok |-> IF cur.node = 0 THEN "bytes" ELSE "yes"]
        ELSE IF Contains(tree.rubbish, m.node) THEN [c |-> cur, ok |-> "freed"]
        ELSE IF m.ent = NoEntry THEN [c |-> cur, ok |-> "bytes"]
        ELSE IF there THEN [c |-> Place(m), ok |-> "yes"]
        ELSE sought(LocateRecord(tree, m.ent.key, m.ent.ref))

Lost(r) == r.ok \in {"freed", "bytes"}
Lose(why) == undefined' = why /\ UNCHANGED <<tree, cur, stamp, handle, table, answer>>

\* pbh moves but keeps its time stamp: the handles that have the same one will
\* go on from where pbh is then (restoreBtreeEnv: "need not"), whatever their
\* own place was.
Displaced(hs) == [h \in DOMAIN hs |-> IF hs[h].stamp = stamp
                                      THEN [hs[h] EXCEPT !.sure = FALSE] ELSE hs[h]]

\* The handle stands at c and has the answer r.
Arrive(h, c, r) ==
    /\ cur' = Place(c)
    /\ SaveEnv(h, tree, c)
    /\ answer' = r
    /\ UNCHANGED <<tree, table, undefined>>

RefAt(c) == EntryAt(tree, c).ref

IndexSeek(h, k) ==
    LET at(c) == Arrive(h, c, IF c.ok THEN RefAt(c) ELSE NoRecord)
    IN  IF tree.count <= 0
        THEN answer' = NoRecord
             /\ UNCHANGED <<tree, cur, stamp, handle, table, undefined>>
        ELSE at(Locate(tree, k))

\* IndexKeyCount: on to the last entry with key k, counting.
RECURSIVE LastEqual(_, _, _)
LastEqual(c, k, n) ==
    LET from(w) == IF w.ok THEN LastEqual(w, k, n + 1) ELSE [c |-> c, n |-> n]
    IN  from(EqWalk(tree, c, k, 1))

IndexKeyCount(h, k) ==
    LET counted(c) == IF c.ok THEN LastEqual(c, k, 1) ELSE [c |-> c, n |-> 0]
        at(l) == Arrive(h, l.c, l.n)
    IN  at(IF tree.count <= 0 THEN [c |-> cur, n |-> 0] ELSE counted(Locate(tree, k)))

RECURSIVE Edge(_, _)
Edge(n, top) ==
    LET ent == tree.node[n].ent
    IN  IF tree.node[n].leaf THEN [node |-> n, pos |-> IF top THEN 1 ELSE Len(ent)]
        ELSE Edge((IF top THEN Head(ent) ELSE Last(ent)).ref, top)

\* The top of an empty index answers what its first slot held last.
IndexGoTop(h) ==
    LET at(c) == Arrive(h, c, IF Within(tree, c) THEN RefAt(c)
                              ELSE IF tree.ghost # NoEntry THEN tree.ghost.ref
                              ELSE NoRecord)
    IN  at(Edge(tree.root, TRUE))

\* The bottom of an empty index is a place before the keys of the node.
IndexGoBottom(h) ==
    LET at(c) == IF c.pos < 1 THEN Lose("bytes") ELSE Arrive(h, c, RefAt(c))
    IN  at(Edge(tree.root, FALSE))

\* Whether the old place was found again is not looked at.
IndexSkip(h, n) ==
    LET at(w) == IF ~Within(tree, w) THEN Lose("bytes")
                 ELSE Arrive(h, w, IF w.ok THEN RefAt(w) ELSE NoRecord)
        from(r) == IF Lost(r) THEN Lose(r.ok) ELSE at(Walk(tree, r.c, n))
    IN  from(Restored(h))

\* From an entry to one with the same key k.
EqArrive(h, c, k, n) ==
    LET at(w) == Arrive(h, w, IF w.ok THEN RefAt(w) ELSE NoRecord)
    IN  IF Within(tree, c) THEN at(EqWalk(tree, c, k, n)) ELSE Lose("bytes")

IndexEqSkip(h, n) ==
    LET from(r) == IF Lost(r) THEN Lose(r.ok)
                   ELSE EqArrive(h, r.c, EntryAt(tree, r.c).key, n)
    IN  from(Restored(h))

\* IndexStrEqSkip looks at it, and then fails without saving: the handle has
\* the time stamp of pbh, which is left where the search for the entry ended.
IndexStrEqSkip(h, n) ==
    LET from(r) == IF Lost(r) THEN Lose(r.ok)
                   ELSE IF r.ok = "yes" THEN EqArrive(h, r.c, handle[h].ent.key, n)
                   ELSE /\ handle' = Displaced([handle EXCEPT ![h].stamp = stamp])
                        /\ cur' = r.c
                        /\ answer' = NoRecord
                        /\ UNCHANGED <<tree, stamp, table, undefined>>
    IN  from(Restored(h))

-----------------------------------------------------------------------------
(* The writes, all on behalf of a record of the table.                     *)

RECURSIVE EntriesBelow(_, _)
EntriesBelow(t, n) ==
    LET ent == t.node[n].ent
    IN  IF t.node[n].leaf THEN ent
        ELSE FlattenSeq([i \in DOMAIN ent |-> EntriesBelow(t, ent[i].ref)])

\* IndexRecIns.
RecIns(e) ==
    LET done(p) == tree' = p.t /\ cur' = p.c /\ answer' = e.ref IN done(PutKey(tree, e))

\* The entry that IndexRecDel is asked for, taken out when it is found.
TakeRecord(e) ==
    LET done(t, c) == tree' = t /\ cur' = AfterRemoval(t, c) /\ answer' = e.ref
        at(c) == IF c.ok THEN done(RemoveKey(tree, c), c)
                 ELSE cur' = Place(c) /\ answer' = NoRecord /\ UNCHANGED tree
    IN  at(LocateRecord(tree, e.key, e.ref))

DeleteRecord(e) ==
    /\ table.at = "idle"
    /\ TakeRecord(e)
    /\ stamp' = stamp + 1
    /\ handle' = [handle EXCEPT ![Writer].stamp = stamp + 1]
    /\ UNCHANGED <<table, undefined>>

DeleteKey(k) ==
    LET done(d) == /\ tree' = d.t
                   /\ cur' = IF d.r = NoRecord THEN d.c ELSE AfterRemoval(d.t, d.c)
                   /\ answer' = d.r
    IN  /\ table.at = "idle"
        /\ done(RemoveEqual(tree, k, NoRecord))
        /\ stamp' = stamp + 1
        /\ handle' = [handle EXCEPT ![Writer].stamp = stamp + 1]
        /\ UNCHANGED <<table, undefined>>

\* IndexSyncDbf saves the position of pbh first.  What follows depends on
\* whether the record is a new one and, if not, whether its key has changed.
SyncSave(at, old, new) ==
    /\ table.at = "idle"
    /\ SaveEnv(Writer, tree, cur)
    /\ table' = [table EXCEPT !.at = at, !.old = old, !.new = new]
    /\ UNCHANGED <<tree, cur, undefined, answer>>

\* put1rec gives a new record the next number.
SyncAppend(k) == SyncSave("insert", NoEntry, [key |-> k, ref |-> table.recNum + 1])

SyncChange(e, k) == SyncSave(IF k = e.key THEN "restore" ELSE "delete",
                             e, [key |-> k, ref |-> e.ref])

\* IndexRecUpdate calls IndexRecDel for pbh itself: no new time stamp.  It
\* goes on to insert the new entry if the old one was there.
UpdateDelete ==
    /\ table.at = "delete"
    /\ TakeRecord(table.old)
    /\ handle' = Displaced(handle)
    /\ table' = [table EXCEPT !.at = IF answer' = NoRecord THEN "restore" ELSE "insert"]
    /\ UNCHANGED <<stamp, undefined>>

RecordInsert ==
    /\ table.at = "insert"
    /\ RecIns(table.new)
    /\ stamp' = stamp + 1
    /\ handle' = [handle EXCEPT ![Writer].stamp = stamp + 1]
    /\ table' = [table EXCEPT !.at = "restore"]
    /\ UNCHANGED undefined

\* restoreBtreeEnv at the end of IndexSyncDbf: the position is still good if no
\* scan took a time stamp since; else pbh is moved, and keeps its stamp.
SyncRestore ==
    LET m == handle[Writer]
        ended == [table EXCEPT !.at = "idle", !.old = NoEntry, !.new = NoEntry,
                               !.recNum = IF table.old = NoEntry THEN @ + 1 ELSE @]
        to(r) == IF Lost(r) THEN Lose(r.ok)
                 ELSE /\ cur' = r.c
                      /\ handle' = Displaced([handle EXCEPT ![Writer].stamp = stamp])
                      /\ table' = ended
                      /\ UNCHANGED <<tree, stamp, undefined, answer>>
    IN  /\ table.at = "restore"
        /\ IF m.stamp = stamp
           THEN table' = ended /\ UNCHANGED <<tree, cur, stamp, handle, undefined, answer>>
           ELSE to(Restored(Writer))

-----------------------------------------------------------------------------
(* IndexBuild inserts the records of the file one by one.                  *)

EmptyTree ==
    [node |-> <<[leaf |-> TRUE, ent |-> <<>>, prefix |-> 0,
                 father |-> 0, next |-> 0, last |-> 0]>>,
     root |-> 1, top |-> 1, rubbish |-> <<>>, count |-> 0, ghost |-> NoEntry]

IndexBuild(file) ==
    FoldLeft(LAMBDA t, r : PutKey(t, [key |-> file[r], ref |-> r]).t,
             EmptyTree, [r \in DOMAIN file |-> r])

-----------------------------------------------------------------------------
(* What every comparison in a node relies on.                              *)

\* The nodes a search can reach.
RECURSIVE Reached(_, _)
Reached(t, n) == {n} \cup IF t.node[n].leaf THEN {}
                           ELSE UNION {Reached(t, e.ref) : e \in ToSet(t.node[n].ent)}

PrefixesShared(t) ==
    \A n \in Reached(t, t.root) : \A i \in DOMAIN t.node[n].ent :
        SamePrefix(t.node[n].ent[i].key, t.node[n].ent, t.node[n].prefix)

-----------------------------------------------------------------------------
\* Where pbh can stand: IndexOpen puts it on the first entry, the scans move it
\* to any; an empty leaf has its first place.
Places(t) == {c \in [node : {n \in 1 .. t.top : t.node[n].leaf}, pos : 1 .. KeyMaxCount] :
                Within(t, c) \/ c = [node |-> t.root, pos |-> 1]}

\* The handles have just been taken: they stand where pbh does.
Init == \E s \in Starts :
        /\ tree = IndexBuild(s.file)
        /\ cur \in Places(tree)
        /\ stamp = 0
        /\ handle = [h \in Handles \cup {Writer} |-> Saved(tree, cur, 0)]
        /\ table = [recNum |-> Len(s.file), at |-> "idle", old |-> NoEntry, new |-> NoEntry]
        /\ undefined = "no"
        /\ stale = FALSE
        /\ answer = NoRecord
        /\ entries = EntriesBelow(tree, tree.root)
        /\ steps = [scan |-> s.scans, write |-> s.writes]

Scan(h) == \/ \E k \in Keys : IndexSeek(h, k) \/ IndexKeyCount(h, k)
           \/ IndexGoTop(h) \/ IndexGoBottom(h)
           \/ \E n \in Strides : IndexSkip(h, n)
           \/ \E n \in {1, -1} : IndexEqSkip(h, n) \/ IndexStrEqSkip(h, n)

Write == \/ \E k \in Keys : SyncAppend(k)
         \/ \E e \in ToSet(entries), k \in Keys : SyncChange(e, k)
         \/ \E e \in ToSet(entries) : DeleteRecord(e)
         \/ \E k \in Keys : DeleteKey(k)

Next == /\ undefined = "no"
        /\ \/ /\ steps.scan > 0
              /\ steps' = [steps EXCEPT !.scan = @ - 1]
              /\ \E h \in Handles : Scan(h)
           \/ /\ steps.write > 0
              /\ steps' = [steps EXCEPT !.write = @ - 1]
              /\ Write
           \/ /\ UpdateDelete \/ RecordInsert \/ SyncRestore
              /\ UNCHANGED steps
        /\ entries' = EntriesBelow(tree', tree'.root)
        /\ stale' = (stale \/ ~PrefixesShared(tree'))

Spec == Init /\ [][Next]_vars

-----------------------------------------------------------------------------
(* Properties.                                                             *)

Nodes == 1 .. tree.top

\* Every part of the state is of its kind.
TypeOK ==
    /\ \A n \in DOMAIN tree.node :
          /\ tree.node[n].ent \in Seq([key : Keys, ref : Nat])
          /\ tree.node[n].prefix \in 0 .. KeyLen
          /\ {tree.node[n].father, tree.node[n].next, tree.node[n].last} \subseteq 0 .. tree.top
    /\ DOMAIN tree.node = Nodes
    /\ cur.node \in 0 .. tree.top
    /\ \A h \in DOMAIN handle : handle[h].node \in 0 .. tree.top /\ handle[h].stamp <= stamp
    /\ table.at \in {"idle", "delete", "insert", "restore"}
    /\ table.at = "idle" => table.new = NoEntry

Live == Reached(tree, tree.root)

\* The tree is sound between two operations: the marks are the first keys of
\* the sons, fathers and sons name each other, the brothers of each level are
\* chained, and no node is over-full.  The keys are in order as long as no node
\* has claimed a prefix its keys do not share; after such a merge (PrefixShared
\* below) an insertion may put its key in the wrong place.
TreeShape ==
    \A n \in Live :
        LET nd == tree.node[n]
            x == nd.next
        IN  /\ Len(nd.ent) <= KeyMaxCount
            /\ nd.ent = <<>> => n = tree.root /\ nd.leaf
            /\ \A i \in DOMAIN nd.ent : ~nd.leaf =>
                  LET s == tree.node[nd.ent[i].ref]
                  IN  /\ s.father = n /\ s.ent[1].key = nd.ent[i].key
                      /\ i < Len(nd.ent) => s.next = nd.ent[i + 1].ref
            /\ x # 0 => x \in Live /\ tree.node[x].last = n /\ tree.node[x].leaf = nd.leaf
            /\ ~stale => /\ x # 0 => ~Smaller(tree.node[x].ent[1].key, Last(nd.ent).key)
                         /\ \A i \in 2 .. Len(nd.ent) :
                               ~Smaller(nd.ent[i].key, nd.ent[i - 1].key)
            /\ (nd.father = 0) = (n = tree.root)

\* No block of the file is lost and none is used twice: each is a node of the
\* tree or, once, in the rubbish chain; and the head counts the keys right.
BlocksAccounted ==
    /\ Live \cap ToSet(tree.rubbish) = {}
    /\ Live \cup ToSet(tree.rubbish) = Nodes
    /\ Len(tree.rubbish) = Cardinality(ToSet(tree.rubbish))
    /\ tree.count = Len(entries)

\* What every comparison in a node relies on (blenStrCmp): all its keys share
\* the prefix the node claims for them.
PrefixShared == PrefixesShared(tree)

\* The index implements the ordered list, each handle's cursor included, as
\* long as the prefixes are right and until a handle is lost (undefined): it came
\* back to a leaf that was merged away, which loadBTreeNode does not notice.  The
\* cursors of handles whose place pbh has left under an unchanged time stamp
\* promise nothing (Displaced).
Cursor == [h \in Handles |-> IF handle[h].sure THEN handle[h].ent ELSE NoEntry]
Writing == table.at # "idle"
Amid == {h \in Handles : Writing /\ handle[h].stamp = stamp}

Index == INSTANCE OrderedIndex WITH list <- entries, cursor <- Cursor,
                                    writing <- Writing, amid <- Amid

ImplementsIndex == Index!Init /\ [][stale \/ Index!Next]_(Index!vars)
====
