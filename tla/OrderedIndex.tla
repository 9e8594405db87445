---- MODULE OrderedIndex ----
(***************************************************************************)
(* What an index of wmtasql/btree.c promises to the threads that share it: *)
(* one list of entries, ordered by key and, among equal keys, by the order *)
(* of their insertion, and for each handle a cursor that the operations of *)
(* the other handles do not move.                                          *)
(* Two things are not promised.  A handle that is used while a record is   *)
(* being written (amid) may lose its cursor to the next steps of the write. *)
(* And when IndexStrEqSkip does not find the entry of its cursor any more,  *)
(* that cursor is lost, and with it those of the handles used last.        *)
(***************************************************************************)
EXTENDS Integers, Sequences, SequencesExt

CONSTANTS Handles,       \* bHEAD copies that indexAwake hands out
          Keys,          \* keys, as sequences of characters
          Records,       \* record numbers
          Strides,       \* the counts IndexSkip is called with
          NoEntry,       \* a cursor nothing is promised of
          NoRecord       \* LONG_MIN, the answer of an operation that fails

VARIABLES list,          \* the entries, in order
          cursor,        \* cursor[h]: the entry the handle stands on
          answer,        \* what the last operation returned
          writing,       \* a record is being written (IndexSyncDbf)
          amid           \* handles used since the last step of that

vars == <<list, cursor, answer, writing, amid>>

Entry == [key : Keys, ref : Records]

\* a precedes b: the first character they differ in decides.
Precedes(a, b) == \E i \in DOMAIN a : /\ a[i] < b[i]
                                      /\ \A j \in 1 .. i - 1 : a[j] = b[j]

Before(k) == SelectSeq(list, LAMBDA e : Precedes(e.key, k))
Equal(k)  == SelectSeq(list, LAMBDA e : e.key = k)
After(k)  == SelectSeq(list, LAMBDA e : Precedes(k, e.key))

\* Where a search for k stops: the first entry with that key, or else the
\* last entry before it, or else the first of all.
Stop(k) == IF Equal(k) # <<>> THEN Head(Equal(k))
           ELSE IF Before(k) # <<>> THEN Last(Before(k)) ELSE Head(list)

Init == /\ list \in Seq(Entry)
        /\ cursor \in [Handles -> ToSet(list) \cup {NoEntry}]
        /\ answer = NoRecord
        /\ writing = FALSE
        /\ amid = {}

Lost(hs) == [h \in Handles |-> IF h \in hs THEN NoEntry ELSE cursor[h]]

Insert(e) == /\ answer' = e.ref
             /\ list' = Before(e.key) \o Equal(e.key) \o <<e>> \o After(e.key)
             /\ amid' = {}
             /\ UNCHANGED <<cursor, writing>>

\* Outside of a write, or as the first part of one.
Delete(e) ==
    /\ answer' = IF Contains(list, e) THEN e.ref ELSE NoRecord
    /\ list' = SelectSeq(list, LAMBDA d : d # e)
    /\ cursor' = Lost(amid)
    /\ UNCHANGED <<writing, amid>>

DeleteKey(k) ==
    /\ ~writing
    /\ answer' = IF Equal(k) = <<>> THEN NoRecord ELSE Last(Equal(k)).ref
    /\ list' = Before(k) \o After(k)
    /\ UNCHANGED <<cursor, writing, amid>>

StartWrite == ~writing /\ writing' = TRUE /\ UNCHANGED <<list, cursor, answer, amid>>

EndWrite == /\ writing /\ writing' = FALSE
            /\ cursor' \in {cursor, Lost(amid)}
            /\ amid' = {}
            /\ UNCHANGED <<list, answer>>

\* What every operation of a handle leaves alone.
Reads(h) == /\ amid' \subseteq amid \cup {h} /\ (~writing => amid' = {})
            /\ UNCHANGED <<list, writing>>

Seek(h, k) ==
    /\ answer' = IF Equal(k) = <<>> THEN NoRecord ELSE Head(Equal(k)).ref
    /\ IF list = <<>> THEN UNCHANGED cursor
       ELSE cursor' = [cursor EXCEPT ![h] = Stop(k)]
    /\ Reads(h)

\* IndexKeyCount answers the number of equal keys and stands on the last.
CountKey(h, k) ==
    /\ answer' = Len(Equal(k))
    /\ cursor' = [cursor EXCEPT ![h] = IF list = <<>> THEN NoEntry
                                       ELSE IF Equal(k) = <<>> THEN Stop(k)
                                       ELSE Last(Equal(k))]
    /\ Reads(h)

\* Nothing is promised of the ends of an empty index.
GoTo(h, e) == /\ list # <<>> => answer' = e.ref /\ cursor' = [cursor EXCEPT ![h] = e]
              /\ list = <<>> => cursor' = [cursor EXCEPT ![h] = NoEntry]
              /\ Reads(h)

GoTop(h) == GoTo(h, IF list = <<>> THEN NoEntry ELSE Head(list))
GoBottom(h) == GoTo(h, IF list = <<>> THEN NoEntry ELSE Last(list))

Clamp(i) == IF i < 1 THEN 1 ELSE IF i > Len(list) THEN Len(list) ELSE i

\* From an entry that is still there, to the n-th after it, or to the end
\* with a failure.  From one that was deleted meanwhile, only onwards.
Skip(h, n) ==
    /\ IF Contains(list, cursor[h])
       THEN LET i == SelectInSeq(list, LAMBDA e : e = cursor[h])
                j == Clamp(i + n)
            IN  /\ answer' = IF i + n = j THEN list[j].ref ELSE NoRecord
                /\ cursor' = [cursor EXCEPT ![h] = list[j]]
       ELSE IF list = <<>> THEN cursor' = [cursor EXCEPT ![h] = NoEntry]
       ELSE \E i \in DOMAIN list :
                /\ cursor' = [cursor EXCEPT ![h] = list[i]]
                /\ answer' \in {list[i].ref, NoRecord}
                /\ cursor[h] # NoEntry /\ answer' # NoRecord =>
                      IF n > 0 THEN ~Precedes(list[i].key, cursor[h].key)
                               ELSE ~Precedes(cursor[h].key, list[i].key)
    /\ Reads(h)

\* The same among equal keys only; otherwise the cursor stays.  From an entry
\* that was deleted meanwhile, it may also fail and lose the place.
EqSkip(h, n) ==
    /\ IF Contains(list, cursor[h])
       THEN LET i == SelectInSeq(list, LAMBDA e : e = cursor[h])
                j == i + n
                there == j \in DOMAIN list /\ list[j].key = cursor[h].key
            IN  /\ answer' = IF there THEN list[j].ref ELSE NoRecord
                /\ cursor' = [cursor EXCEPT ![h] = IF there THEN list[j] ELSE @]
       ELSE \/ /\ list = <<>>
               /\ cursor' = [cursor EXCEPT ![h] = NoEntry]
            \/ \E i \in DOMAIN list :
                /\ cursor' = [cursor EXCEPT ![h] = list[i]]
                /\ answer' \in {list[i].ref, NoRecord}
            \/ \E hs \in SUBSET Handles :
                /\ h \in hs /\ cursor' = Lost(hs)
                /\ answer' = NoRecord
    /\ Reads(h)

Scan(h) == \/ GoTop(h) \/ GoBottom(h)
           \/ \E n \in Strides : Skip(h, n) \/ EqSkip(h, n)
           \/ \E k \in Keys : Seek(h, k) \/ CountKey(h, k)

Next == \/ \E h \in Handles : Scan(h)
        \/ \E k \in Keys : DeleteKey(k)
        \/ \E r \in Records, k \in Keys :
              Insert([key |-> k, ref |-> r]) \/ Delete([key |-> k, ref |-> r])
        \/ StartWrite \/ EndWrite

Spec == Init /\ [][Next]_vars
====
