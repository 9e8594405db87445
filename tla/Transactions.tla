---- MODULE Transactions ----
(***************************************************************************)
(* What the tables promise to the scripts that share them: the updates of  *)
(* a transaction reach the tables all at once or not at all, nobody reads  *)
(* a table between two of them, and a record changes in no other way than  *)
(* by a commit, a direct write or an append.                               *)
(***************************************************************************)
EXTENDS Integers, Sequences

CONSTANTS Workers, Files,
          RecNum,     \* RecNum[f]: records of f to begin with
          MaxScripts, \* scripts are numbered; a record shows the last writer
          None

VARIABLES store,   \* store[f]: the sequence of the records of f
          pending, \* pending[w]: the records <<f, r>> a transaction will write
          view     \* view[w]: <<f, r, value>> that w has last read, or None

Init == /\ store = [f \in Files |-> [r \in 1 .. RecNum[f] |-> 0]]
        /\ pending = [w \in Workers |-> {}]
        /\ view = [w \in Workers |-> None]

(* w reads a record.                                                        *)
View(w) ==
  /\ UNCHANGED <<store, pending>>
  /\ \E f \in Files : \E r \in DOMAIN store[f] :
       view' = [view EXCEPT ![w] = <<f, r, store[f][r]>>]

(* What was read is used up by the change that is made of it.               *)
Used(w) == view' = [view EXCEPT ![w] = None]

Prepare(w) ==
  /\ Used(w)
  /\ UNCHANGED store
  /\ \E f \in Files : \E r \in DOMAIN store[f] :
       pending' = [pending EXCEPT ![w] = @ \cup {<<f, r>>}]

Commit(w) ==
  /\ UNCHANGED view
  /\ pending' = [pending EXCEPT ![w] = {}]
  /\ \E n \in 1 .. MaxScripts :
       store' = [f \in Files |-> [r \in DOMAIN store[f] |->
                   IF <<f, r>> \in pending[w] THEN n ELSE store[f][r]]]

Drop(w) == UNCHANGED store /\ Used(w) /\ pending' = [pending EXCEPT ![w] = {}]

(* A record is written, or appended, without a transaction.                 *)
Write(w) ==
  /\ UNCHANGED pending
  /\ Used(w)
  /\ \E f \in Files : store'[f] # store[f] /\ \E n \in 1 .. MaxScripts :
       \E r \in 1 .. Len(store[f]) + 1 :
         store' = [store EXCEPT ![f] = [q \in 1 .. (IF r > Len(@) THEN r ELSE Len(@)) |->
                                          IF q = r THEN n ELSE @[q]]]

Next == \E w \in Workers : View(w) \/ Prepare(w) \/ Commit(w) \/ Drop(w) \/ Write(w)

Spec == Init /\ [][Next]_<<store, pending, view>>
====
