---- MODULE TaskService ----
(***************************************************************************)
(* What the pool of ASQL engines promises to the threads that ask it: a    *)
(* task that is asked is run once, by at most N engines at a time, and the *)
(* thread that asked it is told of the end of that very run, once.         *)
(***************************************************************************)
EXTENDS Naturals, FiniteSets

CONSTANTS Threads,   \* every thread that may ask a task
          N          \* number of engines

VARIABLE status      \* status[t]: how far the task of thread t has come

Status == {"idle", "asked", "running", "ended"}

Init == status = [t \in Threads |-> "idle"]

Running == {t \in Threads : status[t] = "running"}

Move(t, from, to) == status[t] = from /\ status' = [status EXCEPT ![t] = to]

Ask(t)     == Move(t, "idle", "asked")
Run(t)     == Cardinality(Running) < N /\ Move(t, "asked", "running")
End(t)     == Move(t, "running", "ended")
Collect(t) == Move(t, "ended", "idle")

Next == \E t \in Threads : Ask(t) \/ Run(t) \/ End(t) \/ Collect(t)

Spec == Init /\ [][Next]_status
====
