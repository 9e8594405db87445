-------------------------- MODULE TablesLockProofs --------------------------
(***************************************************************************)
(* Theorems about Tables: BlocksExplained and ImplementsTransactions.      *)
(*                                                                         *)
(* KeptInv of TablesProofs says which tables a script uses, not which it   *)
(* owns.  LocksInv adds that.  SureInv: a commit that has come to its k-th *)
(* table owns those before it, one that writes owns them all.  DepthInv:   *)
(* the owner of a critical section is in it at most as many times as its   *)
(* script accounts for (Held), unless it has kept tables when it gave up.  *)
(* WaitInv: commits that wait in wmtDbfTryLock, each for a table that was  *)
(* free when it looked, do not wait in a circle: the one that looked last  *)
(* saw a table none of the others had.                                     *)
(*                                                                         *)
(* A step of w disturbs the locks of another worker only by RestKept, so   *)
(* each action needs only what it does to the set HeldOf of w itself:      *)
(* it stays (StayStep), grows by the lock taken (EnterStep) or loses the   *)
(* one left (LeaveStep).                                                   *)
(*                                                                         *)
(* BlocksExplained: whoever is waited for owns a table, by DepthInv for a  *)
(* reason in Held.  A worker that waits with an ordinary script has one    *)
(* only if it is a commit in wmtDbfTryLock, and those are in no circle     *)
(* (NoKnot).                                                               *)
(*                                                                         *)
(* ImplementsTransactions: by SureInv a table with records still to be     *)
(* written is owned by the worker that writes them (WriterOwns), so nobody *)
(* else reads or writes it, and what the mapping takes for written can be  *)
(* told apart record by record (StoredAt).  Each action of Tables is then  *)
(* one of Transactions or changes nothing it knows of (the Maps lemmas).   *)
(***************************************************************************)
EXTENDS TablesProofs

USE TablesAssumption

LocksInv == SureInv /\ DepthInv /\ WaitInv

-----------------------------------------------------------------------------
(* Where the steps of a script lead                                         *)

\* n is at the same point of the same script as j, whatever is still to be stored.
Copy(n, j) ==
  /\ n.at = j.at /\ n.k = j.k /\ n.script = j.script /\ n.handles = j.handles /\ n.log = j.log
  /\ n.seen = j.seen /\ n.no = j.no /\ n.kept = j.kept /\ n.misread = j.misread
\* n has the script and the tables of j.
Alike(n, j) ==
  n.script = j.script /\ n.handles = j.handles /\ n.kept = j.kept /\ n.no = j.no
\* n holds nothing but what FROM has locked for it.
Calm(n) ==
  \/ n.at \in {"from", "act", "calrec", "apprec", "free", "target"}
  \/ n.at = "commit" /\ n.k = 1

LEMMA NoneIsNone ==
  \A w \in Workers : w # None
BY SMT

LEMMA ActingMoves ==
  ASSUME NEW j \in Jobs
  PROVE  /\ Alike(Acting(j), j) /\ Acting(j).log = j.log /\ Acting(j).seen = j.seen
         /\ Acting(j).at = "act" \/ (Acting(j).at \in {"commit", "target"} /\ Acting(j).k = 1)
<1>1. CASE j.k <= Len(j.script.acts)
  <2> DEFINE o == [j EXCEPT !.at = "act"]
  <2>1. Alike(o, j) /\ o.log = j.log /\ o.seen = j.seen /\ o.at = "act"
    BY SMT DEF Jobs, Alike
  <2>2. Acting(j) = o
    BY <1>1 DEF Acting
  <2> QED BY <2>1, <2>2
<1>2. CASE ~(j.k <= Len(j.script.acts))
  <2> DEFINE a == IF j.script.update THEN "commit" ELSE "target"
             o == [j EXCEPT !.at = a, !.k = 1]
  <2> HIDE DEF a
  <2>1. Alike(o, j) /\ o.log = j.log /\ o.seen = j.seen /\ o.at = a /\ o.k = 1
    BY SMT DEF Jobs, Alike
  <2>2. Acting(j) = o /\ a \in {"commit", "target"}
    BY <1>2 DEF Acting, a
  <2> QED BY <2>1, <2>2
<1> QED BY <1>1, <1>2

LEMMA ReadyMoves ==
  ASSUME NEW j \in Jobs
  PROVE  /\ Alike(Ready(j), j) /\ Ready(j).log = j.log /\ Ready(j).seen = j.seen
         /\ Calm(Ready(j)) /\ Ready(j).at \notin {"calrec", "apprec"}
<1>1. CASE Len(j.handles) < Len(j.script.from)
  <2> DEFINE o == [j EXCEPT !.at = "from"]
  <2>1. Alike(o, j) /\ o.log = j.log /\ o.seen = j.seen /\ o.at = "from"
    BY SMT DEF Jobs, Alike
  <2>2. Ready(j) = o
    BY <1>1 DEF Ready
  <2> QED BY <2>1, <2>2 DEF Calm
<1>2. CASE ~(Len(j.handles) < Len(j.script.from))
  BY <1>2, ActingMoves DEF Ready, Calm
<1> QED BY <1>1, <1>2

LEMMA WentMoves ==
  ASSUME NEW j \in Jobs
  PROVE  /\ Alike(Went(j), j) /\ Went(j).log = j.log /\ Went(j).seen = None
         /\ Calm(Went(j)) /\ Went(j).at \in {"act", "commit", "target"}
<1> DEFINE o == [j EXCEPT !.k = @ + 1, !.seen = None]
<1>0. j.k + 1 \in Nat
  BY SMT DEF Jobs
<1>1. o \in Jobs
  BY <1>0 DEF Jobs
<1>2. Alike(o, j) /\ o.log = j.log /\ o.seen = None
  BY SMT DEF Jobs, Alike
<1>3. Went(j) = Acting(o)
  BY DEF Went
<1> HIDE DEF o
<1> QED BY <1>1, <1>2, <1>3, ActingMoves DEF Calm, Alike

LEMMA FailedMoves ==
  ASSUME NEW j \in Jobs
  PROVE  /\ Alike(Failed(j), j) /\ Failed(j).log = <<>> /\ Failed(j).seen = None
         /\ Failed(j).at \in {"free", "target"}
<1> DEFINE a == IF j.script.update THEN "free" ELSE "target"
           o == [j EXCEPT !.at = a, !.k = Len(j.handles), !.log = <<>>, !.seen = None]
<1> HIDE DEF a
<1>1. Alike(o, j) /\ o.log = <<>> /\ o.seen = None /\ o.at = a
  BY SMT DEF Jobs, Alike
<1>2. Failed(j) = o /\ a \in {"free", "target"}
  BY DEF Failed, a
<1> QED BY <1>1, <1>2

LEMMA WritingMoves ==
  ASSUME NEW j \in Jobs
  PROVE  /\ Alike(Writing(j), j) /\ Writing(j).seen = j.seen
         /\ \/ /\ Writing(j).at = "write" /\ Writing(j).k = j.k /\ Writing(j).log = j.log
               /\ j.k <= Len(j.log)
            \/ /\ Writing(j).at = "unlock" /\ Writing(j).k = 1 /\ Writing(j).log = <<>>
               /\ ~(j.k <= Len(j.log))
<1>1. CASE j.k <= Len(j.log)
  <2> DEFINE o == [j EXCEPT !.at = "write"]
  <2>1. Alike(o, j) /\ o.log = j.log /\ o.seen = j.seen /\ o.at = "write" /\ o.k = j.k
    BY SMT DEF Jobs, Alike
  <2>2. Writing(j) = o
    BY <1>1 DEF Writing
  <2> HIDE DEF o
  <2> QED BY <1>1, <2>1, <2>2
<1>2. CASE ~(j.k <= Len(j.log))
  <2> DEFINE o == [j EXCEPT !.at = "unlock", !.k = 1, !.log = <<>>]
  <2>1. Alike(o, j) /\ o.log = <<>> /\ o.seen = j.seen /\ o.at = "unlock" /\ o.k = 1
    BY SMT DEF Jobs, Alike
  <2>2. Writing(j) = o
    BY <1>2 DEF Writing
  <2> HIDE DEF o
  <2> QED BY <1>2, <2>1, <2>2
<1> QED BY <1>1, <1>2

LEMMA IdleMoves ==
  ASSUME NEW b \in BOOLEAN
  PROVE  /\ Idle(b).at = "idle" /\ Idle(b).seen = None /\ Idle(b).kept = b
         /\ Idle(b).log = <<>> /\ Idle(b).handles = <<>>
BY SMT DEF Idle

LEMMA SleptMoves ==
  ASSUME NEW j \in Jobs, j.seen = None
  PROVE  /\ Slept(j).seen = None /\ Slept(j).kept = j.kept
         /\ \/ Len(j.handles) = 1 /\ Slept(j).at = "idle"
            \/ /\ Len(j.handles) # 1 /\ Slept(j).at = "close" /\ Slept(j).script = j.script
               /\ Slept(j).handles = Tail(j.handles) /\ Slept(j).no = j.no
<1>1. CASE Len(j.handles) = 1
  <2>1. j.kept \in BOOLEAN
    BY DEF Jobs
  <2> QED BY <1>1, <2>1, IdleMoves DEF Slept
<1>2. CASE Len(j.handles) # 1
  <2> DEFINE t == Tail(j.handles)
             o == [j EXCEPT !.at = "close", !.handles = t]
  <2>1. Slept(j) = o
    BY <1>2 DEF Slept
  <2> HIDE DEF t
  <2>2. /\ o.seen = None /\ o.kept = j.kept /\ o.at = "close" /\ o.script = j.script
        /\ o.handles = t /\ o.no = j.no
    BY SMT DEF Jobs
  <2> QED BY <1>2, <2>1, <2>2 DEF t
<1> QED BY <1>1, <1>2

\* The job that wmtDbfLock and wmtDbfUnLock leave
LEMMA StoreMoves ==
  ASSUME NEW j \in Jobs, NEW s
  PROVE  Copy([j EXCEPT !.store = s], j)
BY SMT DEF Jobs, Copy

LEMMA LockMoves ==
  ASSUME TypeOK, NEW w \in Workers, NEW f, NEW next \in Jobs, Lock(w, f, next)
  PROVE  /\ CanEnter(w, f) /\ df' = Entered(w, f)
         /\ Copy(job'[w], next) /\ \A v \in Workers \ {w} : job'[v] = job[v]
<1> DEFINE s == [file |-> f, flag |-> 1]
           nj == [next EXCEPT !.store = s]
<1>1. CanEnter(w, f) /\ df' = Entered(w, f) /\ job' = [job EXCEPT ![w] = nj]
  BY DEF Lock
<1> HIDE DEF s
<1>2. Copy(nj, next)
  BY StoreMoves
<1> HIDE DEF nj
<1>3. job'[w] = nj /\ \A v \in Workers \ {w} : job'[v] = job[v]
  BY <1>1 DEF TypeOK
<1> QED BY <1>1, <1>2, <1>3

LEMMA UnLockMoves ==
  ASSUME TypeOK, NEW w \in Workers, NEW f, NEW next \in Jobs, UnLock(w, f, next)
  PROVE  \/ /\ df[f].owner = w
            /\ df' = [df EXCEPT ![f].depth = @ - 1,
                                ![f].owner = IF df[f].depth = 1 THEN None ELSE w]
            /\ Copy(job'[w], next) /\ \A v \in Workers \ {w} : job'[v] = job[v]
         \/ df' = df /\ job' = job
<1> DEFINE s == [file |-> f, flag |-> 0]
           nj == [next EXCEPT !.store = s]
<1>1. CASE df[f].owner = w
  <2>1. /\ df' = [df EXCEPT ![f].depth = @ - 1,
                            ![f].owner = IF df[f].depth = 1 THEN None ELSE w]
        /\ job' = [job EXCEPT ![w] = nj]
    BY <1>1 DEF UnLock
  <2> HIDE DEF s
  <2>2. Copy(nj, next)
    BY StoreMoves
  <2> HIDE DEF nj
  <2>3. job'[w] = nj /\ \A v \in Workers \ {w} : job'[v] = job[v]
    BY <2>1 DEF TypeOK
  <2> QED BY <1>1, <2>1, <2>2, <2>3
<1>2. CASE df[f].owner # w
  BY <1>2 DEF UnLock
<1> QED BY <1>1, <1>2
-----------------------------------------------------------------------------
(* What a step of one worker does to the critical sections                  *)

SureFor(w) ==
  /\ \A i \in Sure(job[w]) : df[From(w)[i]].owner = w
  /\ job[w].at \notin {"calrec", "apprec", "append"} => job[w].seen = None
  /\ job[w].at # "idle" => job[w].no # 0
\* The tables of a worker that closes them are the last of its FROM.
Last(j) ==
  \A i \in DOMAIN j.handles :
    j.handles[i].file = j.script.from[Len(j.script.from) - Len(j.handles) + i]
DepthFor(w) ==
  /\ job[w].at = "lock" => job[w].script.exclusive
  /\ job[w].at \in InClose => Last(job[w])
  /\ ~job[w].kept => \A f \in Files :
       df[f].owner = w => df[f].depth <= Cardinality(HeldOf(job[w], f))

LEMMA ForEach ==
  /\ SureInv <=> \A w \in Workers : SureFor(w)
  /\ DepthInv <=> \A w \in Workers : DepthFor(w)
<1>1. \A w \in Workers : Last(job[w]) <=>
        \A i \in DOMAIN job[w].handles :
          From(w)[i] = job[w].script.from[Len(job[w].script.from) - Len(job[w].handles) + i]
  BY DEF Last, From
<1> QED BY <1>1 DEF SureInv, DepthInv, SureFor, DepthFor

\* The other workers keep what they have of the tables they use, and get nothing.
RestKept(w) ==
  /\ \A v \in Workers \ {w} : job'[v] = job[v]
  /\ \A f \in Files, v \in Workers \ {w} :
       /\ df'[f].owner = v => df[f].owner = v /\ df'[f].depth = df[f].depth
       /\ Has(v, f) /\ df[f].owner = v => df'[f].owner = v

LEMMA SureIn ==
  ASSUME NEW j \in Jobs, Fit(j), NEW i \in Sure(j)
  PROVE  i \in DOMAIN j.handles
<1>1. CASE j.at \in {"commit", "enter"}
  <2>1. j.k \in DOMAIN j.handles /\ i \in 1 .. j.k - 1
    BY <1>1 DEF Fit, InCommit, Sure
  <2>2. DOMAIN j.handles = 1 .. Len(j.handles) /\ Len(j.handles) \in Nat /\ j.k \in Nat
    BY SMT DEF Jobs
  <2> QED BY <2>1, <2>2, SMT
<1>2. CASE j.at \notin {"commit", "enter"}
  BY <1>2 DEF Sure
<1> QED BY <1>1, <1>2

LEMMA SureHas ==
  ASSUME KeptInv, NEW w \in Workers, NEW i \in Sure(job[w])
  PROVE  i \in DOMAIN job[w].handles /\ From(w)[i] \in Files /\ Has(w, From(w)[i])
<1>1. job[w] \in Jobs /\ Fit(job[w]) /\ \A n \in DOMAIN job[w].handles : From(w)[n] \in Files
  BY JobFacts
<1>2. i \in DOMAIN job[w].handles
  BY <1>1, SureIn
<1> QED BY <1>1, <1>2 DEF Has, From

\* The commit that w begins to wait in does not wait yet.
EnterOK(w) ==
  job'[w].at = "enter" /\ ~job'[w].misread => df'[(From(w))'[job'[w].k]].owner \in {None, w}

LEMMA LocksStep ==
  ASSUME KeptInv, LocksInv, NEW w \in Workers, RestKept(w),
         (SureFor(w))', (DepthFor(w))', EnterOK(w),
         dofn' # None => job'[dofn'].at = "flush"
  PROVE  LocksInv'
<1>1. \A v \in Workers \ {w} : job'[v] = job[v] /\ (From(v))' = From(v)
  BY DEF RestKept, From
<1>2. ASSUME NEW v \in Workers PROVE (SureFor(v))'
  <2>1. CASE v = w
    BY <2>1
  <2>2. CASE v # w
    <3>1. SureFor(v)
      BY ForEach DEF LocksInv
    <3>2. ASSUME NEW i \in Sure(job[v]) PROVE df'[From(v)[i]].owner = v
      BY <2>2, <3>1, SureHas DEF RestKept, SureFor
    <3> QED BY <1>1, <2>2, <3>1, <3>2 DEF SureFor
  <2> QED BY <2>1, <2>2
<1>3. ASSUME NEW v \in Workers PROVE (DepthFor(v))'
  <2>1. CASE v = w
    BY <2>1
  <2>2. CASE v # w
    <3>1. DepthFor(v)
      BY ForEach DEF LocksInv
    <3> QED BY <1>1, <2>2, <3>1 DEF RestKept, DepthFor
  <2> QED BY <2>1, <2>2
<1>4. ASSUME NEW S \in SUBSET Entering', S # {}
      PROVE  \E v \in S : df'[(From(v))'[job'[v].k]].owner \notin S \ {v}
  <2>1. CASE w \in S
    <3>1. df'[(From(w))'[job'[w].k]].owner \in {None, w}
      BY <1>4, <2>1 DEF EnterOK, Entering
    <3>2. None \notin S
      <4>1. \A v \in Workers : v # None
        BY SMT
      <4> QED BY <4>1 DEF Entering
    <3> QED BY <2>1, <3>1, <3>2
  <2>2. CASE w \notin S
    <3>1. \A v \in S : v \in Workers \ {w} /\ v \in Entering
      BY <1>1, <2>2 DEF Entering
    <3>2. PICK v \in S : df[From(v)[job[v].k]].owner \notin S \ {v}
      BY <1>4, <3>1 DEF LocksInv, WaitInv
    <3>3. From(v)[job[v].k] \in Files
      <4>1. /\ Fit(job[v]) /\ \A n \in DOMAIN job[v].handles : From(v)[n] \in Files
        BY <3>1, JobFacts
      <4>2. job[v].k \in DOMAIN job[v].handles
        BY <3>1, <4>1 DEF Entering, Fit, InCommit
      <4> QED BY <4>1, <4>2
    <3>4. df'[From(v)[job[v].k]].owner \notin S \ {v}
      BY <3>1, <3>2, <3>3 DEF RestKept
    <3> QED BY <1>1, <3>1, <3>4
  <2> QED BY <2>1, <2>2
<1>5. SureInv'
  <2>1. \A v \in Workers : (SureFor(v))'
    BY <1>2
  <2> QED BY <2>1, <1>2 DEF SureInv, SureFor
<1>6. DepthInv'
  <2>1. \A v \in Workers : (Last(job[v]))' <=>
          \A i \in DOMAIN job'[v].handles : (From(v))'[i] =
            job'[v].script.from[Len(job'[v].script.from) - Len(job'[v].handles) + i]
    BY DEF Last, From
  <2> QED BY <1>3, <2>1 DEF DepthInv, DepthFor
<1>7. WaitInv'
  BY <1>4 DEF WaitInv
<1> QED BY <1>5, <1>6, <1>7 DEF LocksInv

\* Nothing of the locks changes.
LEMMA LocksSame ==
  ASSUME LocksInv, job' = job, df' = df, dofn' = dofn
  PROVE  LocksInv'
<1>1. \A w \in Workers : (From(w))' = From(w)
  BY DEF From
<1>2. SureInv'
  BY <1>1 DEF LocksInv, SureInv
<1>3. DepthInv'
  BY <1>1 DEF LocksInv, DepthInv
<1>4. WaitInv'
  <2>1. Entering' = Entering
    BY DEF Entering
  <2>2. \A w \in Workers : (From(w))'[job'[w].k] = From(w)[job[w].k]
    BY <1>1
  <2> QED BY <2>1, <2>2 DEF LocksInv, WaitInv, Entering
<1> QED BY <1>2, <1>3, <1>4 DEF LocksInv

\* The dofn part for a worker that does not enter or leave the list.
LEMMA ListKept ==
  ASSUME KeptInv, LocksInv, NEW w \in Workers, RestKept(w), dofn' = dofn, job[w].at # "flush"
  PROVE  dofn' # None => job'[dofn'].at = "flush"
<1>1. dofn \in Workers \cup {None}
  BY DEF KeptInv, TypeOK
<1>2. dofn # None => job[dofn].at = "flush"
  BY DEF LocksInv, WaitInv
<1> QED BY <1>1, <1>2 DEF RestKept
-----------------------------------------------------------------------------
(* What a job holds                                                         *)

\* In a calm state only FROM holds tables; it holds them all.
LEMMA CalmHeld ==
  ASSUME NEW n, Calm(n)
  PROVE  /\ Sure(n) = {} /\ CommitHeld(n) = {} /\ AppendHeld(n) = {}
         /\ FromHeld(n) = 1 .. Len(n.handles) /\ n.at # "idle"
<1>1. 1 .. 1 - 1 = {}
  BY SMT
<1>2. Sure(n) = {}
  BY <1>1 DEF Calm, Sure
<1>3. CommitHeld(n) = {}
  BY <1>2 DEF Calm, CommitHeld
<1>4. FromHeld(n) = 1 .. Len(n.handles)
  BY DEF Calm, FromHeld
<1> QED BY <1>2, <1>3, <1>4 DEF Calm, AppendHeld

LEMMA IntervalFinite ==
  ASSUME NEW a \in Int, NEW b \in Int
  PROVE  IsFiniteSet(a .. b)
BY FS_Interval

LEMMA HeldFinite ==
  ASSUME NEW j \in Jobs, Fit(j), NEW f
  PROVE  IsFiniteSet(HeldOf(j, f)) /\ Cardinality(HeldOf(j, f)) \in Nat
<1>1. CASE j.at = "idle"
  <2>1. HeldOf(j, f) = {}
    BY <1>1 DEF HeldOf, Held
  <2> QED BY <2>1, FS_EmptySet
<1>2. CASE j.at # "idle"
  <2>1. /\ Len(j.handles) \in Int /\ j.k \in Int
        /\ DOMAIN j.handles = 1 .. Len(j.handles)
    BY SMT DEF Jobs
  <2>2. Len(j.script.from) \in Int
    <3>1. j.script \in Scripts
      BY <1>2 DEF Fit
    <3> QED BY <3>1, ScriptFacts
  <2>3. IsFiniteSet(FromHeld(j))
    <3> DEFINE n == Len(j.handles)
               l == Len(j.script.from)
    <3>1. n \in Int /\ l \in Int
      BY <2>1, <2>2
    <3> HIDE DEF n, l
    <3>2. 1 \in Int /\ n - 1 \in Int /\ l - n + 1 \in Int /\ l - n + 2 \in Int
      BY <3>1, SMT
    <3>3. /\ IsFiniteSet(1 .. n) /\ IsFiniteSet(1 .. n - 1)
          /\ IsFiniteSet(l - n + 1 .. l) /\ IsFiniteSet(l - n + 2 .. l)
      BY <3>1, <3>2, IntervalFinite
    <3> QED BY <3>3 DEF FromHeld, n, l
  <2>4. IsFiniteSet(CommitHeld(j))
    <3> DEFINE n == Len(j.handles)
               k == j.k
    <3>1. n \in Int /\ k \in Int /\ DOMAIN j.handles = 1 .. n
      BY <2>1
    <3> HIDE DEF n, k
    <3>2. 1 \in Int /\ k - 1 \in Int
      BY <3>1, SMT
    <3>3. /\ IsFiniteSet(1 .. n) /\ IsFiniteSet(1 .. k - 1) /\ IsFiniteSet(1 .. k)
          /\ IsFiniteSet(k .. n) /\ IsFiniteSet({})
      BY <3>1, <3>2, IntervalFinite, FS_EmptySet
    <3> QED BY <3>1, <3>3 DEF CommitHeld, Sure, n, k
  <2>5. IsFiniteSet(AppendHeld(j))
    BY FS_EmptySet, FS_Singleton DEF AppendHeld
  <2> DEFINE P == FromHeld(j) \cup CommitHeld(j) \cup AppendHeld(j)
             W == {"from", "commit", "append"}
  <2>6. IsFiniteSet(P)
    BY <2>3, <2>4, <2>5, FS_Union
  <2>7. IsFiniteSet(W)
    <3>1. IsFiniteSet({"from"}) /\ IsFiniteSet({"commit"}) /\ IsFiniteSet({"append"})
      BY FS_Singleton
    <3>2. IsFiniteSet({"from"} \cup {"commit"})
      BY <3>1, FS_Union
    <3>3. IsFiniteSet(({"from"} \cup {"commit"}) \cup {"append"})
      BY <3>1, <3>2, FS_Union
    <3>4. W = ({"from"} \cup {"commit"}) \cup {"append"}
      OBVIOUS
    <3> QED BY <3>3, <3>4
  <2>8. HeldOf(j, f) \in SUBSET (W \X P)
    BY <1>2 DEF HeldOf, Held
  <2> HIDE DEF W, P
  <2>9. IsFiniteSet(W \X P)
    BY <2>6, <2>7, FS_Product
  <2> QED BY <2>8, <2>9, FS_Subset, FS_CardinalityType
<1> QED BY <1>1, <1>2

\* What is held for each reason, but for one pair h, is held still.
LEMMA HeldParts ==
  ASSUME NEW j, NEW n, NEW h, n.script = j.script, n.at # "idle",
         j.script.exclusive => \A i \in FromHeld(j) : i \in FromHeld(n) \/ h = <<"from", i>>,
         \A i \in CommitHeld(j) : i \in CommitHeld(n) \/ h = <<"commit", i>>,
         \A i \in AppendHeld(j) : i \in AppendHeld(n) \/ h = <<"append", i>>
  PROVE  \A f : \A x \in HeldOf(j, f) : x \in HeldOf(n, f) \/ x = h
<1>1. ASSUME NEW x \in Held(j) PROVE x \in Held(n) \/ x = h
  <2>1. CASE j.script.exclusive /\ x \in {"from"} \X FromHeld(j)
    BY <2>1 DEF Held
  <2>2. CASE x \in {"commit"} \X CommitHeld(j)
    BY <2>2 DEF Held
  <2>3. CASE x \in {"append"} \X AppendHeld(j)
    BY <2>3 DEF Held
  <2> QED BY <1>1, <2>1, <2>2, <2>3 DEF Held
<1> QED BY <1>1 DEF HeldOf

\* Nothing is held that was not held before.
HeldMore(w) == \A f : HeldOf(job[w], f) \subseteq HeldOf(job'[w], f)

LEMMA HeldStays ==
  ASSUME NEW w, job'[w].script = job[w].script, job'[w].at # "idle",
         job[w].script.exclusive => FromHeld(job[w]) \subseteq FromHeld(job'[w]),
         CommitHeld(job[w]) \subseteq CommitHeld(job'[w]),
         AppendHeld(job[w]) \subseteq AppendHeld(job'[w])
  PROVE  HeldMore(w)
<1> DEFINE h == <<"none", 0>>
           n == job'[w]
<1>1. \A f : \A x \in HeldOf(job[w], f) : x \in HeldOf(n, f) \/ x = h
  BY HeldParts
<1>2. \A f : h \notin HeldOf(job[w], f)
  BY DEF HeldOf, Held
<1> QED BY <1>1, <1>2 DEF HeldMore
-----------------------------------------------------------------------------
(* How deep a worker is in its critical sections                            *)

\* Of what DepthFor says of w: the depths.
Deep(w) ==
  ~job[w].kept => \A f \in Files :
    df[f].owner = w => df[f].depth <= Cardinality(HeldOf(job[w], f))

LEMMA DeepBefore ==
  ASSUME LocksInv, NEW w \in Workers
  PROVE  Deep(w)
BY ForEach DEF LocksInv, DepthFor, Deep

LEMMA NextJob ==
  ASSUME KeptInv', NEW w \in Workers
  PROVE  /\ job' \in [Workers -> Jobs] /\ job'[w] \in Jobs /\ Fit(job'[w])
         /\ df' \in [Files -> dFILE]
         /\ \A f : IsFiniteSet(HeldOf(job'[w], f)) /\ Cardinality(HeldOf(job'[w], f)) \in Nat
<1>1. /\ job' \in [Workers -> Jobs] /\ job'[w] \in Jobs /\ Fit(job'[w])
      /\ df' \in [Files -> dFILE]
  BY DEF KeptInv, TypeOK, ControlInv
<1> QED BY <1>1, HeldFinite

\* w enters and leaves nothing; tables it does not use may be closed.
LEMMA DeepStays ==
  ASSUME KeptInv, KeptInv', LocksInv, NEW w \in Workers,
         \A f \in Files : df'[f].owner = w => df[f].owner = w /\ df'[f].depth = df[f].depth,
         ~job'[w].kept => ~job[w].kept /\ HeldMore(w)
  PROVE  (Deep(w))'
<1> SUFFICES ASSUME ~job'[w].kept, NEW f \in Files, df'[f].owner = w
             PROVE  df'[f].depth <= Cardinality(HeldOf(job'[w], f))
  BY DEF Deep
<1>1. df[f].depth <= Cardinality(HeldOf(job[w], f))
  BY DeepBefore DEF Deep
<1>2. /\ IsFiniteSet(HeldOf(job'[w], f)) /\ Cardinality(HeldOf(job'[w], f)) \in Nat
      /\ HeldOf(job[w], f) \in SUBSET HeldOf(job'[w], f)
  BY NextJob DEF HeldMore
<1>3. /\ Cardinality(HeldOf(job[w], f)) <= Cardinality(HeldOf(job'[w], f))
      /\ IsFiniteSet(HeldOf(job[w], f))
  BY <1>2, FS_Subset
<1>4. Cardinality(HeldOf(job[w], f)) \in Nat /\ df[f].depth \in Nat
  <2>1. df[f] \in dFILE
    BY DEF KeptInv, TypeOK
  <2> QED BY <1>3, <2>1, FS_CardinalityType DEF dFILE
<1> DEFINE a == Cardinality(HeldOf(job[w], f))
           b == Cardinality(HeldOf(job'[w], f))
<1> HIDE DEF a, b
<1>5. df[f].depth <= a /\ a <= b /\ a \in Nat /\ b \in Nat /\ df[f].depth \in Nat
  BY <1>1, <1>2, <1>3, <1>4 DEF a, b
<1>6. df[f].depth <= b
  BY <1>5, SMT
<1> QED BY <1>6 DEF b

\* wmtDbfLock: w holds f for one more reason.
LEMMA DeepEnters ==
  ASSUME KeptInv, KeptInv', LocksInv, NEW w \in Workers, NEW f \in Files,
         CanEnter(w, f), df' = Entered(w, f),
         ~job'[w].kept => ~job[w].kept /\ HeldMore(w),
         NEW h, h \in HeldOf(job'[w], f), h \notin HeldOf(job[w], f)
  PROVE  (Deep(w))'
<1>0. df \in [Files -> dFILE] /\ df[f] \in dFILE /\ df[f].depth \in Nat /\ w # None
  <2>1. df \in [Files -> dFILE]
    BY DEF KeptInv, TypeOK
  <2>2. df[f] \in dFILE
    BY <2>1
  <2>3. df[f].depth \in Nat
    BY <2>2 DEF dFILE
  <2>4. \A v \in Workers : v # None
    BY NoneIsNone
  <2> QED BY <2>1, <2>2, <2>3, <2>4
<1>1. /\ df'[f].depth = df[f].depth + 1 /\ df[f].owner \in {None, w}
      /\ \A g \in Files \ {f} : df'[g] = df[g]
  <2>1. /\ df'[f] = [df[f] EXCEPT !.owner = w, !.depth = @ + 1]
        /\ \A g \in Files \ {f} : df'[g] = df[g]
    BY <1>0 DEF Entered
  <2>2. df'[f].depth = df[f].depth + 1
    BY <1>0, <2>1, SMT DEF dFILE
  <2> QED BY <2>1, <2>2 DEF CanEnter
<1> SUFFICES ASSUME ~job'[w].kept, NEW g \in Files, df'[g].owner = w
             PROVE  df'[g].depth <= Cardinality(HeldOf(job'[w], g))
  BY DEF Deep
<1> DEFINE a == Cardinality(HeldOf(job[w], g))
           b == Cardinality(HeldOf(job'[w], g))
<1>2. /\ IsFiniteSet(HeldOf(job'[w], g)) /\ b \in Nat
      /\ HeldOf(job[w], g) \in SUBSET HeldOf(job'[w], g)
  BY NextJob DEF HeldMore
<1>3. a <= b /\ IsFiniteSet(HeldOf(job[w], g)) /\ a \in Nat
  BY <1>2, FS_Subset, FS_CardinalityType
<1>4. df[g].owner = w => df[g].depth <= a
  BY DeepBefore DEF Deep
<1>5. df[g].depth \in Nat /\ (df[g].owner = None => df[g].depth = 0)
  BY DEF KeptInv, TypeOK, dFILE
<1>6. CASE g # f
  <2>1. df[g].owner = w /\ df'[g].depth = df[g].depth
    BY <1>1, <1>6
  <2> HIDE DEF a, b
  <2>2. df[g].depth <= b
    BY <1>2, <1>3, <1>4, <1>5, <2>1, SMT
  <2> QED BY <2>1, <2>2 DEF b
<1>7. CASE g = f
  <2>1. a + 1 <= b
    <3>1. Cardinality(HeldOf(job[w], g) \cup {h}) = a + 1
      BY <1>3, <1>7, FS_AddElement
    <3>2. HeldOf(job[w], g) \cup {h} \in SUBSET HeldOf(job'[w], g)
      BY <1>2, <1>7
    <3>3. Cardinality(HeldOf(job[w], g) \cup {h}) <= b
      BY <1>2, <3>2, FS_Subset
    <3> QED BY <3>1, <3>3
  <2> HIDE DEF a, b
  <2>2. df[g].depth <= a
    BY <1>1, <1>3, <1>4, <1>5, <1>7, SMT
  <2>3. df[g].depth + 1 <= b
    BY <1>2, <1>3, <1>5, <2>1, <2>2, SMT
  <2> QED BY <1>1, <1>7, <2>3 DEF b
<1> QED BY <1>6, <1>7

\* wmtDbfUnLock: w holds f for one reason less.
LEMMA DeepLeaves ==
  ASSUME KeptInv, KeptInv', LocksInv, NEW w \in Workers, NEW f \in Files, df[f].owner = w,
         df' = [df EXCEPT ![f].depth = @ - 1,
                          ![f].owner = IF df[f].depth = 1 THEN None ELSE w],
         ~job'[w].kept => ~job[w].kept,
         NEW h, \A g : \A x \in HeldOf(job[w], g) : x \in HeldOf(job'[w], g) \/ x = h,
         \A g \in Files \ {f} : h \notin HeldOf(job[w], g)
  PROVE  (Deep(w))'
<1>0. df \in [Files -> dFILE] /\ df[f] \in dFILE /\ df[f].depth \in Nat /\ w # None
  <2>1. df \in [Files -> dFILE]
    BY DEF KeptInv, TypeOK
  <2>2. df[f] \in dFILE
    BY <2>1
  <2>3. df[f].depth \in Nat
    BY <2>2 DEF dFILE
  <2>4. \A v \in Workers : v # None
    BY NoneIsNone
  <2> QED BY <2>1, <2>2, <2>3, <2>4
<1>1. /\ df'[f].depth = df[f].depth - 1 /\ \A g \in Files \ {f} : df'[g] = df[g]
  <2>1. /\ df'[f] = [df[f] EXCEPT !.depth = @ - 1,
                                  !.owner = IF df[f].depth = 1 THEN None ELSE w]
        /\ \A g \in Files \ {f} : df'[g] = df[g]
    BY <1>0
  <2>2. df'[f].depth = df[f].depth - 1
    BY <1>0, <2>1, SMT DEF dFILE
  <2> QED BY <2>1, <2>2
<1> SUFFICES ASSUME ~job'[w].kept, NEW g \in Files, df'[g].owner = w
             PROVE  df'[g].depth <= Cardinality(HeldOf(job'[w], g))
  BY DEF Deep
<1> DEFINE A == HeldOf(job[w], g)
           B == HeldOf(job'[w], g)
           a == Cardinality(A)
           b == Cardinality(B)
<1>2. IsFiniteSet(B) /\ b \in Nat /\ A \subseteq B \cup {h}
  BY NextJob
<1>3. df[g].owner = w => df[g].depth <= a
  BY DeepBefore DEF Deep
<1>4. df[g].depth \in Nat
  BY DEF KeptInv, TypeOK, dFILE
<1>5. IsFiniteSet(A) /\ a \in Nat
  <2>1. job[w] \in Jobs /\ Fit(job[w])
    BY JobFacts
  <2> QED BY <2>1, HeldFinite
<1>6. CASE g # f
  <2>1. df[g].owner = w /\ df'[g].depth = df[g].depth
    BY <1>1, <1>6
  <2>2. A \in SUBSET B
    BY <1>2, <1>6
  <2>3. a <= b
    BY <1>2, <2>2, FS_Subset
  <2> HIDE DEF a, b
  <2>4. df[g].depth <= b
    BY <1>2, <1>3, <1>4, <1>5, <2>1, <2>3, SMT
  <2> QED BY <2>1, <2>4 DEF b
<1>7. CASE g = f
  <2> HIDE DEF A, B
  <2>1. a <= b + 1
    <3>1. IsFiniteSet(B \cup {h}) /\ Cardinality(B \cup {h}) =
            IF h \in B THEN b ELSE b + 1
      BY <1>2, FS_AddElement
    <3>2. a <= Cardinality(B \cup {h})
      BY <1>2, <3>1, FS_Subset
    <3> QED BY <1>2, <1>5, <3>1, <3>2, SMT
  <2> HIDE DEF a, b
  <2>2. df[f].depth - 1 <= b
    BY <1>0, <1>2, <1>3, <1>5, <1>7, <2>1, SMT
  <2> QED BY <1>1, <1>7, <2>2 DEF b, B
<1> QED BY <1>6, <1>7
-----------------------------------------------------------------------------
(* The shapes of the steps                                                  *)

SameOwners == \A f \in Files : df'[f].owner = df[f].owner /\ df'[f].depth = df[f].depth
OthersSame(w) == \A v \in Workers \ {w} : job'[v] = job[v]

LEMMA RestSame ==
  ASSUME NEW w \in Workers, OthersSame(w), SameOwners
  PROVE  RestKept(w)
BY DEF OthersSame, SameOwners, RestKept

LEMMA OwnerEntered ==
  ASSUME TypeOK, NEW w \in Workers, NEW f \in Files, CanEnter(w, f), df' = Entered(w, f)
  PROVE  /\ df'[f].owner = w /\ df[f].owner \in {None, w}
         /\ \A g \in Files \ {f} : df'[g] = df[g]
<1>1. df'[f] = [df[f] EXCEPT !.owner = w, !.depth = @ + 1] /\ df[f] \in dFILE
  BY DEF Entered, TypeOK
<1>2. df'[f].owner = w
  BY <1>1, SMT DEF dFILE
<1>3. \A g \in Files \ {f} : df'[g] = df[g]
  BY DEF Entered, TypeOK
<1> QED BY <1>2, <1>3 DEF CanEnter

LEMMA RestEntered ==
  ASSUME TypeOK, NEW w \in Workers, OthersSame(w), NEW f \in Files, CanEnter(w, f),
         df' = Entered(w, f)
  PROVE  RestKept(w)
<1>1. \A v \in Workers : v # None
  BY NoneIsNone
<1>0. /\ df'[f].owner = w /\ df[f].owner \in {None, w}
      /\ \A g \in Files \ {f} : df'[g] = df[g]
  BY OwnerEntered
<1>2. ASSUME NEW g \in Files, NEW v \in Workers \ {w}
      PROVE  /\ df'[g].owner = v => df[g].owner = v /\ df'[g].depth = df[g].depth
             /\ df[g].owner = v => df'[g].owner = v
  <2>1. CASE g = f
    BY <1>0, <1>1, <2>1
  <2>2. CASE g # f
    BY <1>0, <2>2
  <2> QED BY <2>1, <2>2
<1>3. \A v \in Workers \ {w} : job'[v] = job[v]
  BY DEF OthersSame
<1> QED BY <1>2, <1>3 DEF RestKept

LEMMA OwnerLeft ==
  ASSUME TypeOK, NEW w \in Workers, NEW f \in Files, df[f].owner = w,
         df' = [df EXCEPT ![f].depth = @ - 1,
                          ![f].owner = IF df[f].depth = 1 THEN None ELSE w]
  PROVE  df'[f].owner \in {None, w} /\ \A g \in Files \ {f} : df'[g] = df[g]
<1> DEFINE o == IF df[f].depth = 1 THEN None ELSE w
<1>0. o \in {None, w}
  OBVIOUS
<1>1. df' = [df EXCEPT ![f].depth = @ - 1, ![f].owner = o]
  OBVIOUS
<1> HIDE DEF o
<1>2. df'[f] = [df[f] EXCEPT !.depth = @ - 1, !.owner = o] /\ df[f] \in dFILE
  BY <1>1 DEF TypeOK
<1>3. df'[f].owner = o
  BY <1>2 DEF dFILE
<1>4. \A g \in Files \ {f} : df'[g] = df[g]
  BY <1>1 DEF TypeOK
<1> QED BY <1>0, <1>3, <1>4

LEMMA RestLeft ==
  ASSUME TypeOK, NEW w \in Workers, OthersSame(w), NEW f \in Files, df[f].owner = w,
         df' = [df EXCEPT ![f].depth = @ - 1,
                          ![f].owner = IF df[f].depth = 1 THEN None ELSE w]
  PROVE  RestKept(w)
<1>1. \A v \in Workers : v # None
  BY NoneIsNone
<1>0. /\ df'[f].owner \in {None, w}
      /\ \A g \in Files \ {f} : df'[g] = df[g]
  BY OwnerLeft
<1>2. ASSUME NEW g \in Files, NEW v \in Workers \ {w}
      PROVE  /\ df'[g].owner = v => df[g].owner = v /\ df'[g].depth = df[g].depth
             /\ df[g].owner = v => df'[g].owner = v
  <2>1. CASE g = f
    BY <1>0, <1>1, <2>1
  <2>2. CASE g # f
    BY <1>0, <2>2
  <2> QED BY <2>1, <2>2
<1>3. \A v \in Workers \ {w} : job'[v] = job[v]
  BY DEF OthersSame
<1> QED BY <1>2, <1>3 DEF RestKept

\* What the next job of w must be like, but for the depths.
NextOK(w) ==
  /\ \A i \in Sure(job'[w]) : df'[job'[w].handles[i].file].owner = w
  /\ job'[w].at \notin {"calrec", "apprec", "append"} => job'[w].seen = None
  /\ job'[w].at # "idle" => job'[w].no # 0
  /\ job'[w].at = "lock" => job'[w].script.exclusive
  /\ job'[w].at \in InClose => Last(job'[w])

LEMMA LocksNext ==
  ASSUME KeptInv, KeptInv', LocksInv, NEW w \in Workers, RestKept(w),
         dofn' # None => job'[dofn'].at = "flush", (Deep(w))', NextOK(w),
         job'[w].at # "enter" \/ EnterOK(w)
  PROVE  LocksInv'
<1>2. EnterOK(w)
  BY DEF EnterOK
<1>3. (DepthFor(w))'
  BY DEF DepthFor, Deep, NextOK
<1>4. (SureFor(w))'
  <2>1. \A i \in Sure(job'[w]) : i \in DOMAIN job'[w].handles
    BY NextJob, SureIn
  <2>2. \A i \in Sure(job'[w]) : (From(w))'[i] = job'[w].handles[i].file
    BY <2>1 DEF From
  <2> QED BY <2>2 DEF SureFor, NextOK
<1> QED BY <1>2, <1>3, <1>4, LocksStep

LEMMA LocksQuiet ==
  ASSUME KeptInv, KeptInv', LocksInv, NEW w \in Workers, RestKept(w), dofn' = dofn,
         job[w].at # "flush", (Deep(w))', NextOK(w),
         job'[w].at # "enter" \/ EnterOK(w)
  PROVE  LocksInv'
<1>1. dofn' # None => job'[dofn'].at = "flush"
  BY ListKept
<1> QED BY <1>1, LocksNext
\* A step of w that locks and unlocks nothing.
LEMMA StayStep ==
  ASSUME KeptInv, KeptInv', LocksInv, NEW w \in Workers, OthersSame(w), SameOwners,
         dofn' = dofn, job[w].at # "flush", NextOK(w),
         ~job'[w].kept => ~job[w].kept /\ HeldMore(w),
         job'[w].at # "enter" \/ EnterOK(w)
  PROVE  LocksInv'
<1>1. RestKept(w)
  BY RestSame
<1>2. \A f \in Files : df'[f].owner = w => df[f].owner = w /\ df'[f].depth = df[f].depth
  BY DEF SameOwners
<1>3. (Deep(w))'
  BY <1>2, DeepStays
<1> QED BY <1>1, <1>3, LocksQuiet

LEMMA EnterStep ==
  ASSUME KeptInv, KeptInv', LocksInv, NEW w \in Workers, OthersSame(w), NEW f \in Files,
         CanEnter(w, f), df' = Entered(w, f), dofn' = dofn, job[w].at # "flush", NextOK(w),
         ~job'[w].kept => ~job[w].kept /\ HeldMore(w),
         NEW h, h \in HeldOf(job'[w], f), h \notin HeldOf(job[w], f),
         job'[w].at # "enter"
  PROVE  LocksInv'
<1>1. RestKept(w)
  BY RestEntered DEF KeptInv
<1>2. (Deep(w))'
  BY DeepEnters
<1> QED BY <1>1, <1>2, LocksQuiet

LEMMA LeaveStep ==
  ASSUME KeptInv, KeptInv', LocksInv, NEW w \in Workers, OthersSame(w), NEW f \in Files,
         df[f].owner = w,
         df' = [df EXCEPT ![f].depth = @ - 1,
                          ![f].owner = IF df[f].depth = 1 THEN None ELSE w],
         dofn' = dofn, job[w].at # "flush", NextOK(w), ~job'[w].kept => ~job[w].kept,
         NEW h, \A g : \A x \in HeldOf(job[w], g) : x \in HeldOf(job'[w], g) \/ x = h,
         \A g \in Files \ {f} : h \notin HeldOf(job[w], g),
         job'[w].at # "enter"
  PROVE  LocksInv'
<1>1. RestKept(w)
  BY RestLeft DEF KeptInv
<1>2. (Deep(w))'
  BY DeepLeaves
<1> QED BY <1>1, <1>2, LocksQuiet

\* A step from one calm point of a script to another
LEMMA CalmStep ==
  ASSUME KeptInv, KeptInv', LocksInv, NEW w \in Workers, OthersSame(w), SameOwners,
         dofn' = dofn, Calm(job[w]), Calm(job'[w]), Alike(job'[w], job[w]),
         job'[w].at \notin {"calrec", "apprec"} => job'[w].seen = None
  PROVE  LocksInv'
<1>1. /\ Sure(job[w]) = {} /\ CommitHeld(job[w]) = {} /\ AppendHeld(job[w]) = {}
      /\ FromHeld(job[w]) = 1 .. Len(job[w].handles) /\ job[w].at # "idle"
  BY CalmHeld
<1>2. /\ Sure(job'[w]) = {} /\ CommitHeld(job'[w]) = {} /\ AppendHeld(job'[w]) = {}
      /\ FromHeld(job'[w]) = 1 .. Len(job'[w].handles) /\ job'[w].at # "idle"
  BY CalmHeld
<1>3. HeldMore(w)
  BY <1>1, <1>2, HeldStays DEF Alike
<1>4. job[w].no # 0
  BY <1>1, ForEach DEF LocksInv, SureFor
<1>5. NextOK(w)
  BY <1>2, <1>4 DEF NextOK, Alike, Calm, InClose
<1>6. job[w].at # "flush" /\ job'[w].at # "enter"
  BY DEF Calm
<1> QED BY <1>3, <1>5, <1>6, StayStep DEF Alike

\* What a step that takes w's job to n says of the next state.
LEMMA NextIs ==
  ASSUME KeptInv, NEW w \in Workers, NEW n, job' = [job EXCEPT ![w] = n]
  PROVE  job'[w] = n /\ OthersSame(w)
BY DEF KeptInv, TypeOK, OthersSame

LEMMA OwnersOfSame ==
  ASSUME df' = df
  PROVE  SameOwners
BY DEF SameOwners

\* What LocksInv says of the job of w itself.
LEMMA NowOK ==
  ASSUME KeptInv, LocksInv, NEW w \in Workers
  PROVE  /\ \A i \in Sure(job[w]) : df[job[w].handles[i].file].owner = w
         /\ job[w].at \notin {"calrec", "apprec", "append"} => job[w].seen = None
         /\ job[w].at # "idle" => job[w].no # 0
         /\ job[w].at = "lock" => job[w].script.exclusive
         /\ job[w].at \in InClose => Last(job[w])
<1>1. SureFor(w) /\ DepthFor(w)
  BY ForEach DEF LocksInv
<1>2. \A i \in Sure(job[w]) : From(w)[i] = job[w].handles[i].file
  <2>1. job[w] \in Jobs /\ Fit(job[w])
    BY JobFacts
  <2> QED BY <2>1, SureIn DEF From
<1> QED BY <1>1, <1>2 DEF SureFor, DepthFor
-----------------------------------------------------------------------------
(* The actions of a script                                                  *)

LEMMA ReadLocks ==
  ASSUME KeptInv, KeptInv', LocksInv, NEW w \in Workers, Read(w)
  PROVE  LocksInv'
<1> DEFINE x == <<Table(w), Act(w).rec, data[Table(w)][Act(w).rec]>>
           op == Act(w).op
           n == [job[w] EXCEPT !.at = op, !.seen = x]
<1>1. job[w].at = "act" /\ job' = [job EXCEPT ![w] = n] /\ df' = df /\ dofn' = dofn
  BY DEF Read, At
<1>2. job[w] \in Jobs /\ op \in {"calrec", "apprec"}
  BY <1>1, JobFacts, ActFacts DEF KeptInv, InAct
<1> HIDE DEF x, op
<1>3. Alike(n, job[w]) /\ n.at = op
  BY <1>2, SMT DEF Jobs, Alike
<1> HIDE DEF n
<1>4. job'[w] = n /\ OthersSame(w) /\ SameOwners
  BY <1>1, NextIs, OwnersOfSame
<1> QED BY <1>1, <1>2, <1>3, <1>4, CalmStep DEF Calm

LEMMA CalRecLaterLocks ==
  ASSUME KeptInv, KeptInv', LocksInv, NEW w \in Workers, CalRecLater(w)
  PROVE  LocksInv'
<1> DEFINE j == job[w]
           f == Table(w)
           i == LockOf(f, Act(w).rec)
           log == Append(j.log, [file |-> f, rec |-> Act(w).rec, slot |-> i])
           more == [j EXCEPT !.log = log]
<1>1. /\ j.at = "calrec" /\ dofn' = dofn
      /\ \/ df' = [df EXCEPT ![f].locks[i] = w] /\ job' = [job EXCEPT ![w] = Went(more)]
         \/ df' = df /\ job' = [job EXCEPT ![w] = Failed(j)]
  BY DEF CalRecLater, At
<1>2. /\ TypeOK /\ j \in Jobs /\ f \in Files /\ j.log \in Seq(Entries)
      /\ Act(w).rec \in Nat \ {0} /\ df \in [Files -> dFILE]
  BY <1>1, JobFacts, ActFacts DEF KeptInv, InAct, TypeOK
<1>3. CASE df' = [df EXCEPT ![f].locks[i] = w] /\ job' = [job EXCEPT ![w] = Went(more)]
  <2>1. SameOwners
    <3> DEFINE n == [df[f] EXCEPT !.locks[i] = w]
    <3>1. df[f] \in dFILE
      BY <1>2
    <3>2. n.owner = df[f].owner /\ n.depth = df[f].depth
      BY <3>1, SMT DEF dFILE
    <3>3. df'[f] = n /\ \A g \in Files \ {f} : df'[g] = df[g]
      BY <1>2, <1>3
    <3> HIDE DEF n
    <3> QED BY <3>2, <3>3 DEF SameOwners
  <2>2. i \in Slots
    BY <1>2, LockOfSlot
  <2> HIDE DEF i
  <2>3. [file |-> f, rec |-> Act(w).rec, slot |-> i] \in Entries
    BY <1>2, <2>2 DEF Entries
  <2>4. log \in Seq(Entries)
    BY <1>2, <2>3, AppendSeq
  <2> HIDE DEF log
  <2>5. more \in Jobs
    BY <1>2, <2>4 DEF Jobs
  <2>6. Alike(more, j)
    BY <1>2, SMT DEF Jobs, Alike
  <2> HIDE DEF more
  <2>7. Alike(Went(more), more) /\ Went(more).seen = None /\ Calm(Went(more))
    BY <2>5, WentMoves
  <2>8. job'[w] = Went(more) /\ OthersSame(w)
    BY <1>3, NextIs
  <2> QED BY <1>1, <2>1, <2>6, <2>7, <2>8, CalmStep DEF Calm, Alike
<1>4. CASE df' = df /\ job' = [job EXCEPT ![w] = Failed(j)]
  <2>1. Alike(Failed(j), j) /\ Failed(j).seen = None /\ Calm(Failed(j))
    BY <1>2, FailedMoves DEF Calm
  <2>2. job'[w] = Failed(j) /\ OthersSame(w) /\ SameOwners
    BY <1>4, NextIs, OwnersOfSame
  <2> QED BY <1>1, <2>1, <2>2, CalmStep DEF Calm
<1> QED BY <1>1, <1>3, <1>4

LEMMA CalRecNowLocks ==
  ASSUME KeptInv, KeptInv', LocksInv, NEW w \in Workers, CalRecNow(w)
  PROVE  LocksInv'
<1>1. /\ job[w].at = "calrec" /\ job' = [job EXCEPT ![w] = Went(job[w])]
      /\ df' = df /\ dofn' = dofn /\ job[w] \in Jobs
  BY JobFacts DEF CalRecNow, At
<1>2. /\ Alike(Went(job[w]), job[w]) /\ Went(job[w]).seen = None /\ Calm(Went(job[w]))
  BY <1>1, WentMoves
<1>3. job'[w] = Went(job[w]) /\ OthersSame(w) /\ SameOwners
  BY <1>1, NextIs, OwnersOfSame
<1> QED BY <1>1, <1>2, <1>3, CalmStep DEF Calm

LEMMA ActFailsLocks ==
  ASSUME KeptInv, KeptInv', LocksInv, NEW w \in Workers, ActFails(w)
  PROVE  LocksInv'
<1>1. /\ job[w].at = "calrec" /\ job' = [job EXCEPT ![w] = Failed(job[w])]
      /\ df' = df /\ dofn' = dofn /\ job[w] \in Jobs
  BY JobFacts DEF ActFails, At
<1>2. /\ Alike(Failed(job[w]), job[w]) /\ Failed(job[w]).seen = None /\ Calm(Failed(job[w]))
  BY <1>1, FailedMoves DEF Calm
<1>3. job'[w] = Failed(job[w]) /\ OthersSame(w) /\ SameOwners
  BY <1>1, NextIs, OwnersOfSame
<1> QED BY <1>1, <1>2, <1>3, CalmStep DEF Calm
LEMMA BeginLocks ==
  ASSUME KeptInv, KeptInv', LocksInv, NEW w \in Workers, Begin(w)
  PROVE  LocksInv'
<1> DEFINE m == number + 1
<1>1. /\ job[w].at = "idle" /\ df' = df /\ dofn' = dofn
      /\ \E s \in Scripts :
           job' = [job EXCEPT ![w].at = "from", ![w].script = s, ![w].no = m]
  BY DEF Begin, At
<1>2. PICK s \in Scripts :
        job' = [job EXCEPT ![w].at = "from", ![w].script = s, ![w].no = m]
  BY <1>1
<1> DEFINE n == [job[w] EXCEPT !.at = "from", !.script = s, !.no = m]
<1>3. m # 0
  <2>1. number \in Nat
    BY DEF KeptInv, TypeOK
  <2> QED BY <2>1, SMT
<1>4. job[w] \in Jobs
  BY JobFacts
<1> HIDE DEF m
<1>5. /\ n.at = "from" /\ n.no = m /\ n.handles = job[w].handles /\ n.seen = job[w].seen
      /\ n.kept = job[w].kept
  BY <1>4, SMT DEF Jobs
<1>6. job' = [job EXCEPT ![w] = n]
  BY <1>2 DEF KeptInv, TypeOK
<1> HIDE DEF n
<1>7. job'[w] = n /\ OthersSame(w) /\ SameOwners
  BY <1>1, <1>6, NextIs, OwnersOfSame
<1>8. Sure(n) = {}
  BY <1>5, CalmHeld DEF Calm
<1>9. NextOK(w)
  BY <1>1, <1>3, <1>5, <1>7, <1>8, NowOK DEF NextOK, InClose
<1>10. HeldMore(w)
  BY <1>1 DEF HeldMore, HeldOf, Held
<1> QED BY <1>1, <1>5, <1>7, <1>9, <1>10, StayStep

\* EXCLUSIVE keeps the table that FROM has just locked.
LEMMA LockFromLocks ==
  ASSUME KeptInv, KeptInv', LocksInv, NEW w \in Workers, LockFrom(w)
  PROVE  LocksInv'
<1> DEFINE j == job[w]
           n == Len(j.handles)
           f == j.handles[n].file
           next == Ready(j)
           h == <<"from", n>>
<1>1. j.at = "lock" /\ Lock(w, f, next) /\ dofn' = dofn
  BY DEF LockFrom, At
<1>2. /\ TypeOK /\ j \in Jobs /\ Fit(j) /\ j.script \in Scripts /\ n \in Nat
      /\ DOMAIN j.handles = 1 .. n /\ Len(j.script.from) \in Nat \ {0}
      /\ \A i \in DOMAIN j.handles : From(w)[i] \in Files
  BY <1>1, JobFacts
<1>3. n \in 1 .. Len(j.script.from) /\ j.k = 1 /\ Matched(j) /\ j.log = <<>>
  BY <1>1, <1>2 DEF Fit, InAct, InClose, Matched
<1>4. n \in DOMAIN j.handles
  BY <1>2, <1>3, SMT
<1>5. f = j.script.from[n] /\ f \in Files
  BY <1>2, <1>3, <1>4, FromFile DEF Matched
<1>6. /\ next \in Jobs /\ Alike(next, j) /\ next.seen = j.seen /\ Calm(next)
      /\ next.at \notin {"calrec", "apprec"}
  BY <1>2, <1>3, ReadyMoves, ReadyFit
<1> HIDE DEF next
<1>7. /\ CanEnter(w, f) /\ df' = Entered(w, f) /\ Copy(job'[w], next) /\ OthersSame(w)
  BY <1>1, <1>2, <1>6, LockMoves DEF OthersSame
<1>8. Calm(job'[w]) /\ Alike(job'[w], j) /\ job'[w].at \notin {"calrec", "apprec"}
  BY <1>6, <1>7 DEF Calm, Copy, Alike
<1>9. /\ Sure(job'[w]) = {} /\ CommitHeld(job'[w]) = {} /\ AppendHeld(job'[w]) = {}
      /\ FromHeld(job'[w]) = 1 .. n /\ job'[w].at # "idle"
  BY <1>8, CalmHeld DEF Alike
<1>10. /\ FromHeld(j) = 1 .. n - 1 /\ CommitHeld(j) = {} /\ AppendHeld(j) = {}
       /\ j.script.exclusive /\ j.seen = None /\ j.no # 0
  BY <1>1, NowOK DEF FromHeld, CommitHeld, Sure, AppendHeld
<1>11. n \in 1 .. n /\ n \notin 1 .. n - 1 /\ 1 .. n - 1 \subseteq 1 .. n
  <2>1. n \in Nat /\ n # 0
    BY <1>2, <1>3, SMT
  <2> HIDE DEF n
  <2> QED BY <2>1, SMT
<1>12. HeldMore(w)
  BY <1>8, <1>9, <1>10, <1>11, HeldStays DEF Alike
<1>13. h \in HeldOf(job'[w], f)
  BY <1>5, <1>8, <1>9, <1>10, <1>11 DEF HeldOf, Held, Alike
<1>14. h \notin HeldOf(j, f)
  BY <1>10, <1>11 DEF HeldOf, Held
<1>15. NextOK(w)
  BY <1>6, <1>7, <1>8, <1>9, <1>10 DEF NextOK, Alike, Copy, Calm, InClose
<1>16. job'[w].at # "enter"
  BY <1>8 DEF Calm
<1> QED BY <1>1, <1>5, <1>7, <1>8, <1>12, <1>13, <1>14, <1>15, <1>16, EnterStep DEF Alike

\* apprec keeps its table for the time of put1rec.
LEMMA ActTable ==
  ASSUME KeptInv, NEW w \in Workers, job[w].at \in InAct
  PROVE  /\ Table(w) \in Files /\ job[w].script.from[Act(w).table] = Table(w)
         /\ job[w].script \in Scripts /\ job[w] \in Jobs /\ Fit(job[w]) /\ TypeOK
<1>1. TypeOK /\ ControlInv /\ job[w] \in Jobs /\ Fit(job[w])
  BY JobFacts DEF KeptInv
<1>2. job[w].script \in Scripts /\ Act(w).table \in DOMAIN job[w].handles /\ Table(w) \in Files
  BY <1>1, ActFacts
<1>3. \A i \in DOMAIN job[w].handles : job[w].handles[i].file = job[w].script.from[i]
  BY <1>1 DEF Fit, InAct, InClose
<1> QED BY <1>1, <1>2, <1>3 DEF Table

LEMMA AppRecLockLocks ==
  ASSUME KeptInv, KeptInv', LocksInv, NEW w \in Workers, AppRecLock(w)
  PROVE  LocksInv'
<1> DEFINE j == job[w]
           f == Table(w)
           t == Act(w).table
           next == [j EXCEPT !.at = "append"]
           h == <<"append", t>>
<1>1. j.at = "apprec" /\ Lock(w, f, next) /\ dofn' = dofn
  BY DEF AppRecLock, At
<1>2. /\ TypeOK /\ j \in Jobs /\ f \in Files /\ j.script.from[t] = f
  BY <1>1, ActTable DEF InAct
<1>3. next \in Jobs
  <2>1. "append" \in Ats
    BY DEF Ats, InAct
  <2> QED BY <1>2, <2>1 DEF Jobs
<1>4. Alike(next, j) /\ next.at = "append" /\ next.k = j.k
  BY <1>2, SMT DEF Jobs, Alike
<1> HIDE DEF next
<1>5. /\ CanEnter(w, f) /\ df' = Entered(w, f) /\ Copy(job'[w], next) /\ OthersSame(w)
  BY <1>1, <1>2, <1>3, LockMoves DEF OthersSame
<1>6. Alike(job'[w], j) /\ job'[w].at = "append" /\ job'[w].k = j.k
  BY <1>4, <1>5 DEF Copy, Alike
<1>7. /\ FromHeld(job'[w]) = 1 .. Len(j.handles) /\ CommitHeld(job'[w]) = {}
      /\ AppendHeld(job'[w]) = {t} /\ Sure(job'[w]) = {}
  BY <1>6 DEF FromHeld, CommitHeld, Sure, AppendHeld, Act, Alike
<1>8. /\ FromHeld(j) = 1 .. Len(j.handles) /\ CommitHeld(j) = {} /\ AppendHeld(j) = {}
      /\ j.no # 0
  BY <1>1, CalmHeld, NowOK DEF Calm
<1>9. HeldMore(w)
  BY <1>6, <1>7, <1>8, HeldStays DEF Alike
<1>10. h \in HeldOf(job'[w], f) /\ h \notin HeldOf(j, f)
  BY <1>2, <1>6, <1>7, <1>8 DEF HeldOf, Held, Alike
<1>11. NextOK(w)
  BY <1>6, <1>7, <1>8 DEF NextOK, Alike, InClose
<1> QED BY <1>1, <1>2, <1>5, <1>6, <1>9, <1>10, <1>11, EnterStep DEF Alike

LEMMA AppRecPutLocks ==
  ASSUME KeptInv, KeptInv', LocksInv, NEW w \in Workers, AppRecPut(w)
  PROVE  LocksInv'
<1> DEFINE j == job[w]
           a == IF j.script.update THEN "unlock1" ELSE "unlock2"
           n == [j EXCEPT !.at = a, !.seen = None]
<1>1. j.at = "append" /\ df' = df /\ dofn' = dofn /\ job' = [job EXCEPT ![w] = n]
  BY DEF AppRecPut, At, KeptInv, TypeOK
<1>2. j \in Jobs
  BY JobFacts
<1>3. a \in {"unlock1", "unlock2"} /\ (a = "unlock2" => ~j.script.update)
  OBVIOUS
<1> HIDE DEF a
<1>4. Alike(n, j) /\ n.at = a /\ n.k = j.k /\ n.seen = None
  BY <1>2, SMT DEF Jobs, Alike
<1> HIDE DEF n
<1>5. job'[w] = n /\ OthersSame(w) /\ SameOwners
  BY <1>1, NextIs, OwnersOfSame
<1>6. /\ FromHeld(j) = 1 .. Len(j.handles) /\ CommitHeld(j) = {}
      /\ AppendHeld(j) = {j.script.acts[j.k].table} /\ j.no # 0
  BY <1>1, NowOK DEF FromHeld, CommitHeld, Sure, AppendHeld
<1>7. /\ FromHeld(n) = 1 .. Len(j.handles) /\ CommitHeld(n) = {} /\ Sure(n) = {}
      /\ AppendHeld(n) = {j.script.acts[j.k].table}
  BY <1>3, <1>4 DEF FromHeld, CommitHeld, Sure, AppendHeld, Alike
<1>8. HeldMore(w)
  BY <1>3, <1>4, <1>5, <1>6, <1>7, HeldStays DEF Alike
<1>9. NextOK(w)
  BY <1>3, <1>4, <1>5, <1>6, <1>7 DEF NextOK, Alike, InClose
<1> QED BY <1>1, <1>3, <1>4, <1>5, <1>8, <1>9, StayStep DEF Alike

LEMMA AppRecFailsLocks ==
  ASSUME KeptInv, KeptInv', LocksInv, NEW w \in Workers, AppRecFails(w)
  PROVE  LocksInv'
<1> DEFINE j == job[w]
           f == Table(w)
           t == j.script.acts[j.k].table
           h == <<"append", t>>
<1>1. dofn' = dofn /\ j.at = "append" /\ UnLock(w, f, Failed(j))
  BY DEF AppRecFails, At
<1>2. /\ TypeOK /\ j \in Jobs /\ Fit(j) /\ f \in Files /\ j.script.from[t] = f
  BY <1>1, ActTable DEF InAct, Act
<1>3. /\ Failed(j) \in Jobs /\ Alike(Failed(j), j) /\ Failed(j).seen = None
      /\ Failed(j).at \in {"free", "target"}
  BY <1>1, <1>2, FailedMoves, FailedFit DEF InAct
<1>4. CASE df' = df /\ job' = job
  BY <1>1, <1>4, LocksSame
<1>5. CASE /\ df[f].owner = w
           /\ df' = [df EXCEPT ![f].depth = @ - 1,
                               ![f].owner = IF df[f].depth = 1 THEN None ELSE w]
           /\ Copy(job'[w], Failed(j)) /\ OthersSame(w)
  <2>1. Alike(job'[w], j) /\ job'[w].seen = None /\ job'[w].at \in {"free", "target"}
    BY <1>3, <1>5 DEF Copy, Alike
  <2>2. /\ FromHeld(j) = 1 .. Len(j.handles) /\ CommitHeld(j) = {}
        /\ AppendHeld(j) = {t} /\ j.no # 0
    BY <1>1, NowOK DEF FromHeld, CommitHeld, Sure, AppendHeld
  <2>3. /\ FromHeld(job'[w]) = 1 .. Len(j.handles) /\ CommitHeld(job'[w]) = {}
        /\ Sure(job'[w]) = {}
    BY <2>1, CalmHeld DEF Alike, Calm
  <2>4. \A g : \A x \in HeldOf(j, g) : x \in HeldOf(job'[w], g) \/ x = h
    <3>1. \A i \in AppendHeld(j) : i \in AppendHeld(job'[w]) \/ h = <<"append", i>>
      BY <2>2
    <3>2. job'[w].script = j.script /\ job'[w].at # "idle"
      BY <2>1 DEF Alike
    <3> HIDE DEF h
    <3> QED BY <2>2, <2>3, <3>1, <3>2, HeldParts
  <2>5. \A g \in Files \ {f} : h \notin HeldOf(j, g)
    BY <1>2 DEF HeldOf
  <2>6. NextOK(w)
    BY <2>1, <2>2, <2>3 DEF NextOK, Alike, InClose
  <2> QED BY <1>1, <1>2, <1>5, <2>1, <2>4, <2>5, <2>6, LeaveStep DEF Alike
<1> QED BY <1>1, <1>2, <1>3, <1>4, <1>5, UnLockMoves DEF OthersSame

LEMMA AppRecUnLockLocks ==
  ASSUME KeptInv, KeptInv', LocksInv, NEW w \in Workers, AppRecUnLock(w)
  PROVE  LocksInv'
<1> DEFINE j == job[w]
           f == Table(w)
           t == j.script.acts[j.k].table
           log == Append(j.log, [file |-> f, rec |-> Len(data[f]), slot |-> None])
           on == [j EXCEPT !.at = "unlock2", !.log = log]
           h == <<"append", t>>
<1>1. /\ dofn' = dofn
      /\ \/ j.at = "unlock1" /\ UnLock(w, f, on)
         \/ j.at = "unlock2" /\ UnLock(w, f, Went(j))
  BY DEF AppRecUnLock, At
<1>2. /\ TypeOK /\ j \in Jobs /\ Fit(j) /\ f \in Files /\ j.script.from[t] = f
  BY <1>1, ActTable DEF InAct, Act
<1>3. PICK next : /\ UnLock(w, f, next) /\ next \in Jobs
                  /\ Alike(next, j) /\ next.seen = None
                  /\ \/ j.at = "unlock1" /\ next.at = "unlock2"
                     \/ j.at = "unlock2" /\ Calm(next) /\ next.at \in {"act", "commit", "target"}
  <2>1. CASE j.at = "unlock1" /\ UnLock(w, f, on)
    <3>1. on \in Jobs
      <4>1. data[f] \in Seq(0 .. MaxScripts) /\ RecNum[f] <= Len(data[f]) /\ RecNum[f] \in Nat \ {0}
        BY <1>2 DEF KeptInv, TypeOK, HeldInv
      <4>2. Len(data[f]) \in Nat \ {0}
        BY <4>1, SMT
      <4>3. [file |-> f, rec |-> Len(data[f]), slot |-> None] \in Entries
        BY <1>2, <4>2 DEF Entries
      <4>4. j.log \in Seq(Entries)
        BY JobFacts
      <4>5. log \in Seq(Entries)
        BY <4>3, <4>4, AppendSeq
      <4>6. "unlock2" \in Ats
        BY DEF Ats, InAct
      <4> HIDE DEF log
      <4> QED BY <1>2, <4>5, <4>6 DEF Jobs
    <3> HIDE DEF log
    <3>2. Alike(on, j) /\ on.seen = j.seen /\ on.at = "unlock2"
      BY <1>2, SMT DEF Jobs, Alike
    <3>3. j.seen = None
      BY <2>1, NowOK
    <3> HIDE DEF on
    <3> QED BY <2>1, <3>1, <3>2, <3>3
  <2>2. CASE j.at = "unlock2" /\ UnLock(w, f, Went(j))
    BY <1>2, <2>2, WentMoves, WentFit DEF InAct
  <2> QED BY <1>1, <2>1, <2>2
<1>4. CASE df' = df /\ job' = job
  BY <1>1, <1>4, LocksSame
<1>5. CASE /\ df[f].owner = w
           /\ df' = [df EXCEPT ![f].depth = @ - 1,
                               ![f].owner = IF df[f].depth = 1 THEN None ELSE w]
           /\ Copy(job'[w], next) /\ OthersSame(w)
  <2>1. Alike(job'[w], j) /\ job'[w].seen = None /\ job'[w].at = next.at /\ job'[w].k = next.k
    BY <1>3, <1>5 DEF Copy, Alike
  <2>2. /\ FromHeld(j) = 1 .. Len(j.handles) /\ CommitHeld(j) = {}
        /\ AppendHeld(j) \subseteq {t} /\ j.no # 0
    BY <1>3, NowOK DEF FromHeld, CommitHeld, Sure, AppendHeld
  <2>3. /\ FromHeld(job'[w]) = 1 .. Len(j.handles) /\ CommitHeld(job'[w]) = {}
        /\ Sure(job'[w]) = {} /\ job'[w].at \in {"unlock2", "act", "commit", "target"}
    <3>1. CASE next.at = "unlock2"
      BY <2>1, <3>1 DEF FromHeld, CommitHeld, Sure, Alike
    <3>2. CASE Calm(next) /\ next.at \in {"act", "commit", "target"}
      <4>1. Calm(job'[w])
        BY <2>1, <3>2 DEF Calm
      <4> QED BY <2>1, <3>2, <4>1, CalmHeld DEF Alike
    <3> QED BY <1>3, <3>1, <3>2
  <2>4. \A g : \A x \in HeldOf(j, g) : x \in HeldOf(job'[w], g) \/ x = h
    <3>1. \A i \in AppendHeld(j) : i \in AppendHeld(job'[w]) \/ h = <<"append", i>>
      BY <2>2
    <3>2. job'[w].script = j.script /\ job'[w].at # "idle"
      BY <2>1, <2>3 DEF Alike
    <3> HIDE DEF h
    <3> QED BY <2>2, <2>3, <3>1, <3>2, HeldParts
  <2>5. \A g \in Files \ {f} : h \notin HeldOf(j, g)
    BY <1>2 DEF HeldOf
  <2>6. NextOK(w)
    BY <2>1, <2>2, <2>3 DEF NextOK, Alike, InClose
  <2> QED BY <1>1, <1>2, <1>3, <1>5, <2>1, <2>3, <2>4, <2>5, <2>6, LeaveStep DEF Alike
<1> QED BY <1>2, <1>3, <1>4, <1>5, UnLockMoves DEF OthersSame
-----------------------------------------------------------------------------
(* The actions of a commit                                                  *)

LEMMA TryLockLocks ==
  ASSUME KeptInv, KeptInv', LocksInv, NEW w \in Workers, TryLock(w)
  PROVE  LocksInv'
<1> DEFINE j == job[w]
           f == From(w)[j.k]
           taken == df[f].owner \notin {None, w}
           kept == j.kept \/ j.k > 1
           last == Len(j.handles)
           try == [j EXCEPT !.at = "enter", !.misread = taken]
           up == [j EXCEPT !.at = "free", !.k = last, !.log = <<>>, !.kept = kept]
           back == [j EXCEPT !.at = "retreat", !.k = j.k - 1, !.tries = @ - 1]
           again == [j EXCEPT !.at = "commit", !.k = 1, !.tries = @ - 1]
<1>1. j.at = "commit" /\ df' = df /\ dofn' = dofn
  BY DEF TryLock, At
<1>2. \/ job' = [job EXCEPT ![w] = try]
      \/ job' = [job EXCEPT ![w] = up]
      \/ j.k # 1 /\ job' = [job EXCEPT ![w] = back]
      \/ j.k = 1 /\ job' = [job EXCEPT ![w] = again]
  BY <1>1 DEF TryLock
<1>3. /\ TypeOK /\ j \in Jobs /\ Fit(j) /\ j.k \in Nat
      /\ DOMAIN j.handles = 1 .. last /\ last \in Nat
  BY JobFacts
<1>4. j.k \in 1 .. last
  BY <1>1, <1>3 DEF Fit, InCommit
<1>5. /\ Sure(j) = 1 .. j.k - 1 /\ CommitHeld(j) = 1 .. j.k - 1 /\ AppendHeld(j) = {}
      /\ FromHeld(j) = 1 .. last
  BY <1>1 DEF Sure, CommitHeld, AppendHeld, FromHeld
<1>6. /\ j.seen = None /\ j.no # 0
      /\ \A i \in 1 .. j.k - 1 : df[j.handles[i].file].owner = w
  BY <1>1, <1>5, NowOK
<1>7. CASE job' = [job EXCEPT ![w] = try]
  <2> HIDE DEF taken
  <2>1. Alike(try, j) /\ try.at = "enter" /\ try.k = j.k /\ try.seen = j.seen
    BY <1>3, SMT DEF Jobs, Alike
  <2>2. try.misread = taken
    BY <1>3, Zenon DEF Jobs
  <2> HIDE DEF try
  <2>3. job'[w] = try /\ OthersSame(w) /\ SameOwners
    BY <1>1, <1>7, NextIs, OwnersOfSame
  <2>4. /\ Sure(try) = 1 .. j.k - 1 /\ CommitHeld(try) = 1 .. j.k - 1 /\ AppendHeld(try) = {}
        /\ FromHeld(try) = 1 .. last
    BY <2>1 DEF Sure, CommitHeld, AppendHeld, FromHeld, Alike
  <2>5. HeldMore(w)
    BY <1>5, <2>1, <2>3, <2>4, HeldStays DEF Alike
  <2>6. NextOK(w)
    BY <1>1, <1>6, <2>1, <2>3, <2>4 DEF NextOK, Alike, InClose
  <2>7. EnterOK(w)
    <3>1. (From(w))' = From(w)
      BY <2>1, <2>3 DEF From, Alike
    <3> QED BY <1>1, <2>1, <2>2, <2>3, <3>1 DEF EnterOK, taken
  <2> QED BY <1>1, <2>1, <2>3, <2>5, <2>6, <2>7, StayStep DEF Alike
<1>8. CASE job' = [job EXCEPT ![w] = up]
  <2> HIDE DEF kept
  <2>1. /\ up.script = j.script /\ up.handles = j.handles /\ up.no = j.no /\ up.seen = j.seen
        /\ up.at = "free"
    BY <1>3, SMT DEF Jobs
  <2>2. up.kept = kept
    BY <1>3, Zenon DEF Jobs
  <2> HIDE DEF up
  <2>3. job'[w] = up /\ OthersSame(w) /\ SameOwners
    BY <1>1, <1>8, NextIs, OwnersOfSame
  <2>4. /\ Sure(up) = {} /\ CommitHeld(up) = {} /\ AppendHeld(up) = {}
        /\ FromHeld(up) = 1 .. last
    BY <2>1, CalmHeld DEF Calm
  <2>5. NextOK(w)
    BY <1>6, <2>1, <2>3, <2>4 DEF NextOK, InClose
  <2>6. ASSUME ~up.kept PROVE ~j.kept /\ HeldMore(w)
    <3>1. ~j.kept /\ ~(j.k > 1)
      BY <2>2, <2>6 DEF kept
    <3>2. 1 .. j.k - 1 = {}
      BY <1>3, <3>1, SMT
    <3> QED BY <1>5, <2>1, <2>3, <2>4, <3>1, <3>2, HeldStays
  <2> QED BY <1>1, <2>1, <2>3, <2>5, <2>6, StayStep
<1>9. CASE j.k # 1 /\ job' = [job EXCEPT ![w] = back]
  <2>1. /\ Alike(back, j) /\ back.at = "retreat" /\ back.k = j.k - 1 /\ back.seen = j.seen
    BY <1>3, SMT DEF Jobs, Alike
  <2> HIDE DEF back
  <2>2. job'[w] = back /\ OthersSame(w) /\ SameOwners
    BY <1>1, <1>9, NextIs, OwnersOfSame
  <2>3. /\ Sure(back) = {} /\ CommitHeld(back) = 1 .. j.k - 1 /\ AppendHeld(back) = {}
        /\ FromHeld(back) = 1 .. last
    BY <2>1 DEF Sure, CommitHeld, AppendHeld, FromHeld, Alike
  <2>4. HeldMore(w)
    BY <1>5, <2>1, <2>2, <2>3, HeldStays DEF Alike
  <2>5. NextOK(w)
    BY <1>6, <2>1, <2>2, <2>3 DEF NextOK, Alike, InClose
  <2> QED BY <1>1, <2>1, <2>2, <2>4, <2>5, StayStep DEF Alike
<1>10. CASE j.k = 1 /\ job' = [job EXCEPT ![w] = again]
  <2>1. /\ Alike(again, j) /\ again.at = "commit" /\ again.k = 1 /\ again.seen = j.seen
    BY <1>3, SMT DEF Jobs, Alike
  <2> HIDE DEF again
  <2>2. job'[w] = again /\ OthersSame(w) /\ SameOwners
    BY <1>1, <1>10, NextIs, OwnersOfSame
  <2> QED BY <1>1, <1>6, <1>10, <2>1, <2>2, CalmStep DEF Calm
<1> QED BY <1>2, <1>7, <1>8, <1>9, <1>10

\* The position in FROM for which a commit holds a table, and the table
LEMMA CommitTable ==
  ASSUME KeptInv, NEW w \in Workers, job[w].at \in InCommit
  PROVE  /\ job[w].k \in DOMAIN job[w].handles /\ From(w)[job[w].k] \in Files
         /\ job[w].script.from[job[w].k] = From(w)[job[w].k]
         /\ job[w].handles[job[w].k].file = From(w)[job[w].k]
<1>1. /\ Fit(job[w]) /\ \A i \in DOMAIN job[w].handles : From(w)[i] \in Files
  BY JobFacts
<1>2. job[w].k \in DOMAIN job[w].handles
  BY <1>1 DEF Fit
<1>3. \A i \in DOMAIN job[w].handles : job[w].handles[i].file = job[w].script.from[i]
  BY <1>1 DEF Fit, InCommit, InClose
<1> QED BY <1>1, <1>2, <1>3 DEF From

LEMMA TryEnterLocks ==
  ASSUME KeptInv, KeptInv', LocksInv, NEW w \in Workers, TryEnter(w)
  PROVE  LocksInv'
<1> DEFINE j == [job[w] EXCEPT !.misread = FALSE]
           f == From(w)[j.k]
           on == [j EXCEPT !.at = "commit", !.k = @ + 1]
           all == [j EXCEPT !.k = 1]
           next == IF j.k < Len(j.handles) THEN on ELSE Writing(all)
           m == job[w].k
           last == Len(job[w].handles)
           h == <<"commit", m>>
<1>1. job[w].at = "enter" /\ Lock(w, f, next) /\ dofn' = dofn
  BY DEF TryEnter, At
<1>2. /\ TypeOK /\ job[w] \in Jobs /\ Fit(job[w]) /\ m \in Nat /\ last \in Nat
      /\ DOMAIN job[w].handles = 1 .. last
  BY JobFacts
<1>3. /\ m \in 1 .. last /\ From(w)[m] \in Files /\ job[w].script.from[m] = From(w)[m]
      /\ job[w].handles[m].file = From(w)[m]
  BY <1>1, <1>2, CommitTable DEF InCommit
<1>4. j \in Jobs /\ Alike(j, job[w]) /\ j.k = m /\ j.seen = job[w].seen
  <2>1. j \in Jobs
    BY <1>2 DEF Jobs
  <2> QED BY <1>2, <2>1, SMT DEF Jobs, Alike
<1>5. /\ Sure(job[w]) = 1 .. m - 1 /\ CommitHeld(job[w]) = 1 .. m - 1
      /\ AppendHeld(job[w]) = {} /\ FromHeld(job[w]) = 1 .. last
  BY <1>1 DEF Sure, CommitHeld, AppendHeld, FromHeld
<1>6. /\ job[w].seen = None /\ job[w].no # 0
      /\ \A i \in 1 .. m - 1 : df[job[w].handles[i].file].owner = w
  BY <1>1, <1>5, NowOK
<1> HIDE DEF j
<1>7. /\ next \in Jobs /\ Alike(next, job[w]) /\ next.seen = None
      /\ \/ next.at = "commit" /\ next.k = m + 1 /\ m < last
         \/ next.at = "write" /\ m = last
         \/ next.at = "unlock" /\ next.k = 1 /\ m = last
  <2>1. CASE m < last
    <3>1. next = on
      BY <1>4, <2>1 DEF Alike
    <3>2. j.k + 1 \in Nat /\ "commit" \in Ats
      BY <1>2, <1>4, SMT DEF Ats, InCommit
    <3>3. on \in Jobs
      BY <1>4, <3>2 DEF Jobs
    <3>4. Alike(on, j) /\ on.seen = j.seen /\ on.at = "commit" /\ on.k = j.k + 1
      BY <1>4, SMT DEF Jobs, Alike
    <3> HIDE DEF on, next
    <3> QED BY <1>4, <1>6, <2>1, <3>1, <3>3, <3>4 DEF Alike
  <2>2. CASE ~(m < last)
    <3>1. next = Writing(all) /\ m = last
      <4>1. m = last
        BY <1>2, <1>3, <2>2, SMT
      <4> QED BY <1>4, <2>2, <4>1 DEF Alike
    <3>2. all \in Jobs
      BY <1>4 DEF Jobs
    <3>3. Alike(all, j) /\ all.seen = j.seen /\ all.log = j.log /\ all.k = 1
      BY <1>4, SMT DEF Jobs, Alike
    <3> HIDE DEF all, next
    <3>4. /\ Alike(Writing(all), all) /\ Writing(all).seen = all.seen
          /\ \/ Writing(all).at = "write"
             \/ Writing(all).at = "unlock" /\ Writing(all).k = 1
      BY <3>2, WritingMoves
    <3>5. Writing(all) \in Jobs
      <4>1. Len(all.log) \in Nat /\ all.log # <<>> => Len(all.log) # 0
        BY <3>2, SMT DEF Jobs
      <4>2. CASE all.k <= Len(all.log)
        <5>1. "write" \in Ats
          BY DEF Ats
        <5>2. Writing(all) = [all EXCEPT !.at = "write"]
          BY <4>2 DEF Writing
        <5> QED BY <3>2, <5>1, <5>2 DEF Jobs
      <4>3. CASE ~(all.k <= Len(all.log))
        <5>1. "unlock" \in Ats /\ <<>> \in Seq(Entries) /\ 1 \in Nat
          BY SMT DEF Ats, InCommit
        <5>2. Writing(all) = [all EXCEPT !.at = "unlock", !.k = 1, !.log = <<>>]
          BY <4>3 DEF Writing
        <5> QED BY <3>2, <5>1, <5>2 DEF Jobs
      <4> QED BY <4>2, <4>3
    <3> QED BY <1>4, <1>6, <3>1, <3>3, <3>4, <3>5 DEF Alike
  <2> QED BY <2>1, <2>2
<1>8. f = From(w)[m]
  BY <1>4
<1> HIDE DEF next, f
<1>9. CanEnter(w, f) /\ df' = Entered(w, f) /\ Copy(job'[w], next) /\ OthersSame(w)
  BY <1>1, <1>2, <1>7, LockMoves DEF OthersSame
<1>10. /\ Alike(job'[w], job[w]) /\ job'[w].seen = None
       /\ \/ job'[w].at = "commit" /\ job'[w].k = m + 1 /\ m < last
          \/ job'[w].at = "write" /\ m = last
          \/ job'[w].at = "unlock" /\ job'[w].k = 1 /\ m = last
  BY <1>7, <1>9 DEF Copy, Alike
<1>11. /\ CommitHeld(job'[w]) = 1 .. m /\ Sure(job'[w]) \subseteq 1 .. m
       /\ AppendHeld(job'[w]) = {} /\ FromHeld(job'[w]) = 1 .. last
  <2>2. job'[w].handles = job[w].handles
    BY <1>10 DEF Alike
  <2>3. CASE job'[w].at = "commit" /\ job'[w].k = m + 1
    <3>1. job'[w].k - 1 = m
      <4>1. m \in Nat /\ job'[w].k = m + 1
        BY <1>2, <2>3
      <4> HIDE DEF m
      <4> QED BY <4>1, SMT
    <3>2. Sure(job'[w]) = 1 .. job'[w].k - 1
      BY <2>3 DEF Sure
    <3> QED BY <2>2, <2>3, <3>1, <3>2 DEF CommitHeld, AppendHeld, FromHeld
  <2>4. CASE job'[w].at = "write" /\ m = last
    BY <1>2, <2>2, <2>4 DEF Sure, CommitHeld, AppendHeld, FromHeld
  <2>5. CASE job'[w].at = "unlock" /\ job'[w].k = 1 /\ m = last
    BY <2>2, <2>5 DEF Sure, CommitHeld, AppendHeld, FromHeld
  <2> QED BY <1>10, <2>3, <2>4, <2>5
<1>12. 1 .. m - 1 \subseteq 1 .. m /\ m \in 1 .. m /\ m \notin 1 .. m - 1
       /\ \A i \in 1 .. m : i \in 1 .. m - 1 \/ i = m
  BY <1>2, <1>3, SMT
<1>13. HeldMore(w)
  BY <1>5, <1>10, <1>11, <1>12, HeldStays DEF Alike
<1>14. h \in HeldOf(job'[w], f) /\ h \notin HeldOf(job[w], f)
  BY <1>3, <1>5, <1>8, <1>10, <1>11, <1>12 DEF HeldOf, Held, Alike
<1>15. \A i \in 1 .. m : df'[job[w].handles[i].file].owner = w
  <2>1. /\ df'[f].owner = w /\ \A g \in Files \ {f} : df'[g] = df[g]
    BY <1>2, <1>3, <1>8, <1>9, OwnerEntered
  <2> SUFFICES ASSUME NEW i \in 1 .. m PROVE df'[job[w].handles[i].file].owner = w
    OBVIOUS
  <2>2. i \in 1 .. last
    BY <1>2, <1>3, SMT
  <2>3. job[w].handles[i].file \in Files
    BY <1>2, <2>2, FromFile
  <2> QED BY <1>3, <1>6, <1>8, <1>12, <2>1, <2>3
<1>16. NextOK(w)
  BY <1>6, <1>10, <1>11, <1>15 DEF NextOK, Alike, InClose
<1> QED BY <1>1, <1>3, <1>8, <1>9, <1>10, <1>13, <1>14, <1>16, EnterStep DEF Alike

LEMMA RetreatLocks ==
  ASSUME KeptInv, KeptInv', LocksInv, NEW w \in Workers, Retreat(w)
  PROVE  LocksInv'
<1> DEFINE j == job[w]
           f == From(w)[j.k]
           back == [j EXCEPT !.k = @ - 1]
           again == [j EXCEPT !.at = "commit"]
           next == IF j.k > 1 THEN back ELSE again
           h == <<"commit", j.k>>
<1>1. j.at = "retreat" /\ UnLock(w, f, next) /\ dofn' = dofn
  BY DEF Retreat, At
<1>2. /\ TypeOK /\ j \in Jobs /\ Fit(j) /\ j.k \in Nat /\ Len(j.handles) \in Nat
      /\ DOMAIN j.handles = 1 .. Len(j.handles)
  BY JobFacts
<1>3. j.k \in DOMAIN j.handles /\ f \in Files /\ j.script.from[j.k] = f
  BY <1>1, <1>2, CommitTable DEF InCommit
<1>4. /\ next \in Jobs /\ Alike(next, j) /\ next.seen = j.seen
      /\ \/ next.at = "retreat" /\ next.k = j.k - 1
         \/ next.at = "commit" /\ next.k = 1 /\ j.k = 1
  <2>1. CASE j.k > 1
    <3>1. next = back
      BY <2>1
    <3>2. j.k - 1 \in Nat
      BY <1>2, <2>1, SMT
    <3>3. back \in Jobs
      BY <1>2, <3>2 DEF Jobs
    <3>4. Alike(back, j) /\ back.seen = j.seen /\ back.at = "retreat" /\ back.k = j.k - 1
      BY <1>1, <1>2, SMT DEF Jobs, Alike
    <3> HIDE DEF back, next
    <3> QED BY <3>1, <3>3, <3>4
  <2>2. CASE ~(j.k > 1)
    <3>1. next = again
      BY <2>2
    <3>2. j.k = 1
      BY <1>2, <1>3, <2>2, SMT
    <3>3. "commit" \in Ats
      BY DEF Ats, InCommit
    <3>4. again \in Jobs
      BY <1>2, <3>3 DEF Jobs
    <3>5. Alike(again, j) /\ again.seen = j.seen /\ again.at = "commit" /\ again.k = j.k
      BY <1>2, SMT DEF Jobs, Alike
    <3> HIDE DEF again, next
    <3> QED BY <3>1, <3>2, <3>4, <3>5
  <2> QED BY <2>1, <2>2
<1> HIDE DEF next
<1>5. CASE df' = df /\ job' = job
  BY <1>1, <1>5, LocksSame
<1>6. CASE /\ df[f].owner = w
           /\ df' = [df EXCEPT ![f].depth = @ - 1,
                               ![f].owner = IF df[f].depth = 1 THEN None ELSE w]
           /\ Copy(job'[w], next) /\ OthersSame(w)
  <2>1. /\ Alike(job'[w], j) /\ job'[w].seen = j.seen
        /\ \/ job'[w].at = "retreat" /\ job'[w].k = j.k - 1
           \/ job'[w].at = "commit" /\ job'[w].k = 1 /\ j.k = 1
    BY <1>4, <1>6 DEF Copy, Alike
  <2>2. /\ FromHeld(j) = 1 .. Len(j.handles) /\ CommitHeld(j) = 1 .. j.k
        /\ AppendHeld(j) = {} /\ j.no # 0 /\ j.seen = None
    BY <1>1, NowOK DEF FromHeld, CommitHeld, AppendHeld
  <2>3. /\ FromHeld(job'[w]) = 1 .. Len(j.handles) /\ CommitHeld(job'[w]) = 1 .. j.k - 1
        /\ AppendHeld(job'[w]) = {} /\ Sure(job'[w]) = {}
    <3>1. CASE job'[w].at = "retreat" /\ job'[w].k = j.k - 1
      BY <2>1, <3>1 DEF FromHeld, CommitHeld, AppendHeld, Sure, Alike
    <3>2. CASE job'[w].at = "commit" /\ job'[w].k = 1 /\ j.k = 1
      <4>1. Calm(job'[w]) /\ 1 .. 1 - 1 = {}
        BY <3>2, SMT DEF Calm
      <4> QED BY <2>1, <3>2, <4>1, CalmHeld DEF Alike
    <3> QED BY <2>1, <3>1, <3>2
  <2>4. \A g : \A x \in HeldOf(j, g) : x \in HeldOf(job'[w], g) \/ x = h
    <3>1. \A i \in 1 .. j.k : i \in 1 .. j.k - 1 \/ h = <<"commit", i>>
      <4>1. \A i \in 1 .. j.k : i \in 1 .. j.k - 1 \/ i = j.k
        BY <1>2, SMT
      <4> QED BY <4>1
    <3>2. job'[w].script = j.script /\ job'[w].at # "idle"
      BY <2>1 DEF Alike
    <3> HIDE DEF h
    <3> QED BY <2>2, <2>3, <3>1, <3>2, HeldParts
  <2>5. \A g \in Files \ {f} : h \notin HeldOf(j, g)
    BY <1>3 DEF HeldOf
  <2>6. NextOK(w)
    BY <2>1, <2>2, <2>3 DEF NextOK, Alike, InClose
  <2> HIDE DEF h, f
  <2> QED BY <1>1, <1>3, <1>6, <2>1, <2>4, <2>5, <2>6, LeaveStep DEF Alike
<1> QED BY <1>1, <1>2, <1>3, <1>4, <1>5, <1>6, UnLockMoves DEF OthersSame

LEMMA WriteLogLocks ==
  ASSUME KeptInv, KeptInv', LocksInv, NEW w \in Workers, WriteLog(w)
  PROVE  LocksInv'
<1> DEFINE j == job[w]
           more == [j EXCEPT !.k = @ + 1]
           n == Writing(more)
<1>1. j.at = "write" /\ df' = df /\ dofn' = dofn /\ job' = [job EXCEPT ![w] = n]
  BY DEF WriteLog, At
<1>2. j \in Jobs /\ j.k + 1 \in Nat /\ DOMAIN j.handles = 1 .. Len(j.handles)
  <2>1. j \in Jobs /\ j.k \in Nat /\ DOMAIN j.handles = 1 .. Len(j.handles)
    BY JobFacts
  <2> QED BY <2>1, SMT
<1>3. more \in Jobs
  BY <1>2 DEF Jobs
<1>4. Alike(more, j) /\ more.seen = j.seen
  BY <1>2, SMT DEF Jobs, Alike
<1> HIDE DEF more
<1>5. /\ Alike(n, j) /\ n.seen = j.seen
      /\ n.at = "write" \/ (n.at = "unlock" /\ n.k = 1)
  BY <1>3, <1>4, WritingMoves DEF Alike
<1> HIDE DEF n
<1>6. job'[w] = n /\ OthersSame(w) /\ SameOwners
  BY <1>1, NextIs, OwnersOfSame
<1>7. /\ Sure(j) = DOMAIN j.handles /\ CommitHeld(j) = DOMAIN j.handles /\ AppendHeld(j) = {}
      /\ FromHeld(j) = 1 .. Len(j.handles)
  BY <1>1 DEF Sure, CommitHeld, AppendHeld, FromHeld
<1>8. /\ Sure(n) \subseteq DOMAIN j.handles /\ CommitHeld(n) = DOMAIN j.handles
      /\ AppendHeld(n) = {} /\ FromHeld(n) = 1 .. Len(j.handles)
  <2>1. n.handles = j.handles
    BY <1>5 DEF Alike
  <2>2. CASE n.at = "write"
    BY <2>1, <2>2 DEF Sure, CommitHeld, AppendHeld, FromHeld
  <2>3. CASE n.at = "unlock" /\ n.k = 1
    BY <1>2, <2>1, <2>3 DEF Sure, CommitHeld, AppendHeld, FromHeld
  <2> QED BY <1>5, <2>2, <2>3
<1>9. HeldMore(w)
  BY <1>5, <1>6, <1>7, <1>8, HeldStays DEF Alike
<1>10. /\ j.seen = None /\ j.no # 0
       /\ \A i \in DOMAIN j.handles : df[j.handles[i].file].owner = w
  BY <1>1, <1>7, NowOK
<1>11. NextOK(w)
  BY <1>1, <1>5, <1>6, <1>8, <1>10 DEF NextOK, Alike, InClose
<1> QED BY <1>1, <1>5, <1>6, <1>9, <1>11, StayStep DEF Alike

LEMMA UnLockAllLocks ==
  ASSUME KeptInv, KeptInv', LocksInv, NEW w \in Workers, UnLockAll(w)
  PROVE  LocksInv'
<1> DEFINE j == job[w]
           f == From(w)[j.k]
           last == Len(j.handles)
           on == [j EXCEPT !.k = @ + 1]
           done == [j EXCEPT !.at = "free"]
           next == IF j.k < last THEN on ELSE done
           h == <<"commit", j.k>>
<1>1. j.at = "unlock" /\ UnLock(w, f, next) /\ dofn' = dofn
  BY DEF UnLockAll, At
<1>2. /\ TypeOK /\ j \in Jobs /\ Fit(j) /\ j.k \in Nat /\ last \in Nat
      /\ DOMAIN j.handles = 1 .. last
  BY JobFacts
<1>3. j.k \in 1 .. last /\ f \in Files /\ j.script.from[j.k] = f
  BY <1>1, <1>2, CommitTable DEF InCommit
<1>4. /\ next \in Jobs /\ Alike(next, j) /\ next.seen = j.seen
      /\ \/ next.at = "unlock" /\ next.k = j.k + 1
         \/ next.at = "free" /\ j.k = last
  <2>1. CASE j.k < last
    <3>1. next = on
      BY <2>1
    <3>2. j.k + 1 \in Nat
      BY <1>2, SMT
    <3>3. on \in Jobs
      BY <1>2, <3>2 DEF Jobs
    <3>4. Alike(on, j) /\ on.seen = j.seen /\ on.at = "unlock" /\ on.k = j.k + 1
      BY <1>1, <1>2, SMT DEF Jobs, Alike
    <3> HIDE DEF on, next
    <3> QED BY <3>1, <3>3, <3>4
  <2>2. CASE ~(j.k < last)
    <3>1. next = done
      BY <2>2
    <3>2. j.k = last
      BY <1>2, <1>3, <2>2, SMT
    <3>3. "free" \in Ats
      BY DEF Ats, InCommit
    <3>4. done \in Jobs
      BY <1>2, <3>3 DEF Jobs
    <3>5. Alike(done, j) /\ done.seen = j.seen /\ done.at = "free"
      BY <1>2, SMT DEF Jobs, Alike
    <3> HIDE DEF done, next
    <3> QED BY <3>1, <3>2, <3>4, <3>5
  <2> QED BY <2>1, <2>2
<1> HIDE DEF next
<1>5. CASE df' = df /\ job' = job
  BY <1>1, <1>5, LocksSame
<1>6. CASE /\ df[f].owner = w
           /\ df' = [df EXCEPT ![f].depth = @ - 1,
                               ![f].owner = IF df[f].depth = 1 THEN None ELSE w]
           /\ Copy(job'[w], next) /\ OthersSame(w)
  <2>1. /\ Alike(job'[w], j) /\ job'[w].seen = j.seen
        /\ \/ job'[w].at = "unlock" /\ job'[w].k = j.k + 1
           \/ job'[w].at = "free" /\ j.k = last
    BY <1>4, <1>6 DEF Copy, Alike
  <2>2. /\ FromHeld(j) = 1 .. last /\ CommitHeld(j) = j.k .. last
        /\ AppendHeld(j) = {} /\ j.no # 0 /\ j.seen = None
    BY <1>1, NowOK DEF FromHeld, CommitHeld, AppendHeld
  <2>3. /\ FromHeld(job'[w]) = 1 .. last /\ j.k + 1 .. last \subseteq CommitHeld(job'[w])
        /\ AppendHeld(job'[w]) = {} /\ Sure(job'[w]) = {}
    <3>1. CASE job'[w].at = "unlock" /\ job'[w].k = j.k + 1
      BY <2>1, <3>1 DEF FromHeld, CommitHeld, AppendHeld, Sure, Alike
    <3>2. CASE job'[w].at = "free" /\ j.k = last
      <4>1. j.k + 1 .. last = {}
        BY <1>2, <3>2, SMT
      <4>2. Calm(job'[w])
        BY <3>2 DEF Calm
      <4> QED BY <2>1, <4>1, <4>2, CalmHeld DEF Alike
    <3> QED BY <2>1, <3>1, <3>2
  <2>4. \A g : \A x \in HeldOf(j, g) : x \in HeldOf(job'[w], g) \/ x = h
    <3>1. \A i \in CommitHeld(j) : i \in CommitHeld(job'[w]) \/ h = <<"commit", i>>
      <4>1. \A i \in j.k .. last : i \in j.k + 1 .. last \/ i = j.k
        BY <1>2, SMT
      <4> QED BY <2>2, <2>3, <4>1
    <3>2. job'[w].script = j.script /\ job'[w].at # "idle"
      BY <2>1 DEF Alike
    <3> HIDE DEF h
    <3> QED BY <2>2, <2>3, <3>1, <3>2, HeldParts
  <2>5. \A g \in Files \ {f} : h \notin HeldOf(j, g)
    BY <1>3 DEF HeldOf
  <2>6. NextOK(w)
    BY <2>1, <2>2, <2>3 DEF NextOK, Alike, InClose
  <2> HIDE DEF h, f
  <2> QED BY <1>1, <1>3, <1>6, <2>1, <2>4, <2>5, <2>6, LeaveStep DEF Alike
<1> QED BY <1>1, <1>2, <1>3, <1>4, <1>5, <1>6, UnLockMoves DEF OthersSame
-----------------------------------------------------------------------------
(* The actions that close the tables                                        *)

\* Before the first table is closed, FROM still holds them all.
LEMMA ClosesAll ==
  ASSUME NEW j \in Jobs, Fit(j), j.at \in {"free", "target"}, NEW n, Alike(n, j), n.at = "close"
  PROVE  /\ Last(n) /\ FromHeld(n) = 1 .. Len(j.handles) /\ CommitHeld(n) = {}
         /\ AppendHeld(n) = {} /\ Sure(n) = {}
<1> DEFINE m == Len(j.handles)
<1>1. /\ m = Len(j.script.from) /\ m \in Nat /\ DOMAIN j.handles = 1 .. m
      /\ \A i \in DOMAIN j.handles : j.handles[i].file = j.script.from[i]
  <2>1. m \in Nat /\ DOMAIN j.handles = 1 .. m
    BY SMT DEF Jobs
  <2> QED BY <2>1 DEF Fit, InCommit, InClose
<1>2. /\ n.handles = j.handles /\ n.script = j.script
  BY DEF Alike
<1> HIDE DEF m
<1>3. m - m + 1 = 1 /\ \A i \in 1 .. m : m - m + i = i
  BY <1>1, SMT
<1>4. Last(n)
  <2> SUFFICES ASSUME NEW i \in 1 .. m PROVE j.handles[i].file = j.script.from[m - m + i]
    BY <1>1, <1>2 DEF Last, m
  <2> QED BY <1>1, <1>3
<1>5. FromHeld(n) = 1 .. m
  <2>1. FromHeld(n) = m - m + 1 .. m
    BY <1>1, <1>2 DEF FromHeld, m
  <2> QED BY <1>3, <2>1
<1> QED BY <1>4, <1>5 DEF CommitHeld, AppendHeld, Sure, m

LEMMA FreeRecLockLocks ==
  ASSUME KeptInv, KeptInv', LocksInv, NEW w \in Workers, FreeRecLock(w)
  PROVE  LocksInv'
<1> DEFINE j == job[w]
           f == From(w)[j.k]
           locks == [i \in Slots |-> IF df[f].locks[i] = w THEN 0 ELSE df[f].locks[i]]
           d == [df[f] EXCEPT !.locks = locks]
           a == IF j.k > 1 THEN "free" ELSE "close"
           n == [j EXCEPT !.k = @ - 1, !.at = a]
<1>1. j.at = "free" /\ dofn' = dofn
  BY DEF FreeRecLock, At
<1>2. /\ TypeOK /\ j \in Jobs /\ Fit(j)
  BY JobFacts
<1>3. df \in [Files -> dFILE] /\ job \in [Workers -> Jobs] /\ f \in Files
  BY <1>1, <1>2, CommitTable DEF InCommit, TypeOK
<1>4. df' = [df EXCEPT ![f] = d] /\ job' = [job EXCEPT ![w] = n]
  BY <1>3 DEF FreeRecLock
<1>5. SameOwners
  <2>1. df[f] \in dFILE
    BY <1>3
  <2> HIDE DEF locks
  <2>2. d.owner = df[f].owner /\ d.depth = df[f].depth
    BY <2>1, SMT DEF dFILE
  <2> HIDE DEF d
  <2> QED BY <1>3, <1>4, <2>2 DEF SameOwners
<1>6. a \in {"free", "close"}
  OBVIOUS
<1> HIDE DEF a
<1>7. Alike(n, j) /\ n.at = a /\ n.seen = j.seen
  BY <1>2, SMT DEF Jobs, Alike
<1> HIDE DEF n
<1>8. job'[w] = n /\ OthersSame(w)
  BY <1>4, NextIs
<1>9. /\ FromHeld(j) = 1 .. Len(j.handles) /\ CommitHeld(j) = {} /\ AppendHeld(j) = {}
      /\ j.seen = None /\ j.no # 0
  BY <1>1, CalmHeld, NowOK DEF Calm
<1>10. CASE n.at = "free"
  BY <1>1, <1>5, <1>7, <1>8, <1>9, <1>10, CalmStep DEF Calm
<1>11. CASE n.at = "close"
  <2>1. /\ Last(n) /\ FromHeld(n) = 1 .. Len(j.handles) /\ CommitHeld(n) = {}
        /\ AppendHeld(n) = {} /\ Sure(n) = {}
    BY <1>1, <1>2, <1>7, <1>11, ClosesAll
  <2>2. HeldMore(w)
    BY <1>7, <1>8, <1>9, <1>11, <2>1, HeldStays DEF Alike
  <2>3. NextOK(w)
    BY <1>7, <1>8, <1>9, <1>11, <2>1 DEF NextOK, Alike
  <2> QED BY <1>1, <1>5, <1>7, <1>8, <1>11, <2>2, <2>3, StayStep DEF Alike
<1> QED BY <1>6, <1>7, <1>10, <1>11

LEMMA CloseTargetLocks ==
  ASSUME KeptInv, KeptInv', LocksInv, NEW w \in Workers, CloseTarget(w)
  PROVE  LocksInv'
<1> DEFINE j == job[w]
           f == From(w)[1]
           next == [j EXCEPT !.at = "close"]
           h == <<"none", 0>>
<1>1. /\ j.at = "target" /\ dofn' = dofn
      /\ \/ UnLock(w, f, next)
         \/ df' = df /\ job' = [job EXCEPT ![w] = next]
  BY DEF CloseTarget, At
<1>2. /\ TypeOK /\ j \in Jobs /\ Fit(j) /\ j.script \in Scripts
      /\ DOMAIN j.handles = 1 .. Len(j.handles) /\ Len(j.script.from) \in Nat \ {0}
      /\ \A i \in DOMAIN j.handles : From(w)[i] \in Files
  BY <1>1, JobFacts
<1>3. f \in Files
  <2>1. Len(j.handles) = Len(j.script.from)
    BY <1>1, <1>2 DEF Fit
  <2>2. 1 \in DOMAIN j.handles
    BY <1>2, <2>1, SMT
  <2> QED BY <1>2, <2>2
<1>4. next \in Jobs
  <2>1. "close" \in Ats
    BY DEF Ats, InClose
  <2> QED BY <1>2, <2>1 DEF Jobs
<1>5. Alike(next, j) /\ next.at = "close" /\ next.seen = j.seen
  BY <1>2, SMT DEF Jobs, Alike
<1> HIDE DEF next
<1>6. /\ FromHeld(j) = 1 .. Len(j.handles) /\ CommitHeld(j) = {} /\ AppendHeld(j) = {}
      /\ j.seen = None /\ j.no # 0
  BY <1>1, CalmHeld, NowOK DEF Calm
<1>7. ASSUME Copy(job'[w], next) \/ job'[w] = next
      PROVE  NextOK(w) /\ HeldMore(w) /\ Alike(job'[w], j) /\ job'[w].at = "close"
  <2>1. Alike(job'[w], j) /\ job'[w].at = "close" /\ job'[w].seen = j.seen
    BY <1>5, <1>7 DEF Copy, Alike
  <2>2. /\ Last(job'[w]) /\ FromHeld(job'[w]) = 1 .. Len(j.handles)
        /\ CommitHeld(job'[w]) = {} /\ AppendHeld(job'[w]) = {} /\ Sure(job'[w]) = {}
    BY <1>1, <1>2, <2>1, ClosesAll
  <2>3. HeldMore(w)
    BY <1>6, <2>1, <2>2, HeldStays DEF Alike
  <2>4. NextOK(w)
    BY <1>6, <2>1, <2>2 DEF NextOK, Alike
  <2> QED BY <2>1, <2>3, <2>4
<1>8. CASE df' = df /\ job' = job
  BY <1>1, <1>8, LocksSame
<1>9. CASE /\ df[f].owner = w
           /\ df' = [df EXCEPT ![f].depth = @ - 1,
                               ![f].owner = IF df[f].depth = 1 THEN None ELSE w]
           /\ Copy(job'[w], next) /\ OthersSame(w)
  <2>1. \A g : \A x \in HeldOf(j, g) : x \in HeldOf(job'[w], g) \/ x = h
    BY <1>7, <1>9 DEF HeldMore
  <2>2. \A g \in Files \ {f} : h \notin HeldOf(j, g)
    BY DEF HeldOf, Held
  <2> HIDE DEF h, f
  <2> QED BY <1>1, <1>3, <1>7, <1>9, <2>1, <2>2, LeaveStep DEF Alike
<1>10. CASE df' = df /\ job' = [job EXCEPT ![w] = next]
  <2>1. job'[w] = next /\ OthersSame(w) /\ SameOwners
    BY <1>10, NextIs, OwnersOfSame
  <2> QED BY <1>1, <1>7, <2>1, StayStep DEF Alike
<1> QED BY <1>1, <1>2, <1>3, <1>4, <1>8, <1>9, <1>10, UnLockMoves DEF OthersSame

\* The first of the tables that are still open is at its place in FROM.
LEMMA FirstOfRest ==
  ASSUME KeptInv, LocksInv, NEW w \in Workers, job[w].at \in InClose
  PROVE  LET j == job[w]
             last == Len(j.script.from)
             n == Len(j.handles)
         IN  /\ last \in Nat /\ n \in Nat \ {0} /\ DOMAIN j.handles = 1 .. n
             /\ From(w)[1] \in Files /\ j.script.from[last - n + 1] = From(w)[1]
             /\ Last(j) /\ j \in Jobs /\ Fit(j) /\ TypeOK
<1> DEFINE j == job[w]
           last == Len(j.script.from)
           n == Len(j.handles)
<1>1. /\ TypeOK /\ j \in Jobs /\ Fit(j) /\ last \in Nat /\ n \in Nat
      /\ j.handles \in Seq(Handles) /\ DOMAIN j.handles = 1 .. n
      /\ \A i \in DOMAIN j.handles : From(w)[i] \in Files
  BY JobFacts DEF InClose
<1>2. j.handles # <<>>
  BY <1>1 DEF Fit
<1>3. n \in Nat \ {0}
  BY <1>1, <1>2, TailSeq
<1>4. 1 \in DOMAIN j.handles
  BY <1>1, <1>3, SMT
<1>5. Last(j)
  BY NowOK
<1>6. j.script.from[last - n + 1] = From(w)[1]
  BY <1>4, <1>5 DEF Last, From
<1> QED BY <1>1, <1>3, <1>4, <1>5, <1>6

LEMMA CloseFromLocks ==
  ASSUME KeptInv, KeptInv', LocksInv, NEW w \in Workers, CloseFrom(w)
  PROVE  LocksInv'
<1> DEFINE j == job[w]
           f == From(w)[1]
           next == [j EXCEPT !.at = "sleep"]
           last == Len(j.script.from)
           n == Len(j.handles)
           a == last - n + 1
           b == last - n + 2
           h == <<"from", a>>
<1>1. /\ j.at = "close" /\ dofn' = dofn
      /\ \/ UnLock(w, f, next)
         \/ ~j.script.exclusive /\ df' = df /\ job' = [job EXCEPT ![w] = next]
  BY DEF CloseFrom, At
<1>2. /\ TypeOK /\ j \in Jobs /\ Fit(j) /\ last \in Nat /\ n \in Nat \ {0} /\ f \in Files
      /\ DOMAIN j.handles = 1 .. n /\ j.script.from[a] = f /\ Last(j)
  BY <1>1, FirstOfRest DEF InClose
<1>3. next \in Jobs
  <2>1. "sleep" \in Ats
    BY DEF Ats, InClose
  <2> QED BY <1>2, <2>1 DEF Jobs
<1>4. Alike(next, j) /\ next.at = "sleep" /\ next.seen = j.seen
  BY <1>2, SMT DEF Jobs, Alike
<1> HIDE DEF next
<1>5. /\ FromHeld(j) = a .. last /\ CommitHeld(j) = {} /\ AppendHeld(j) = {}
      /\ j.seen = None /\ j.no # 0
  BY <1>1, NowOK DEF FromHeld, CommitHeld, AppendHeld, Sure
<1>6. ASSUME Copy(job'[w], next) \/ job'[w] = next
      PROVE  /\ NextOK(w) /\ Alike(job'[w], j) /\ job'[w].at = "sleep"
             /\ FromHeld(job'[w]) = b .. last /\ CommitHeld(job'[w]) = {}
             /\ AppendHeld(job'[w]) = {}
  <2>1. Alike(job'[w], j) /\ job'[w].at = "sleep" /\ job'[w].seen = j.seen
    BY <1>4, <1>6 DEF Copy, Alike
  <2>2. /\ FromHeld(job'[w]) = b .. last /\ CommitHeld(job'[w]) = {}
        /\ AppendHeld(job'[w]) = {} /\ Sure(job'[w]) = {}
    BY <2>1 DEF FromHeld, CommitHeld, AppendHeld, Sure, Alike
  <2>3. Last(job'[w])
    BY <1>2, <2>1 DEF Last, Alike
  <2>4. NextOK(w)
    BY <1>5, <2>1, <2>2, <2>3 DEF NextOK, Alike
  <2> QED BY <2>1, <2>2, <2>4
<1>7. CASE df' = df /\ job' = job
  BY <1>1, <1>7, LocksSame
<1>8. CASE /\ df[f].owner = w
           /\ df' = [df EXCEPT ![f].depth = @ - 1,
                               ![f].owner = IF df[f].depth = 1 THEN None ELSE w]
           /\ Copy(job'[w], next) /\ OthersSame(w)
  <2>1. \A g : \A x \in HeldOf(j, g) : x \in HeldOf(job'[w], g) \/ x = h
    <3>1. \A i \in FromHeld(j) : i \in FromHeld(job'[w]) \/ h = <<"from", i>>
      <4>1. \A i \in a .. last : i \in b .. last \/ i = a
        <5>1. last \in Nat /\ n \in Nat
          BY <1>2
        <5> HIDE DEF last, n
        <5> QED BY <5>1, SMT
      <4> QED BY <1>5, <1>6, <1>8, <4>1
    <3>2. job'[w].script = j.script /\ job'[w].at # "idle"
      BY <1>6, <1>8 DEF Alike
    <3> HIDE DEF h, a, b
    <3> QED BY <1>5, <1>6, <1>8, <3>1, <3>2, HeldParts
  <2>2. \A g \in Files \ {f} : h \notin HeldOf(j, g)
    BY <1>2 DEF HeldOf
  <2>3. /\ dofn' = dofn /\ j.at # "flush" /\ job'[w].at # "enter"
        /\ job'[w].kept = j.kept /\ NextOK(w)
    BY <1>1, <1>6, <1>8 DEF Alike
  <2> HIDE DEF h, f
  <2> QED BY <1>2, <1>8, <2>1, <2>2, <2>3, LeaveStep
<1>9. CASE ~j.script.exclusive /\ df' = df /\ job' = [job EXCEPT ![w] = next]
  <2>1. job'[w] = next /\ OthersSame(w) /\ SameOwners
    BY <1>9, NextIs, OwnersOfSame
  <2>2. HeldMore(w)
    BY <1>5, <1>6, <1>9, <2>1, HeldStays DEF Alike
  <2> QED BY <1>1, <1>6, <2>1, <2>2, StayStep DEF Alike
<1> QED BY <1>1, <1>2, <1>3, <1>7, <1>8, <1>9, UnLockMoves DEF OthersSame

\* dSleep of the first table leaves what FROM holds of the others.
LEMMA SleptHeld ==
  ASSUME KeptInv, LocksInv, NEW w \in Workers, job[w].at \in {"sleep", "flush"},
         job'[w] = Slept(job[w])
  PROVE  NextOK(w) /\ HeldMore(w) /\ job'[w].kept = job[w].kept /\ job'[w].at # "enter"
<1> DEFINE j == job[w]
           s == Slept(j)
           last == Len(j.script.from)
           n == Len(j.handles)
<1>1. /\ last \in Nat /\ n \in Nat \ {0} /\ Last(j) /\ j \in Jobs
      /\ DOMAIN j.handles = 1 .. n
  BY FirstOfRest DEF InClose
<1>2. j.seen = None /\ j.no # 0
  BY NowOK
<1>3. /\ s.seen = None /\ s.kept = j.kept
      /\ \/ n = 1 /\ s.at = "idle"
         \/ /\ n # 1 /\ s.at = "close" /\ s.script = j.script
            /\ s.handles = Tail(j.handles) /\ s.no = j.no
  BY <1>1, <1>2, SleptMoves
<1>4. /\ FromHeld(j) = last - n + 2 .. last /\ CommitHeld(j) = {} /\ AppendHeld(j) = {}
  BY DEF FromHeld, CommitHeld, Sure, AppendHeld
<1> HIDE DEF s
<1>5. job'[w] = s
  BY DEF s
<1>6. CASE n = 1 /\ s.at = "idle"
  <2>1. FromHeld(j) = {}
    <3>1. FromHeld(j) = last - 1 + 2 .. last
      BY <1>4, <1>6
    <3>2. last - 1 + 2 .. last = {}
      <4>1. last \in Nat
        BY <1>1
      <4> HIDE DEF last
      <4> QED BY <4>1, SMT
    <3> QED BY <3>1, <3>2
  <2>2. Held(j) = {}
    BY <1>4, <2>1 DEF Held
  <2>3. HeldMore(w)
    BY <2>2 DEF HeldMore, HeldOf
  <2>4. NextOK(w)
    BY <1>3, <1>5, <1>6 DEF NextOK, Sure, InClose
  <2> QED BY <1>3, <1>5, <1>6, <2>3, <2>4
<1>7. CASE /\ n # 1 /\ s.at = "close" /\ s.script = j.script
           /\ s.handles = Tail(j.handles) /\ s.no = j.no
  <2>1. /\ Len(s.handles) = n - 1 /\ DOMAIN s.handles = 1 .. n - 1
        /\ \A i \in 1 .. n - 1 : s.handles[i] = j.handles[i + 1]
    <3>1. j.handles \in Seq(Handles) /\ j.handles # <<>>
      <4>1. j.handles \in Seq(Handles)
        BY <1>1 DEF Jobs
      <4>2. Len(<<>>) = 0
        BY SMT
      <4> QED BY <1>1, <4>1, <4>2
    <3> QED BY <1>7, <3>1, TailSeq
  <2>2. /\ FromHeld(s) = last - (n - 1) + 1 .. last /\ CommitHeld(s) = {}
        /\ AppendHeld(s) = {} /\ Sure(s) = {}
    BY <1>7, <2>1 DEF FromHeld, CommitHeld, AppendHeld, Sure
  <2>3. /\ last - (n - 1) + 1 = last - n + 2
        /\ \A i \in 1 .. n - 1 : i + 1 \in 1 .. n /\ last - (n - 1) + i = last - n + (i + 1)
    <3>1. last \in Nat /\ n \in Nat
      BY <1>1
    <3> HIDE DEF last, n
    <3> QED BY <3>1, SMT
  <2>4. HeldMore(w)
    <3>1. FromHeld(s) = FromHeld(j)
      BY <1>4, <2>2, <2>3
    <3> QED BY <1>4, <1>5, <1>7, <2>2, <3>1, HeldStays
  <2>5. Last(s)
    <3> SUFFICES ASSUME NEW i \in 1 .. n - 1
                 PROVE  s.handles[i].file = j.script.from[last - (n - 1) + i]
      BY <1>7, <2>1 DEF Last
    <3>1. i + 1 \in 1 .. n /\ last - (n - 1) + i = last - n + (i + 1)
      BY <2>3
    <3>2. j.handles[i + 1].file = j.script.from[last - n + (i + 1)]
      BY <1>1, <3>1 DEF Last
    <3> QED BY <2>1, <3>1, <3>2
  <2>6. NextOK(w)
    BY <1>2, <1>3, <1>5, <1>7, <2>2, <2>5 DEF NextOK, InClose
  <2> QED BY <1>3, <1>5, <1>7, <2>4, <2>6
<1> QED BY <1>3, <1>6, <1>7

LEMMA FlushLocks ==
  ASSUME KeptInv, KeptInv', LocksInv, NEW w \in Workers, Flush(w)
  PROVE  LocksInv'
<1>1. /\ job[w].at = "flush" /\ df' = df /\ dofn' = None
      /\ job' = [job EXCEPT ![w] = Slept(job[w])]
  BY DEF Flush, At
<1>2. job'[w] = Slept(job[w]) /\ OthersSame(w) /\ SameOwners
  BY <1>1, NextIs, OwnersOfSame
<1>3. NextOK(w) /\ HeldMore(w) /\ job'[w].kept = job[w].kept /\ job'[w].at # "enter"
  BY <1>1, <1>2, SleptHeld
<1>4. RestKept(w)
  BY <1>2, RestSame
<1>5. (Deep(w))'
  BY <1>1, <1>3, DeepStays
<1> QED BY <1>1, <1>3, <1>4, <1>5, LocksNext

\* Nobody else has the table that dSleep releases.
LEMMA SleepAlone ==
  ASSUME KeptInv, KeptInv', NEW w \in Workers, Sleep(w), df[From(w)[1]].users = 1,
         From(w)[1] \notin Opable
  PROVE  \A v \in Workers \ {w} : ~Has(v, From(w)[1])
<1> DEFINE f == From(w)[1]
<1>1. /\ job[w].at = "sleep" /\ dofn = None /\ Landed(w) /\ df[f].users = 1
      /\ job' = [job EXCEPT ![w] = Slept(job[w])]
  BY DEF Sleep, At
<1>2. TypeOK /\ TypeOK' /\ Fit(job[w])
  BY JobFacts DEF KeptInv
<1>3. /\ f \in Files /\ Cardinality(Used(job, f)) \in Nat /\ Cardinality(Used(job', f)) \in Nat
      /\ Cardinality(Used(job, f)) = Cardinality(Used(job', f)) + 1
  BY <1>1, <1>2, SleptCounts DEF InClose
<1>4. 1 = df[f].lost + Cardinality(Used(job, f)) /\ df[f].lost \in Nat
  BY <1>1, <1>3, CountsAtRest
<1>5. Cardinality(Used(job', f)) = 0
  BY <1>3, <1>4, SMT
<1> SUFFICES ASSUME NEW v \in Workers \ {w}, Has(v, f) PROVE FALSE
  OBVIOUS
<1>6. PICK k \in DOMAIN job[v].handles : job[v].handles[k].file = f
  BY DEF Has
<1>7. job'[v] = job[v]
  BY <1>1, <1>2 DEF TypeOK
<1>8. job'[v].handles[k] \in Elements(job'[v].handles)
  BY <1>7 DEF Elements
<1> QED BY <1>2, <1>3, <1>5, <1>6, <1>7, <1>8, UnusedByAll

LEMMA SleepLocks ==
  ASSUME KeptInv, KeptInv', LocksInv, NEW w \in Workers, Sleep(w)
  PROVE  LocksInv'
<1> DEFINE j == job[w]
           f == From(w)[1]
           none == [Closed EXCEPT !.gen = df[f].gen]
           less == [df[f] EXCEPT !.users = @ - 1]
           n == [j EXCEPT !.at = "flush"]
<1>1. /\ j.at = "sleep" /\ dofn = None
      /\ \/ /\ df[f].users = 1 /\ f \notin Opable /\ df' = [df EXCEPT ![f] = none]
            /\ job' = [job EXCEPT ![w] = Slept(j)] /\ dofn' = dofn
         \/ /\ df' = [df EXCEPT ![f] = less] /\ job' = [job EXCEPT ![w] = n] /\ dofn' = w
  BY DEF Sleep, At, KeptInv, TypeOK
<1>2. TypeOK /\ f \in Files /\ j \in Jobs /\ Last(j) /\ df \in [Files -> dFILE] /\ df[f] \in dFILE
  BY <1>1, FirstOfRest DEF InClose, TypeOK
<1>3. CASE /\ df[f].users = 1 /\ f \notin Opable /\ df' = [df EXCEPT ![f] = none]
           /\ job' = [job EXCEPT ![w] = Slept(j)] /\ dofn' = dofn
  <2>1. none.owner = None
    BY SMT DEF Closed
  <2> HIDE DEF none
  <2>2. df'[f] = none /\ \A g \in Files \ {f} : df'[g] = df[g]
    BY <1>2, <1>3
  <2>3. job'[w] = Slept(j) /\ OthersSame(w)
    BY <1>3, NextIs
  <2>4. NextOK(w) /\ HeldMore(w) /\ job'[w].kept = j.kept /\ job'[w].at # "enter"
    BY <1>1, <2>3, SleptHeld
  <2>5. \A v \in Workers : v # None
    BY NoneIsNone
  <2>6. RestKept(w)
    <3>1. ASSUME NEW g \in Files, NEW v \in Workers \ {w}
          PROVE  /\ df'[g].owner = v => df[g].owner = v /\ df'[g].depth = df[g].depth
                 /\ Has(v, g) /\ df[g].owner = v => df'[g].owner = v
      <4>1. CASE g = f
        <5>1. ~Has(v, f)
          BY <1>3, SleepAlone
        <5> QED BY <2>1, <2>2, <2>5, <4>1, <5>1
      <4>2. CASE g # f
        BY <2>2, <4>2
      <4> QED BY <4>1, <4>2
    <3> QED BY <2>3, <3>1 DEF RestKept, OthersSame
  <2>7. \A g \in Files : df'[g].owner = w => df[g].owner = w /\ df'[g].depth = df[g].depth
    BY <2>1, <2>2, <2>5
  <2>8. (Deep(w))'
    BY <2>4, <2>7, DeepStays
  <2> QED BY <1>1, <1>3, <2>4, <2>6, <2>8, LocksNext
<1>4. CASE df' = [df EXCEPT ![f] = less] /\ job' = [job EXCEPT ![w] = n] /\ dofn' = w
  <2>1. less.owner = df[f].owner /\ less.depth = df[f].depth
    BY <1>2, SMT DEF dFILE
  <2> HIDE DEF less
  <2>2. SameOwners
    BY <1>2, <1>4, <2>1 DEF SameOwners
  <2>3. Alike(n, j) /\ n.at = "flush" /\ n.seen = j.seen
    BY <1>2, SMT DEF Jobs, Alike
  <2> HIDE DEF n
  <2>4. job'[w] = n /\ OthersSame(w)
    BY <1>4, NextIs
  <2>5. /\ FromHeld(n) = FromHeld(j) /\ CommitHeld(n) = {} /\ CommitHeld(j) = {}
        /\ AppendHeld(n) = {} /\ AppendHeld(j) = {} /\ Sure(n) = {}
    BY <1>1, <2>3 DEF FromHeld, CommitHeld, AppendHeld, Sure, Alike
  <2>6. HeldMore(w)
    BY <2>3, <2>4, <2>5, HeldStays DEF Alike
  <2>7. NextOK(w)
    <3>1. j.seen = None /\ j.no # 0
      BY <1>1, NowOK
    <3>2. Last(n)
      BY <1>2, <2>3 DEF Last, Alike
    <3> QED BY <2>3, <2>4, <2>5, <3>1, <3>2 DEF NextOK, Alike
  <2>8. RestKept(w)
    BY <2>2, <2>4, RestSame
  <2>9. (Deep(w))'
    BY <2>2, <2>3, <2>4, <2>6, DeepStays DEF SameOwners, Alike
  <2> QED BY <1>4, <2>3, <2>4, <2>7, <2>8, <2>9, LocksNext
<1> QED BY <1>1, <1>3, <1>4
-----------------------------------------------------------------------------
(* FROM, the flags, and all steps together                                  *)

\* dAwake closes tables, but makes nobody the owner of one.
LEMMA WokenOwner ==
  ASSUME KeptInv, NEW f \in Files, NEW g \in Files, Users(f)[g].owner # None
  PROVE  Users(f)[g].owner = df[g].owner /\ Users(f)[g].depth = df[g].depth
<1> DEFINE n == Users(f)[g]
           more == [df[g] EXCEPT !.users = @ + 1]
           new == [Closed EXCEPT !.users = 1, !.gen = df[g].gen + 1]
           none == [Closed EXCEPT !.gen = df[g].gen]
<1>1. n \in {more, new, df[g], none}
  BY DEF Users
<1>2. df[g] \in dFILE
  BY DEF KeptInv, TypeOK
<1>3. more.owner = df[g].owner /\ more.depth = df[g].depth
  BY <1>2, SMT DEF dFILE
<1>4. new.owner = None /\ none.owner = None
  BY SMT DEF Closed
<1> HIDE DEF n, more, new, none
<1>5. n.owner = df[g].owner /\ n.depth = df[g].depth
  <2>1. n.owner # None
    BY DEF n
  <2> QED BY <1>1, <1>3, <1>4, <2>1
<1> QED BY <1>5 DEF n

LEMMA AwakeFromLocks ==
  ASSUME KeptInv, KeptInv', LocksInv, NEW w \in Workers, AwakeFrom(w)
  PROVE  LocksInv'
<1> DEFINE j == job[w]
           f == j.script.from[Len(j.handles) + 1]
           woken == Users(f)
           hs == Grown(w, f)
           k == [j EXCEPT !.handles = hs]
           locked == j.script.exclusive /\ j.handles # <<>>
           lost(g) == Cardinality({i \in DOMAIN hs : hs[i].file = g})
           more(g) == [woken[g] EXCEPT !.lost = @ + lost(g)]
           up == IF j.script.exclusive THEN [k EXCEPT !.at = "lock"] ELSE Ready(k)
           down == Idle(j.kept \/ locked)
<1>1. /\ j.at = "from" /\ dofn = None /\ dofn' = dofn
      /\ \/ /\ Got(f) /\ df' = woken /\ job' = [job EXCEPT ![w] = up]
         \/ /\ df' = [g \in Files |-> more(g)] /\ job' = [job EXCEPT ![w] = down]
  BY DEF AwakeFrom, At, Got, Grown, New
<1>2. /\ TypeOK /\ Fit(j) /\ j \in Jobs /\ j.handles \in Seq(Handles) /\ Len(j.handles) \in Nat
      /\ j.script \in Scripts /\ Len(j.script.from) \in Nat \ {0}
  BY <1>1, JobFacts
<1>3. f \in Files
  <2> DEFINE m == Len(j.handles)
             n == Len(j.script.from)
  <2>1. j.script.from \in Seq(Files) /\ m \in Nat /\ n \in Nat /\ m < n
    BY <1>1, <1>2, ScriptFacts DEF Fit
  <2>2. \A s \in Seq(Files) : \A i \in 1 .. Len(s) : s[i] \in Files
    BY SMT
  <2>3. \A i \in 1 .. n : j.script.from[i] \in Files
    BY <2>1, <2>2
  <2>4. f = j.script.from[m + 1]
    OBVIOUS
  <2> HIDE DEF m, n, f
  <2>5. m + 1 \in 1 .. n
    BY <2>1, SMT
  <2> QED BY <2>3, <2>4, <2>5
<1>4. \A g \in Files : woken[g] \in dFILE
  BY <1>1, <1>3, WokenTables
<1>5. \A g \in Files : df'[g].owner = woken[g].owner /\ df'[g].depth = woken[g].depth
  <2> HIDE DEF woken, lost
  <2>1. ASSUME NEW g \in Files
        PROVE  more(g).owner = woken[g].owner /\ more(g).depth = woken[g].depth
    <3>1. woken[g] \in dFILE
      BY <1>4
    <3> QED BY <3>1, SMT DEF dFILE
  <2> HIDE DEF more
  <2> QED BY <1>1, <2>1
<1>6. \A g \in Files : woken[g].owner # None =>
        woken[g].owner = df[g].owner /\ woken[g].depth = df[g].depth
  BY <1>3, WokenOwner
<1>7. ASSUME NEW g \in Files, NEW v \in Workers, Has(v, g)
      PROVE  woken[g].owner = df[g].owner
  <2>1. Cardinality(Used(job, g)) # 0
    <3>1. job \in [Workers -> Jobs]
      BY <1>2 DEF TypeOK
    <3>2. Cardinality(Used(job, g)) = 0 <=>
            \A u \in Workers : \A i \in DOMAIN job[u].handles : job[u].handles[i].file # g
      BY <3>1, UsedNone
    <3> QED BY <1>7, <3>2 DEF Has
  <2> QED BY <1>1, <1>3, <2>1, WokenTables
<1> HIDE DEF woken
<1>8. \A v \in Workers : v # None
  BY NoneIsNone
<1>9. job' \in [Workers -> Jobs] /\ OthersSame(w)
  BY <1>1, <1>2, NextJob DEF OthersSame, TypeOK
<1>10. RestKept(w)
  <2>1. ASSUME NEW g \in Files, NEW v \in Workers \ {w}
        PROVE  /\ df'[g].owner = v => df[g].owner = v /\ df'[g].depth = df[g].depth
               /\ Has(v, g) /\ df[g].owner = v => df'[g].owner = v
    BY <1>5, <1>6, <1>7, <1>8
  <2> QED BY <1>9, <2>1 DEF RestKept, OthersSame
<1>11. /\ CommitHeld(j) = {} /\ AppendHeld(j) = {} /\ FromHeld(j) = 1 .. Len(j.handles)
       /\ j.seen = None /\ j.no # 0
  BY <1>1, CalmHeld, NowOK DEF Calm
<1>12. \A g \in Files : df'[g].owner = w => df[g].owner = w /\ df'[g].depth = df[g].depth
  BY <1>5, <1>6, <1>8
<1>13. ASSUME NextOK(w), job'[w].at # "enter", ~job'[w].kept => ~j.kept /\ HeldMore(w)
       PROVE  LocksInv'
  <2>1. (Deep(w))'
    BY <1>12, <1>13, DeepStays
  <2> QED BY <1>1, <1>10, <1>13, <2>1, LocksQuiet
<1>14. CASE Got(f) /\ df' = woken /\ job' = [job EXCEPT ![w] = up]
  <2>1. hs \in Seq(Handles) /\ Len(hs) = Len(j.handles) + 1
    <3>1. hs = Append(j.handles, New(f))
      BY <1>14 DEF Grown
    <3>2. New(f) \in Handles
      <4>1. Users(f)[f].gen \in Nat
        BY <1>3, <1>4 DEF dFILE, woken
      <4> QED BY <1>3, <4>1 DEF New, Handles
    <3> HIDE DEF hs, f
    <3> QED BY <1>2, <3>1, <3>2, AppendSeq
  <2> HIDE DEF hs
  <2>2. k \in Jobs
    BY <1>2, <2>1 DEF Jobs
  <2>3. /\ k.script = j.script /\ k.handles = hs /\ k.seen = j.seen /\ k.no = j.no
        /\ k.kept = j.kept
    BY <1>2, SMT DEF Jobs
  <2> HIDE DEF k
  <2>4. job'[w] = up
    BY <1>2, <1>14 DEF TypeOK
  <2>5. CASE j.script.exclusive
    <3> DEFINE o == [k EXCEPT !.at = "lock"]
    <3>1. Alike(o, k) /\ o.at = "lock" /\ o.seen = k.seen
      BY <2>2, SMT DEF Jobs, Alike
    <3>2. job'[w] = o
      BY <2>4, <2>5
    <3> HIDE DEF o
    <3>3. /\ FromHeld(o) = 1 .. Len(hs) - 1 /\ CommitHeld(o) = {} /\ AppendHeld(o) = {}
          /\ Sure(o) = {}
      BY <2>3, <3>1 DEF FromHeld, CommitHeld, AppendHeld, Sure, Alike
    <3>4. FromHeld(o) = FromHeld(j)
      <4>1. Len(hs) - 1 = Len(j.handles)
        BY <1>2, <2>1, SMT
      <4> QED BY <1>11, <3>3, <4>1
    <3>5. HeldMore(w)
      BY <1>11, <2>3, <3>1, <3>2, <3>3, <3>4, HeldStays DEF Alike
    <3>6. NextOK(w)
      BY <1>11, <2>3, <2>5, <3>1, <3>2, <3>3 DEF NextOK, Alike, InClose
    <3> QED BY <1>13, <2>3, <3>1, <3>2, <3>5, <3>6 DEF Alike
  <2>6. CASE ~j.script.exclusive
    <3>1. job'[w] = Ready(k)
      BY <2>4, <2>6
    <3>2. /\ Alike(Ready(k), k) /\ Ready(k).seen = k.seen /\ Calm(Ready(k))
          /\ Ready(k).at \notin {"calrec", "apprec"}
      BY <2>2, ReadyMoves
    <3>3. /\ Sure(job'[w]) = {} /\ CommitHeld(job'[w]) = {} /\ AppendHeld(job'[w]) = {}
          /\ job'[w].at # "idle"
      BY <3>1, <3>2, CalmHeld
    <3>4. HeldMore(w)
      BY <1>11, <2>3, <2>6, <3>1, <3>2, <3>3, HeldStays DEF Alike
    <3>5. NextOK(w)
      BY <1>11, <2>3, <3>1, <3>2, <3>3 DEF NextOK, Alike, Calm, InClose
    <3> QED BY <1>13, <2>3, <3>1, <3>2, <3>4, <3>5 DEF Alike, Calm
  <2> QED BY <2>5, <2>6
<1>15. CASE job' = [job EXCEPT ![w] = down]
  <2>1. job'[w] = down
    BY <1>2, <1>15 DEF TypeOK
  <2>2. down.at = "idle" /\ down.seen = None /\ (~down.kept => ~j.kept /\ ~locked)
    <3> DEFINE b == j.kept \/ locked
    <3>1. b \in BOOLEAN
      OBVIOUS
    <3> HIDE DEF b
    <3>2. Idle(b).at = "idle" /\ Idle(b).seen = None /\ Idle(b).kept = b
      BY <3>1, IdleMoves
    <3> QED BY <3>2 DEF b
  <2> HIDE DEF down
  <2>3. NextOK(w)
    BY <2>1, <2>2 DEF NextOK, Sure, InClose
  <2>4. ASSUME ~locked PROVE HeldMore(w)
    <3>1. j.script.exclusive => FromHeld(j) = {}
      <4>1. ASSUME j.script.exclusive PROVE FromHeld(j) = {}
        <5>1. j.handles = <<>>
          BY <2>4, <4>1
        <5>2. 1 .. Len(<<>>) = {}
          BY SMT
        <5> QED BY <1>11, <5>1, <5>2
      <4> QED BY <4>1
    <3>2. Held(j) = {}
      BY <1>11, <3>1 DEF Held
    <3> QED BY <3>2 DEF HeldMore, HeldOf
  <2> QED BY <1>13, <2>1, <2>2, <2>3, <2>4
<1> QED BY <1>1, <1>14, <1>15

\* A store that becomes visible changes no more than a flag.
LEMMA LandLocks ==
  ASSUME KeptInv, KeptInv', LocksInv, NEW w \in Workers, Land(w)
  PROVE  LocksInv'
<1> DEFINE s == job[w].store
           d == [df[s.file] EXCEPT !.flag = s.flag]
           n == [job[w] EXCEPT !.store = None]
<1>1. /\ s # None /\ df' = [df EXCEPT ![s.file] = d] /\ dofn' = dofn
      /\ job' = [job EXCEPT ![w] = n]
  BY DEF Land, Landed, KeptInv, TypeOK
<1>2. /\ TypeOK /\ job[w] \in Jobs /\ df \in [Files -> dFILE]
  BY JobFacts DEF TypeOK
<1>3. s.file \in Files
  <2>1. s \in [file : Files, flag : {0, 1}]
    BY <1>1, <1>2 DEF Jobs
  <2> QED BY <2>1
<1>4. SameOwners
  <2>1. df[s.file] \in dFILE
    BY <1>2, <1>3
  <2> HIDE DEF s
  <2>2. d.owner = df[s.file].owner /\ d.depth = df[s.file].depth
    BY <2>1, SMT DEF dFILE
  <2> HIDE DEF d
  <2> QED BY <1>1, <1>2, <1>3, <2>2 DEF SameOwners
<1>5. \A v \in Workers : Copy(job'[v], job[v]) /\ (From(v))' = From(v)
  <2>1. Copy(n, job[w])
    BY <1>2, StoreMoves
  <2> HIDE DEF n
  <2>2. job'[w] = n /\ OthersSame(w)
    BY <1>1, NextIs
  <2>3. \A v \in Workers : Copy(job'[v], job[v])
    BY <2>1, <2>2 DEF OthersSame, Copy
  <2> QED BY <2>3 DEF Copy, From
<1>6. ASSUME NEW v \in Workers PROVE (SureFor(v))' /\ (DepthFor(v))'
  <2>1. SureFor(v) /\ DepthFor(v)
    BY ForEach DEF LocksInv
  <2>2. Sure(job'[v]) = Sure(job[v])
    BY <1>5 DEF Copy, Sure
  <2>3. \A i \in Sure(job[v]) : From(v)[i] \in Files
    BY SureHas
  <2>4. (SureFor(v))'
    BY <1>4, <1>5, <2>1, <2>2, <2>3 DEF SureFor, SameOwners, Copy
  <2>5. Held(job'[v]) = Held(job[v])
    BY <1>5, <2>2 DEF Held, FromHeld, CommitHeld, AppendHeld, Copy
  <2>6. \A f : HeldOf(job'[v], f) = HeldOf(job[v], f)
    BY <1>5, <2>5 DEF HeldOf, Copy
  <2>7. Last(job'[v]) <=> Last(job[v])
    BY <1>5 DEF Last, Copy
  <2>8. (DepthFor(v))'
    BY <1>4, <1>5, <2>1, <2>6, <2>7 DEF DepthFor, SameOwners, Copy
  <2> QED BY <2>4, <2>8
<1>7. SureInv' /\ DepthInv'
  <2>1. (SureInv)' <=> \A v \in Workers : (SureFor(v))'
    BY DEF SureInv, SureFor
  <2>2. \A v \in Workers : (Last(job[v]))' <=>
          \A i \in DOMAIN job'[v].handles : (From(v))'[i] =
            job'[v].script.from[Len(job'[v].script.from) - Len(job'[v].handles) + i]
    BY DEF Last, From
  <2>3. DepthInv'
    BY <1>6, <2>2 DEF DepthInv, DepthFor
  <2> QED BY <1>6, <2>1, <2>3
<1>8. WaitInv'
  <2>1. Entering' = Entering
    BY <1>5 DEF Entering, Copy
  <2>2. \A v \in Entering : From(v)[job[v].k] \in Files
    BY CommitTable DEF Entering, InCommit
  <2>3. dofn' # None => job'[dofn'].at = "flush"
    <3>1. dofn \in Workers \cup {None} /\ (dofn # None => job[dofn].at = "flush")
      BY DEF KeptInv, TypeOK, LocksInv, WaitInv
    <3> QED BY <1>1, <1>5, <3>1 DEF Copy
  <2>4. ASSUME NEW S \in SUBSET Entering, S # {}
        PROVE  \E v \in S : df'[(From(v))'[job'[v].k]].owner \notin S \ {v}
    <3>1. PICK v \in S : df[From(v)[job[v].k]].owner \notin S \ {v}
      BY <2>4 DEF LocksInv, WaitInv
    <3>2. v \in Workers /\ From(v)[job[v].k] \in Files
      BY <2>2 DEF Entering
    <3> QED BY <1>4, <1>5, <3>1, <3>2 DEF Copy, SameOwners
  <2> QED BY <2>1, <2>3, <2>4 DEF WaitInv
<1> QED BY <1>7, <1>8 DEF LocksInv
LEMMA InitLocks ==
  ASSUME Init
  PROVE  LocksInv
<1>1. \A w \in Workers : w # None
  BY NoneIsNone
<1>2. \A w \in Workers : /\ job[w].at = "idle" /\ job[w].seen = None /\ ~job[w].kept
  <2>1. \A w \in Workers : job[w] = Idle(FALSE)
    BY DEF Init
  <2> QED BY <2>1, IdleMoves
<1>3. \A f \in Files : df[f].owner = None
  <2>1. Closed.owner = None
    BY SMT DEF Closed
  <2> QED BY <2>1 DEF Init
<1>4. SureInv
  BY <1>2 DEF SureInv, Sure
<1>5. DepthInv
  BY <1>1, <1>2, <1>3 DEF DepthInv, InClose
<1>6. WaitInv
  <2>1. Entering = {}
    BY <1>2 DEF Entering
  <2> QED BY <2>1 DEF WaitInv, Init
<1> QED BY <1>4, <1>5, <1>6 DEF LocksInv

LEMMA StepLocks ==
  ASSUME KeptInv, LocksInv, [Next]_vars
  PROVE  KeptInv' /\ LocksInv'
<1>0. KeptInv'
  BY StepTables
<1>1. CASE UNCHANGED vars
  <2>1. job' = job /\ df' = df /\ dofn' = dofn
    BY <1>1 DEF vars
  <2> QED BY <1>0, <2>1, LocksSame
<1>2. ASSUME NEW w \in Workers, Begin(w) \/ Land(w) \/ Step(w)
      PROVE  LocksInv'
  <2>1. CASE Begin(w) \/ Land(w)
    BY <1>0, <2>1, BeginLocks, LandLocks
  <2>2. CASE AwakeFrom(w)
    BY <1>0, <2>2, AwakeFromLocks
  <2>3. CASE LockFrom(w)
    BY <1>0, <2>3, LockFromLocks
  <2>4. CASE Read(w)
    BY <1>0, <2>4, ReadLocks
  <2>5. CASE CalRecLater(w)
    BY <1>0, <2>5, CalRecLaterLocks
  <2>6. CASE CalRecNow(w)
    BY <1>0, <2>6, CalRecNowLocks
  <2>7. CASE ActFails(w)
    BY <1>0, <2>7, ActFailsLocks
  <2>8. CASE AppRecLock(w)
    BY <1>0, <2>8, AppRecLockLocks
  <2>9. CASE AppRecPut(w)
    BY <1>0, <2>9, AppRecPutLocks
  <2>10. CASE AppRecUnLock(w)
    BY <1>0, <2>10, AppRecUnLockLocks
  <2>11. CASE TryLock(w)
    BY <1>0, <2>11, TryLockLocks
  <2>12. CASE TryEnter(w)
    BY <1>0, <2>12, TryEnterLocks
  <2>13. CASE Retreat(w)
    BY <1>0, <2>13, RetreatLocks
  <2>14. CASE WriteLog(w)
    BY <1>0, <2>14, WriteLogLocks
  <2>15. CASE UnLockAll(w)
    BY <1>0, <2>15, UnLockAllLocks
  <2>16. CASE FreeRecLock(w)
    BY <1>0, <2>16, FreeRecLockLocks
  <2>17. CASE CloseTarget(w)
    BY <1>0, <2>17, CloseTargetLocks
  <2>18. CASE CloseFrom(w)
    BY <1>0, <2>18, CloseFromLocks
  <2>19. CASE Sleep(w)
    BY <1>0, <2>19, SleepLocks
  <2>20. CASE Flush(w)
    BY <1>0, <2>20, FlushLocks
  <2>21. CASE AppRecFails(w)
    BY <1>0, <2>21, AppRecFailsLocks
  <2> QED
    BY <1>2, <2>1, <2>2, <2>3, <2>4, <2>5, <2>6, <2>7, <2>8, <2>9, <2>10, <2>11, <2>12,
       <2>13, <2>14, <2>15, <2>16, <2>17, <2>18, <2>19, <2>20, <2>21 DEF Step
<1> QED BY <1>0, <1>1, <1>2 DEF Next

LEMMA InvParts ==
  TablesInv <=> KeptInv /\ LocksInv
BY DEF TablesInv, LocksInv

(* At every point of a script its worker owns the tables it takes for       *)
(* locked, is in no critical section deeper than its lock and unlock calls  *)
(* account for, and no circle of commits waits in wmtDbfTryLock.            *)
THEOREM TablesCorrect == Spec => []TablesInv
<1>1. Init => TablesInv
  BY InitTables, InitLocks, InvParts
<1>2. TablesInv /\ [Next]_vars => TablesInv'
  <2> SUFFICES ASSUME TablesInv, [Next]_vars PROVE TablesInv'
    OBVIOUS
  <2>1. KeptInv' /\ LocksInv'
    BY StepLocks, InvParts
  <2> QED BY <2>1 DEF TablesInv, LocksInv
<1> QED BY <1>1, <1>2, PTL DEF Spec
-----------------------------------------------------------------------------
(* Who waits for whom                                                       *)

LEMMA WantedFiles ==
  ASSUME KeptInv, NEW w \in Workers
  PROVE  Wanted(w) \subseteq Files
<1> DEFINE j == job[w]
<1>1. /\ TypeOK /\ ControlInv /\ Fit(j) /\ DOMAIN j.handles = 1 .. Len(j.handles) /\ Len(j.handles) \in Nat
      /\ j.handles \in Seq(Handles)
      /\ \A i \in DOMAIN j.handles : From(w)[i] \in Files /\ From(w)[i] = j.handles[i].file
  BY JobFacts, FromFile DEF KeptInv
<1>2. CASE j.at = "lock"
  <2>1. Len(j.handles) \in 1 .. Len(j.script.from) /\ Len(j.script.from) \in Nat
    BY <1>1, <1>2, JobFacts DEF Fit
  <2>2. Len(j.handles) \in DOMAIN j.handles
    BY <1>1, <2>1, SMT
  <2> QED BY <1>1, <1>2, <2>2 DEF Wanted
<1>3. CASE j.at \in {"act", "calrec", "apprec", "append"}
  <2>1. Table(w) \in Files
    BY <1>3, ActTable DEF InAct
  <2> QED BY <1>3, <2>1 DEF Wanted
<1>4. CASE j.at \in {"enter", "free"}
  <2>1. From(w)[j.k] \in Files
    BY <1>4, CommitTable DEF InCommit
  <2> QED BY <1>4, <2>1 DEF Wanted
<1>5. CASE j.at = "flush"
  <2>1. j.handles # <<>>
    BY <1>1, <1>5 DEF Fit, InClose
  <2>2. 1 \in DOMAIN j.handles
    BY <1>1, <2>1, TailSeq, SMT
  <2> QED BY <1>1, <1>5, <2>2 DEF Wanted
<1> QED BY <1>2, <1>3, <1>4, <1>5 DEF Wanted

\* A worker waits for the owner of a table it wants, or for the one that flushes.
LEMMA BlockerIs ==
  ASSUME KeptInv, LocksInv, NEW w \in Workers, Blocker(w) # w
  PROVE  /\ Blocker(w) \in Workers
         /\ \/ \E f \in Files : f \in Wanted(w) /\ df[f].owner = Blocker(w)
            \/ WantsList(w) /\ dofn = Blocker(w) /\ job[Blocker(w)].at = "flush"
<1> DEFINE owners == {df[f].owner : f \in Wanted(w)} \cup (IF WantsList(w) THEN {dofn} ELSE {})
           b == Blocker(w)
<1>1. b = IF owners \subseteq {None, w} THEN w ELSE CHOOSE v \in owners : v \notin {None, w}
  BY DEF Blocker
<1>2. b \in owners /\ b # None
  <2>1. ~(owners \subseteq {None, w})
    BY <1>1
  <2>2. \E v \in owners : v \notin {None, w}
    BY <2>1
  <2>3. b = CHOOSE v \in owners : v \notin {None, w}
    BY <1>1, <2>1
  <2> HIDE DEF owners, b
  <2> QED BY <2>2, <2>3
<1>3. CASE \E f \in Wanted(w) : df[f].owner = b
  <2>1. PICK f \in Wanted(w) : df[f].owner = b
    BY <1>3
  <2>2. f \in Files
    BY WantedFiles
  <2>3. df[f].owner \in Workers \cup {None}
    <3>1. df[f] \in dFILE
      BY <2>2 DEF KeptInv, TypeOK
    <3> QED BY <3>1 DEF dFILE
  <2> QED BY <1>2, <2>1, <2>2, <2>3
<1>4. CASE WantsList(w) /\ b = dofn
  <2>1. dofn \in Workers \cup {None}
    BY DEF KeptInv, TypeOK
  <2> QED BY <1>2, <1>4, <2>1 DEF LocksInv, WaitInv
<1> QED BY <1>2, <1>3, <1>4

\* Who owns a table holds it for a reason, unless it has kept it.
LEMMA OwnerHolds ==
  ASSUME KeptInv, LocksInv, NEW w \in Workers, NEW f \in Files, df[f].owner = w, ~job[w].kept
  PROVE  HeldOf(job[w], f) # {}
<1>1. df[f].depth <= Cardinality(HeldOf(job[w], f))
  BY DeepBefore DEF Deep
<1>2. df[f].depth \in Nat \ {0}
  <2>1. \A v \in Workers : v # None
    BY NoneIsNone
  <2>2. df[f] \in dFILE /\ (df[f].owner = None <=> df[f].depth = 0)
    BY DEF KeptInv, TypeOK
  <2> QED BY <2>1, <2>2 DEF dFILE
<1>3. ASSUME HeldOf(job[w], f) = {} PROVE FALSE
  <2>1. Cardinality(HeldOf(job[w], f)) = 0
    BY <1>3, FS_EmptySet
  <2> QED BY <1>1, <1>2, <2>1, SMT
<1> QED BY <1>3

\* A worker whose script is not EXCLUSIVE, and that has kept nothing, owns a table only
\* in a commit or in apprec.
LEMMA OrdinaryOwner ==
  ASSUME KeptInv, LocksInv, NEW w \in Workers, NEW f \in Files, df[f].owner = w,
         ~job[w].kept, job[w].at = "idle" \/ ~job[w].script.exclusive
  PROVE  job[w].at \in {"commit", "retreat", "enter", "write", "unlock",
                        "append", "unlock1", "unlock2"}
<1>1. HeldOf(job[w], f) # {}
  BY OwnerHolds
<1>2. Held(job[w]) # {}
  BY <1>1 DEF HeldOf
<1> QED BY <1>2 DEF Held, CommitHeld, AppendHeld, Sure

\* A worker that blocks another and is blocked itself is in wmtDbfTryLock or flushes.
LEMMA BlocksAndWaits ==
  ASSUME KeptInv, LocksInv, NEW w \in Workers, Blocker(w) # w,
         ~job[w].kept, job[w].at = "idle" \/ ~job[w].script.exclusive,
         NEW f \in Files, df[f].owner = w
  PROVE  job[w].at = "enter"
<1>1. job[w].at \in {"commit", "retreat", "enter", "write", "unlock",
                     "append", "unlock1", "unlock2"}
  BY OrdinaryOwner
<1>2. Wanted(w) # {}
  BY <1>1, BlockerIs DEF WantsList
<1>3. job[w].at \in {"enter", "append"}
  BY <1>1, <1>2 DEF Wanted
<1>4. job[w].at # "append"
  <2> SUFFICES ASSUME job[w].at = "append" PROVE FALSE
    OBVIOUS
  <2>1. Wanted(w) = {Table(w)} /\ ~WantsList(w)
    BY DEF Wanted, WantsList
  <2>2. df[Table(w)].owner = w
    BY DEF KeptInv, HeldInv
  <2> QED BY <2>1, <2>2, BlockerIs
<1> QED BY <1>3, <1>4

LEMMA NoKnot ==
  ASSUME KeptInv, LocksInv, NEW S \in SUBSET Workers, Knot(S),
         \A w \in S : /\ ~job[w].kept /\ ~job[w].misread
                      /\ job[w].at = "idle" \/ ~job[w].script.exclusive
  PROVE  FALSE
<1> DEFINE S1 == {Blocker(w) : w \in S}
           S2 == {Blocker(w) : w \in S1}
<1>1. S # {} /\ \A w \in S : w \in Workers /\ Blocker(w) \in S /\ Blocker(w) # w
  BY DEF Knot
<1>2. S1 \subseteq S /\ S1 # {}
  BY <1>1
<1>3. S2 \subseteq S1 /\ S2 # {}
  BY <1>1, <1>2
<1>4. ASSUME NEW w \in S1 PROVE job[w].at \in {"enter", "flush"}
  <2>1. PICK v \in S : w = Blocker(v)
    OBVIOUS
  <2>2. w \in S /\ w \in Workers /\ v \in Workers /\ Blocker(v) # v
    BY <1>1, <1>2, <2>1
  <2>3. CASE \E f \in Files : df[f].owner = w
    BY <1>1, <2>2, <2>3, BlocksAndWaits
  <2>4. CASE job[w].at = "flush"
    BY <2>4
  <2> QED BY <2>1, <2>2, <2>3, <2>4, BlockerIs
<1>5. ASSUME NEW w \in S2 PROVE w \in Entering
  <2>1. PICK v \in S1 : w = Blocker(v)
    OBVIOUS
  <2>2. w \in S /\ v \in S /\ w \in Workers /\ v \in Workers /\ Blocker(v) # v
    BY <1>1, <1>2, <1>3, <2>1
  <2>3. ~WantsList(v)
    BY <1>4 DEF WantsList
  <2>4. PICK f \in Files : df[f].owner = w
    BY <2>1, <2>2, <2>3, BlockerIs
  <2>5. job[w].at = "enter"
    BY <1>1, <2>2, <2>4, BlocksAndWaits
  <2> QED BY <2>2, <2>5 DEF Entering
<1>6. ASSUME NEW w \in S2 PROVE df[From(w)[job[w].k]].owner \in S2 \ {w}
  <2>1. w \in S1 /\ w \in S /\ w \in Workers /\ Blocker(w) # w /\ Blocker(w) \in S2
    BY <1>1, <1>2, <1>3
  <2>2. job[w].at = "enter"
    BY <1>5 DEF Entering
  <2>3. Wanted(w) = {From(w)[job[w].k]} /\ ~WantsList(w)
    BY <2>2 DEF Wanted, WantsList
  <2>4. df[From(w)[job[w].k]].owner = Blocker(w)
    BY <2>1, <2>3, BlockerIs
  <2> QED BY <2>1, <2>4
<1> HIDE DEF S2
<1>7. S2 \in SUBSET Entering
  BY <1>5
<1> QED BY <1>3, <1>6, <1>7 DEF LocksInv, WaitInv

(* No mix of ordinary scripts, of any number and on any tables, ends in a   *)
(* circle of waits (wmtDbfTryLock, asqlDbCommit), or waits for a worker     *)
(* that has ended its script with a table locked.                           *)
THEOREM BlocksAlwaysExplained == Spec => []BlocksExplained
<1>1. TablesInv => BlocksExplained
  <2> SUFFICES ASSUME KeptInv, LocksInv PROVE BlocksExplained
    BY InvParts
  <2>1. ASSUME NEW S \in SUBSET Workers, Knot(S)
        PROVE  \E w \in S : \/ job[w].kept
                            \/ job[w].misread
                            \/ job[w].at # "idle" /\ job[w].script.exclusive
    BY <2>1, NoKnot
  <2>2. ASSUME NEW w \in Workers, Abandoned(w) PROVE job[Blocker(w)].kept
    <3>1. Blocker(w) # w /\ job[Blocker(w)].at = "idle"
      BY <2>2 DEF Abandoned
    <3>2. PICK f \in Files : df[f].owner = Blocker(w)
      BY <3>1, BlockerIs
    <3>3. HeldOf(job[Blocker(w)], f) = {}
      BY <3>1 DEF HeldOf, Held
    <3> QED BY <3>1, <3>2, <3>3, BlockerIs, OwnerHolds
  <2> QED BY <2>1, <2>2 DEF BlocksExplained
<1> QED BY <1>1, TablesCorrect, PTL
-----------------------------------------------------------------------------
(* The tables behave like those of Transactions                             *)

\* Who still has to write a record of f owns f: there is one at most.
LEMMA WriterOwns ==
  ASSUME KeptInv, LocksInv, NEW f, NEW r, NEW w \in Writers(f, r)
  PROVE  w \in Workers /\ job[w].at = "write" /\ df[f].owner = w
<1>1. w \in Workers /\ job[w].at = "write" /\ <<f, r>> \in Late(w)
  BY DEF Writers
<1>2. /\ job[w] \in Jobs /\ DOMAIN job[w].log = 1 .. Len(job[w].log) /\ Len(job[w].log) \in Nat
      /\ Fit(job[w])
  BY <1>1, JobFacts
<1>3. PICK i \in job[w].k .. Len(job[w].log) : <<f, r>> = <<job[w].log[i].file, job[w].log[i].rec>>
  BY <1>1 DEF Late
<1>4. i \in DOMAIN job[w].log
  <2>1. job[w].k \in DOMAIN job[w].log
    BY <1>1, <1>2 DEF Fit
  <2> QED BY <1>2, <2>1, SMT
<1>5. job[w].log[i] \in Elements(job[w].log) /\ job[w].log[i].file = f
  BY <1>3, <1>4 DEF Elements
<1>6. PICK n \in DOMAIN job[w].handles : From(w)[n] = f
  BY <1>1, <1>5 DEF KeptInv, HeldInv
<1>7. n \in Sure(job[w])
  BY <1>1, <1>6 DEF Sure
<1>8. df[From(w)[n]].owner = w
  BY <1>1, <1>7 DEF LocksInv, SureInv
<1> QED BY <1>1, <1>6, <1>8

LEMMA StoredAt ==
  ASSUME KeptInv, LocksInv, NEW f \in Files, NEW r \in DOMAIN data[f]
  PROVE  /\ Writers(f, r) = {} => Stored[f][r] = data[f][r]
         /\ \A w \in Writers(f, r) : Stored[f][r] = job[w].no
<1>1. Stored[f][r] = IF Writers(f, r) = {} THEN data[f][r]
                     ELSE job[CHOOSE w \in Writers(f, r) : TRUE].no
  BY DEF Stored
<1>2. ASSUME NEW w \in Writers(f, r) PROVE Stored[f][r] = job[w].no
  <2>1. \A v \in Writers(f, r) : v = w
    BY WriterOwns
  <2>2. (CHOOSE v \in Writers(f, r) : TRUE) = w
    BY <2>1
  <2> QED BY <1>1, <2>2
<1> QED BY <1>1, <1>2

LEMMA StoredShape ==
  ASSUME TypeOK, NEW f \in Files
  PROVE  /\ DOMAIN Stored = Files /\ DOMAIN Stored[f] = DOMAIN data[f]
         /\ DOMAIN data[f] = 1 .. Len(data[f]) /\ Len(data[f]) \in Nat
         /\ Stored[f] = [r \in DOMAIN data[f] |-> Stored[f][r]]
         /\ Len(Stored[f]) = Len(data[f])
<1>1. /\ DOMAIN Stored = Files /\ DOMAIN Stored[f] = DOMAIN data[f]
      /\ Stored[f] = [r \in DOMAIN data[f] |-> Stored[f][r]]
  BY DEF Stored
<1>2. DOMAIN data[f] = 1 .. Len(data[f]) /\ Len(data[f]) \in Nat
  <2>1. data[f] \in Seq(0 .. MaxScripts)
    BY DEF TypeOK
  <2> QED BY <2>1, SMT
<1> DEFINE n == Len(data[f])
           s == Stored[f]
           S == {s[r] : r \in 1 .. n}
<1>3. n \in Nat /\ s \in [1 .. n -> S]
  BY <1>1, <1>2
<1> HIDE DEF n, s, S
<1>4. Len(s) = n
  BY <1>3, FunctionSeq
<1> QED BY <1>1, <1>2, <1>4 DEF n, s

LEMMA SeenIs ==
  ASSUME NEW w \in Workers, OthersSame(w)
  PROVE  Seen' = [Seen EXCEPT ![w] = job'[w].seen]
BY DEF Seen, OthersSame

LEMMA SeenSame ==
  ASSUME NEW w \in Workers, OthersSame(w), job'[w].seen = job[w].seen
  PROVE  Seen' = Seen
<1>1. \A v \in Workers : job'[v].seen = job[v].seen
  BY DEF OthersSame
<1> QED BY <1>1 DEF Seen

PendingOf(w) == IF job[w].at = "write" THEN {} ELSE {<<e.file, e.rec>> : e \in Elements(job[w].log)}

LEMMA PendingIs ==
  ASSUME NEW w \in Workers, OthersSame(w)
  PROVE  /\ Pending' = [Pending EXCEPT ![w] = (PendingOf(w))']
         /\ Pending[w] = PendingOf(w)
         /\ (PendingOf(w))' = PendingOf(w) => Pending' = Pending
<1>1. Pending = [v \in Workers |-> PendingOf(v)]
  BY DEF Pending, PendingOf
<1>2. Pending' = [v \in Workers |-> (PendingOf(v))']
  BY DEF Pending, PendingOf
<1>3. \A v \in Workers \ {w} : (PendingOf(v))' = PendingOf(v)
  BY DEF OthersSame, PendingOf
<1> QED BY <1>1, <1>2, <1>3

\* No record changes hands: w writes no log, and nothing is written.
LEMMA StoredSame ==
  ASSUME NEW w \in Workers, OthersSame(w), data' = data,
         job[w].at # "write", job'[w].at # "write"
  PROVE  Stored' = Stored
<1>1. ASSUME NEW f, NEW r
      PROVE  /\ (Writers(f, r))' = Writers(f, r)
             /\ \A v \in Writers(f, r) : job'[v].no = job[v].no
  <2>1. \A v \in Workers \ {w} : job'[v] = job[v] /\ (Late(v))' = Late(v)
    BY DEF OthersSame, Late
  <2> QED BY <2>1 DEF Writers
<1>2. ASSUME NEW f \in Files, NEW r \in DOMAIN data[f]
      PROVE  (IF (Writers(f, r))' = {} THEN data'[f][r]
              ELSE job'[CHOOSE v \in (Writers(f, r))' : TRUE].no)
             = (IF Writers(f, r) = {} THEN data[f][r]
                ELSE job[CHOOSE v \in Writers(f, r) : TRUE].no)
  BY <1>1
<1> QED BY <1>2 DEF Stored

TransactionsStep == T!Next \/ (Stored' = Stored /\ Pending' = Pending /\ Seen' = Seen)

\* A step that changes neither a log nor what has been read
LEMMA SkipStep ==
  ASSUME NEW w \in Workers, OthersSame(w), data' = data,
         job[w].at # "write", job'[w].at # "write",
         job'[w].log = job[w].log, job'[w].seen = job[w].seen
  PROVE  TransactionsStep
<1>1. Stored' = Stored /\ Seen' = Seen
  BY StoredSame, SeenSame
<1>2. Pending' = Pending
  BY PendingIs DEF PendingOf
<1> QED BY <1>1, <1>2 DEF TransactionsStep

\* A transaction is given up.
LEMMA DropStep ==
  ASSUME NEW w \in Workers, OthersSame(w), data' = data,
         job[w].at # "write", job'[w].at # "write",
         job'[w].log = <<>>, job'[w].seen = None
  PROVE  TransactionsStep
<1>1. Stored' = Stored /\ Seen' = [Seen EXCEPT ![w] = None]
  BY StoredSame, SeenIs
<1>2. (PendingOf(w))' = {}
  <2>1. Elements(<<>>) = {}
    BY SMT DEF Elements
  <2> QED BY <2>1 DEF PendingOf
<1>3. Pending' = [Pending EXCEPT ![w] = {}]
  BY <1>2, PendingIs
<1>4. T!Drop(w)
  BY <1>1, <1>3 DEF T!Drop, T!Used
<1> QED BY <1>4 DEF TransactionsStep, T!Next

\* A record is added to the log.
LEMMA PrepareStep ==
  ASSUME TypeOK, NEW w \in Workers, OthersSame(w), data' = data,
         job[w].at # "write", job'[w].at # "write", job'[w].seen = None,
         NEW e, Elements(job'[w].log) = Elements(job[w].log) \cup {e},
         e.file \in Files, e.rec \in DOMAIN data[e.file]
  PROVE  TransactionsStep
<1>1. Stored' = Stored /\ Seen' = [Seen EXCEPT ![w] = None]
  BY StoredSame, SeenIs
<1>2. (PendingOf(w))' = PendingOf(w) \cup {<<e.file, e.rec>>}
  BY DEF PendingOf
<1>3. Pending' = [Pending EXCEPT ![w] = @ \cup {<<e.file, e.rec>>}]
  BY <1>2, PendingIs
<1>4. e.rec \in DOMAIN Stored[e.file]
  BY StoredShape
<1>5. T!Prepare(w)
  BY <1>1, <1>3, <1>4 DEF T!Prepare, T!Used
<1> QED BY <1>5 DEF TransactionsStep, T!Next

\* Nobody has records of f to write while w can enter it.
LEMMA NobodyWrites ==
  ASSUME KeptInv, LocksInv, NEW w \in Workers, NEW f, CanEnter(w, f), job[w].at # "write", NEW r
  PROVE  Writers(f, r) = {}
<1>1. \A v \in Workers : v # None
  BY NoneIsNone
<1> SUFFICES ASSUME NEW v \in Writers(f, r) PROVE FALSE
  OBVIOUS
<1>2. v \in Workers /\ job[v].at = "write" /\ df[f].owner = v
  BY WriterOwns
<1> QED BY <1>1, <1>2 DEF CanEnter

\* Record r of f becomes n; f then has m records.
Written(f, r, n, m) ==
  /\ m = IF r > Len(data[f]) THEN r ELSE Len(data[f])
  /\ DOMAIN data'[f] = 1 .. m
  /\ \A q \in 1 .. m : data'[f][q] = IF q = r THEN n ELSE data[f][q]
  /\ \A g \in Files \ {f} : data'[g] = data[g]

\* A record is changed or added at once, in the critical section of its table.
LEMMA WriteStep ==
  ASSUME KeptInv, LocksInv, NEW w \in Workers, OthersSame(w), NEW f \in Files, CanEnter(w, f),
         job[w].at # "write", job'[w].at # "write", job'[w].log = job[w].log,
         job'[w].seen = None, NEW r \in 1 .. Len(data[f]) + 1, NEW n \in 1 .. MaxScripts,
         NEW m, Written(f, r, n, m), Stored'[f] # Stored[f] \/ PendingOf(w) = {}
  PROVE  TransactionsStep
<1>0. /\ m = IF r > Len(data[f]) THEN r ELSE Len(data[f])
      /\ DOMAIN data'[f] = 1 .. m
      /\ \A q \in 1 .. m : data'[f][q] = IF q = r THEN n ELSE data[f][q]
      /\ \A g \in Files \ {f} : data'[g] = data[g]
  BY DEF Written
<1>1. TypeOK
  BY DEF KeptInv
<1>2. ASSUME NEW g, NEW q
      PROVE  /\ (Writers(g, q))' = Writers(g, q)
             /\ \A v \in Writers(g, q) : job'[v].no = job[v].no
  <2>1. \A v \in Workers \ {w} : job'[v] = job[v] /\ (Late(v))' = Late(v)
    BY DEF OthersSame, Late
  <2> QED BY <2>1 DEF Writers
<1>3. \A q : Writers(f, q) = {}
  BY NobodyWrites
<1>4. \A q \in DOMAIN data[f] : Stored[f][q] = data[f][q]
  BY <1>3, StoredAt
<1>5. Stored' = [g \in Files |-> Stored'[g]] /\ Stored = [g \in Files |-> Stored[g]]
  BY DEF Stored
<1> USE <1>0
<1>6. ASSUME NEW g \in Files \ {f} PROVE Stored'[g] = Stored[g]
  <2>1. Stored[g] = [q \in DOMAIN data[g] |-> Stored[g][q]]
    BY DEF Stored
  <2>2. Stored'[g] = [q \in DOMAIN data[g] |-> Stored'[g][q]]
    BY DEF Stored
  <2>3. ASSUME NEW q \in DOMAIN data[g] PROVE Stored'[g][q] = Stored[g][q]
    <3>1. Stored[g][q] = IF Writers(g, q) = {} THEN data[g][q]
                         ELSE job[CHOOSE v \in Writers(g, q) : TRUE].no
      BY DEF Stored
    <3>2. Stored'[g][q] = IF (Writers(g, q))' = {} THEN data'[g][q]
                          ELSE job'[CHOOSE v \in (Writers(g, q))' : TRUE].no
      BY DEF Stored
    <3>3. (Writers(g, q))' = Writers(g, q) /\ data'[g][q] = data[g][q]
      BY <1>2
    <3>4. CASE Writers(g, q) = {}
      BY <3>1, <3>2, <3>3, <3>4
    <3>5. CASE Writers(g, q) # {}
      <4> DEFINE c == CHOOSE v \in Writers(g, q) : TRUE
      <4>1. c \in Writers(g, q)
        BY <3>5
      <4>2. Stored[g][q] = job[c].no /\ Stored'[g][q] = job'[c].no
        BY <3>1, <3>2, <3>3, <3>5
      <4> HIDE DEF c
      <4> QED BY <1>2, <4>1, <4>2
    <3> QED BY <3>4, <3>5
  <2> QED BY <2>1, <2>2, <2>3
<1>7. /\ DOMAIN data[f] = 1 .. Len(data[f]) /\ Len(data[f]) \in Nat
      /\ Len(Stored[f]) = Len(data[f])
  BY <1>1, StoredShape
<1>8. Stored'[f] = [q \in 1 .. m |-> IF q = r THEN n ELSE Stored[f][q]]
  <2>1. Stored'[f] = [q \in 1 .. m |-> Stored'[f][q]]
    BY DEF Stored
  <2>2. ASSUME NEW q \in 1 .. m PROVE Stored'[f][q] = IF q = r THEN n ELSE Stored[f][q]
    <3>1. Stored'[f][q] = data'[f][q]
      BY <1>2, <1>3 DEF Stored
    <3>2. q # r => q \in DOMAIN data[f]
      BY <1>7, SMT
    <3> QED BY <1>4, <3>1, <3>2
  <2> QED BY <2>1, <2>2
<1>9. Pending' = Pending /\ Seen' = [Seen EXCEPT ![w] = None]
  <2>1. (PendingOf(w))' = PendingOf(w)
    BY DEF PendingOf
  <2> QED BY <2>1, PendingIs, SeenIs
<1>10. CASE Stored'[f] # Stored[f]
  <2> DEFINE l == Len(Stored[f])
             d == [q \in 1 .. (IF r > l THEN r ELSE l) |-> IF q = r THEN n ELSE Stored[f][q]]
  <2>1. Stored'[f] = d
    BY <1>7, <1>8
  <2>2. Stored' = [Stored EXCEPT ![f] = d]
    <3> HIDE DEF d
    <3> QED BY <1>5, <1>6, <2>1
  <2>3. r \in 1 .. l + 1
    BY <1>7
  <2>4. T!Write(w)
    BY <1>9, <1>10, <2>2, <2>3 DEF T!Write, T!Used
  <2> QED BY <2>4 DEF TransactionsStep, T!Next
<1>11. CASE Stored'[f] = Stored[f]
  <2>1. Stored' = Stored
    BY <1>5, <1>6, <1>11
  <2>2. Pending' = [Pending EXCEPT ![w] = {}]
    BY <1>9, <1>11, PendingIs DEF Pending
  <2>3. T!Drop(w)
    BY <1>9, <2>1, <2>2 DEF T!Drop, T!Used
  <2> QED BY <2>3 DEF TransactionsStep, T!Next
<1> QED BY <1>10, <1>11

\* What StoredAt and WriterOwns say, of this state and of the next
StoredRight ==
  \A f \in Files : \A r \in DOMAIN data[f] :
    /\ Writers(f, r) = {} => Stored[f][r] = data[f][r]
    /\ \A w \in Writers(f, r) : Stored[f][r] = job[w].no

LEMMA StoredNow == KeptInv /\ LocksInv => StoredRight
BY StoredAt DEF StoredRight

LEMMA StoredNext == (KeptInv /\ LocksInv => StoredRight)'
BY StoredNow, PTL
-----------------------------------------------------------------------------
(* The actions that change no record and add none to a log                  *)

\* Where a script has no log
Resting(pc) == pc \notin InAct \cup {"commit", "retreat", "enter", "write"}

LEMMA RestingLog ==
  ASSUME KeptInv, LocksInv, NEW w \in Workers
  PROVE  Resting(job[w].at) => job[w].log = <<>> /\ job[w].seen = None
<1>1. Fit(job[w])
  BY JobFacts
<1>2. job[w].at \notin {"calrec", "apprec", "append"} => job[w].seen = None
  BY NowOK
<1> QED BY <1>1, <1>2 DEF Fit, Resting, InAct

LEMMA RestStep ==
  ASSUME KeptInv, KeptInv', LocksInv, LocksInv', NEW w \in Workers, OthersSame(w),
         data' = data, Resting(job[w].at), Resting(job'[w].at)
  PROVE  TransactionsStep
<1>1. job[w].log = <<>> /\ job[w].seen = None
  BY RestingLog
<1>2. job'[w].log = <<>>
  BY NextJob DEF Fit, Resting
<1>3. job'[w].seen = None
  BY DEF LocksInv, SureInv, Resting, InAct
<1>4. job[w].at # "write" /\ job'[w].at # "write"
  BY DEF Resting
<1> QED BY <1>1, <1>2, <1>3, <1>4, SkipStep

\* Nothing that Transactions knows of changes.
LEMMA NoStep ==
  ASSUME job' = job, data' = data
  PROVE  TransactionsStep
<1>1. Seen' = Seen /\ Pending' = Pending
  BY DEF Seen, Pending
<1>2. ASSUME NEW f, NEW r
      PROVE  /\ (Writers(f, r))' = Writers(f, r)
             /\ \A v \in Writers(f, r) : job'[v].no = job[v].no
  BY DEF Writers, Late
<1>3. ASSUME NEW f \in Files, NEW r \in DOMAIN data[f]
      PROVE  (IF (Writers(f, r))' = {} THEN data'[f][r]
              ELSE job'[CHOOSE v \in (Writers(f, r))' : TRUE].no)
             = (IF Writers(f, r) = {} THEN data[f][r]
                ELSE job[CHOOSE v \in Writers(f, r) : TRUE].no)
  BY <1>2
<1>4. Stored' = Stored
  BY <1>3 DEF Stored
<1> QED BY <1>1, <1>4 DEF TransactionsStep

\* What a call of wmtDbfLock or wmtDbfUnLock makes of the job next.
StoredIn(n, next) == \E s : n = [next EXCEPT !.store = s]

LEMMA LockLeaves ==
  ASSUME KeptInv, NEW w \in Workers, NEW f, NEW next, Lock(w, f, next)
  PROVE  OthersSame(w) /\ StoredIn(job'[w], next)
<1> DEFINE n == [next EXCEPT !.store = [file |-> f, flag |-> 1]]
<1>1. job' = [job EXCEPT ![w] = n]
  BY DEF Lock
<1>2. StoredIn(n, next)
  BY DEF StoredIn
<1> HIDE DEF n
<1> QED BY <1>1, <1>2, NextIs

LEMMA UnLockLeaves ==
  ASSUME KeptInv, NEW w \in Workers, NEW f, NEW next, UnLock(w, f, next)
  PROVE  job' = job \/ (OthersSame(w) /\ StoredIn(job'[w], next))
<1> DEFINE n == [next EXCEPT !.store = [file |-> f, flag |-> 0]]
<1>1. job' = job \/ job' = [job EXCEPT ![w] = n]
  BY DEF UnLock
<1>2. StoredIn(n, next)
  BY DEF StoredIn
<1> HIDE DEF n
<1> QED BY <1>1, <1>2, NextIs

LEMMA BeginMaps ==
  ASSUME KeptInv, KeptInv', LocksInv, LocksInv', NEW w \in Workers, Begin(w)
  PROVE  TransactionsStep
<1>1. job[w].at = "idle" /\ data' = data
  BY DEF Begin, At
<1> DEFINE m == number + 1
<1>2. PICK s \in Scripts : job' = [job EXCEPT ![w].at = "from", ![w].script = s, ![w].no = m]
  BY DEF Begin
<1> DEFINE n == [job[w] EXCEPT !.at = "from", !.script = s, !.no = m]
<1>3. job' = [job EXCEPT ![w] = n]
  BY <1>2 DEF KeptInv, TypeOK
<1>4. n.at = "from"
  <2>1. job[w] \in Jobs
    BY JobFacts
  <2> HIDE DEF m
  <2> QED BY <2>1, SMT DEF Jobs
<1> HIDE DEF n
<1>5. job'[w].at = "from" /\ OthersSame(w)
  BY <1>3, <1>4, NextIs
<1> QED BY <1>1, <1>5, RestStep DEF Resting, InAct

LEMMA LockFromMaps ==
  ASSUME KeptInv, KeptInv', LocksInv, LocksInv', NEW w \in Workers, LockFrom(w)
  PROVE  TransactionsStep
<1> DEFINE j == job[w]
           f == j.handles[Len(j.handles)].file
           next == Ready(j)
<1>1. /\ j.at = "lock" /\ Lock(w, f, next) /\ data' = data
  BY DEF LockFrom, At
<1>2. TypeOK /\ j \in Jobs /\ Fit(j) /\ j.script \in Scripts /\ j.log = <<>>
  BY <1>1, JobFacts, RestingLog DEF Resting, InAct
<1>3. next \in Jobs
  <2>1. Len(j.handles) \in 1 .. Len(j.script.from) /\ Matched(j) /\ j.k = 1
    BY <1>1, <1>2 DEF Fit, Matched, InClose
  <2> QED BY <1>2, <2>1, ReadyFit
<1>4. next.log = j.log /\ next.seen = j.seen /\ next.at # "write"
  BY <1>2, ReadyMoves DEF Calm
<1> HIDE DEF f, next
<1>5. Copy(job'[w], next) /\ OthersSame(w)
  BY <1>1, <1>2, <1>3, LockMoves DEF OthersSame
<1> QED BY <1>1, <1>4, <1>5, SkipStep DEF Copy

LEMMA AwakeFromMaps ==
  ASSUME KeptInv, KeptInv', LocksInv, LocksInv', NEW w \in Workers, AwakeFrom(w)
  PROVE  TransactionsStep
<1> DEFINE j == job[w]
           f == j.script.from[Len(j.handles) + 1]
           hs == Grown(w, f)
           k == [j EXCEPT !.handles = hs]
           locked == j.script.exclusive /\ j.handles # <<>>
           up == IF j.script.exclusive THEN [k EXCEPT !.at = "lock"] ELSE Ready(k)
           down == Idle(j.kept \/ locked)
<1>1. /\ j.at = "from" /\ dofn = None /\ data' = data
      /\ \/ job' = [job EXCEPT ![w] = up]
         \/ job' = [job EXCEPT ![w] = down]
  BY DEF AwakeFrom, At, Got, Grown, New
<1>2. j \in Jobs /\ Resting(j.at)
  BY <1>1, JobFacts DEF Resting, InAct
<1>3. CASE job' = [job EXCEPT ![w] = up]
  <2>1. job'[w] = up /\ OthersSame(w)
    <3> HIDE DEF up
    <3> QED BY <1>3, NextIs
  <2> HIDE DEF hs, locked
  <2>2. CASE j.script.exclusive
    <3>1. job'[w].at = "lock"
      BY <1>2, <2>1, <2>2, SMT DEF Jobs
    <3> QED BY <1>1, <1>2, <2>1, <3>1, RestStep DEF Resting, InAct
  <2>3. CASE ~j.script.exclusive
    <3>1. job'[w] = Ready(k)
      BY <2>1, <2>3
    <3>2. /\ k.log = j.log /\ k.seen = j.seen
      BY <1>2, SMT DEF Jobs
    <3>3. /\ Ready(k).log = k.log /\ Ready(k).seen = k.seen
          /\ Ready(k).at \in {"from", "act", "commit", "target"}
      <4> DEFINE n == [k EXCEPT !.at = "from"]
                 m == [k EXCEPT !.at = "act"]
                 a == IF k.script.update THEN "commit" ELSE "target"
                 o == [k EXCEPT !.at = a, !.k = 1]
      <4>1. Ready(k) \in {n, m, o}
        <5> HIDE DEF k
        <5> QED BY DEF Ready, Acting
      <4>2. n.log = k.log /\ n.seen = k.seen /\ n.at = "from"
        BY <1>2, SMT DEF Jobs
      <4>3. m.log = k.log /\ m.seen = k.seen /\ m.at = "act"
        BY <1>2, SMT DEF Jobs
      <4>4. o.log = k.log /\ o.seen = k.seen /\ o.at \in {"commit", "target"}
        <5>1. a \in {"commit", "target"}
          OBVIOUS
        <5> HIDE DEF a
        <5> QED BY <1>2, <5>1, SMT DEF Jobs
      <4> HIDE DEF n, m, o
      <4> QED BY <4>1, <4>2, <4>3, <4>4
    <3> HIDE DEF k
    <3> QED BY <1>1, <2>1, <3>1, <3>2, <3>3, SkipStep
  <2> QED BY <2>2, <2>3
<1>4. CASE job' = [job EXCEPT ![w] = down]
  <2>1. down.at = "idle"
    BY SMT DEF Idle
  <2> HIDE DEF down
  <2>2. job'[w].at = "idle" /\ OthersSame(w)
    BY <1>4, <2>1, NextIs
  <2> QED BY <1>1, <1>2, <2>2, RestStep DEF Resting, InAct
<1> QED BY <1>1, <1>3, <1>4

LEMMA UnLockAllMaps ==
  ASSUME KeptInv, KeptInv', LocksInv, LocksInv', NEW w \in Workers, UnLockAll(w)
  PROVE  TransactionsStep
<1> DEFINE j == job[w]
           f == From(w)[j.k]
           on == [j EXCEPT !.k = @ + 1]
           done == [j EXCEPT !.at = "free"]
           next == IF j.k < Len(j.handles) THEN on ELSE done
<1>1. j.at = "unlock" /\ UnLock(w, f, next) /\ data' = data
  BY DEF UnLockAll, At
<1>2. j \in Jobs
  BY JobFacts
<1>3. next = on \/ next = done
  OBVIOUS
<1> HIDE DEF next
<1>4. CASE job' = job
  BY <1>1, <1>4, NoStep
<1>5. CASE OthersSame(w) /\ StoredIn(job'[w], next)
  <2>1. PICK s : job'[w] = [next EXCEPT !.store = s]
    BY <1>5 DEF StoredIn
  <2>2. CASE next = on
    <3>1. job'[w].at = "unlock"
      BY <1>1, <1>2, <2>1, <2>2, SMT DEF Jobs
    <3> QED BY <1>1, <1>5, <3>1, RestStep DEF Resting, InAct
  <2>3. CASE next = done
    <3>1. job'[w].at = "free"
      BY <1>2, <2>1, <2>3, SMT DEF Jobs
    <3> QED BY <1>1, <1>5, <3>1, RestStep DEF Resting, InAct
  <2> QED BY <1>3, <2>2, <2>3
<1> QED BY <1>1, <1>4, <1>5, UnLockLeaves

LEMMA FreeRecLockMaps ==
  ASSUME KeptInv, KeptInv', LocksInv, LocksInv', NEW w \in Workers, FreeRecLock(w)
  PROVE  TransactionsStep
<1> DEFINE a == IF job[w].k > 1 THEN "free" ELSE "close"
           k == job[w].k - 1
           n == [job[w] EXCEPT !.k = k, !.at = a]
<1>1. job[w].at = "free" /\ data' = data /\ job' = [job EXCEPT ![w] = n]
  BY DEF FreeRecLock, At, KeptInv, TypeOK
<1>2. a \in {"free", "close"} /\ job[w] \in Jobs
  BY JobFacts
<1> HIDE DEF a, k
<1>3. n.at = a
  BY <1>2, SMT DEF Jobs
<1> HIDE DEF n
<1>4. job'[w].at = a /\ OthersSame(w)
  BY <1>1, <1>3, NextIs
<1> QED BY <1>1, <1>2, <1>4, RestStep DEF Resting, InAct

\* wmtDbfUnLock called by asqlCloseFiles
LEMMA CloseMaps ==
  ASSUME KeptInv, KeptInv', LocksInv, LocksInv', NEW w \in Workers, NEW f, NEW a, Resting(a),
         Resting(job[w].at), data' = data,
         \/ UnLock(w, f, [job[w] EXCEPT !.at = a])
         \/ job' = [job EXCEPT ![w] = [job[w] EXCEPT !.at = a]]
  PROVE  TransactionsStep
<1> DEFINE n == [job[w] EXCEPT !.at = a]
<1>1. job[w] \in Jobs
  BY JobFacts
<1>2. CASE job' = job
  BY <1>2, NoStep
<1>3. CASE OthersSame(w) /\ StoredIn(job'[w], n)
  <2>1. PICK s : job'[w] = [n EXCEPT !.store = s]
    BY <1>3 DEF StoredIn
  <2>2. job'[w].at = a
    BY <1>1, <2>1, SMT DEF Jobs
  <2> QED BY <1>3, <2>2, RestStep
<1>4. CASE job' = [job EXCEPT ![w] = n]
  <2>1. n.at = a
    BY <1>1, SMT DEF Jobs
  <2> HIDE DEF n
  <2>2. job'[w].at = a /\ OthersSame(w)
    BY <1>4, <2>1, NextIs
  <2> QED BY <2>2, RestStep
<1>5. UnLock(w, f, n) \/ job' = [job EXCEPT ![w] = n]
  OBVIOUS
<1> HIDE DEF n
<1> QED BY <1>2, <1>3, <1>4, <1>5, UnLockLeaves

LEMMA ClosesMap ==
  ASSUME KeptInv, KeptInv', LocksInv, LocksInv', NEW w \in Workers,
         CloseTarget(w) \/ CloseFrom(w) \/ Sleep(w) \/ Flush(w)
  PROVE  TransactionsStep
<1> DEFINE f == From(w)[1]
           n(a) == [job[w] EXCEPT !.at = a]
<1>1. job[w].at \in {"target", "close", "sleep", "flush"} /\ data' = data
  BY DEF CloseTarget, CloseFrom, Sleep, Flush, At
<1>2. Resting(job[w].at)
  BY <1>1 DEF Resting, InAct
<1>3. CASE CloseTarget(w)
  <2>1. UnLock(w, f, n("close")) \/ job' = [job EXCEPT ![w] = n("close")]
    BY <1>3 DEF CloseTarget
  <2>2. Resting("close")
    BY DEF Resting, InAct
  <2> QED BY <1>1, <1>2, <2>1, <2>2, CloseMaps
<1>4. CASE CloseFrom(w)
  <2>1. UnLock(w, f, n("sleep")) \/ job' = [job EXCEPT ![w] = n("sleep")]
    BY <1>4 DEF CloseFrom
  <2>2. Resting("sleep")
    BY DEF Resting, InAct
  <2> QED BY <1>1, <1>2, <2>1, <2>2, CloseMaps
<1>5. CASE Sleep(w) \/ Flush(w)
  <2>1. job' = [job EXCEPT ![w] = Slept(job[w])] \/ job' = [job EXCEPT ![w] = n("flush")]
    BY <1>5 DEF Sleep, Flush
  <2>2. CASE job' = [job EXCEPT ![w] = Slept(job[w])]
    <3>1. job'[w] = Slept(job[w]) /\ OthersSame(w)
      BY <2>2, NextIs
    <3>2. Slept(job[w]).at \in {"idle", "close"}
      <4>1. job[w] \in Jobs /\ job[w].seen = None
        BY <1>2, JobFacts, RestingLog
      <4> QED BY <4>1, SleptMoves
    <3> QED BY <1>1, <1>2, <3>1, <3>2, RestStep DEF Resting, InAct
  <2>3. CASE job' = [job EXCEPT ![w] = n("flush")]
    <3>1. Resting("flush")
      BY DEF Resting, InAct
    <3> QED BY <1>1, <1>2, <2>3, <3>1, CloseMaps
  <2> QED BY <2>1, <2>2, <2>3
<1> QED BY <1>3, <1>4, <1>5

LEMMA RetreatMaps ==
  ASSUME KeptInv, NEW w \in Workers, Retreat(w)
  PROVE  TransactionsStep
<1> DEFINE j == job[w]
           f == From(w)[j.k]
           back == [j EXCEPT !.k = @ - 1]
           again == [j EXCEPT !.at = "commit"]
           next == IF j.k > 1 THEN back ELSE again
<1>1. j.at = "retreat" /\ UnLock(w, f, next) /\ data' = data
  BY DEF Retreat, At
<1>2. j \in Jobs
  BY JobFacts
<1>3. next = back \/ next = again
  OBVIOUS
<1> HIDE DEF next
<1>4. CASE job' = job
  BY <1>1, <1>4, NoStep
<1>5. CASE OthersSame(w) /\ StoredIn(job'[w], next)
  <2>1. PICK s : job'[w] = [next EXCEPT !.store = s]
    BY <1>5 DEF StoredIn
  <2>2. job'[w].at \in {"retreat", "commit"} /\ job'[w].log = j.log /\ job'[w].seen = j.seen
    <3>1. CASE next = back
      BY <1>1, <1>2, <2>1, <3>1, SMT DEF Jobs
    <3>2. CASE next = again
      BY <1>2, <2>1, <3>2, SMT DEF Jobs
    <3> QED BY <1>3, <3>1, <3>2
  <2> QED BY <1>1, <1>5, <2>2, SkipStep
<1> QED BY <1>1, <1>4, <1>5, UnLockLeaves
-----------------------------------------------------------------------------
(* The actions of a script and its commit                                   *)

\* The records a script reads and changes are those its table had at first.
LEMMA RecordThere ==
  ASSUME KeptInv, NEW w \in Workers, job[w].at \in InAct
  PROVE  /\ Act(w).rec \in DOMAIN data[Table(w)] /\ Len(data[Table(w)]) \in Nat \ {0}
         /\ DOMAIN data[Table(w)] = 1 .. Len(data[Table(w)])
<1> DEFINE f == Table(w)
           r == Act(w).rec
           n == Len(data[f])
<1>1. f \in Files /\ r \in Nat \ {0} /\ r <= RecNum[f] /\ RecNum[f] <= n
  BY ActFacts DEF KeptInv, HeldInv
<1>2. RecNum[f] \in Nat \ {0} /\ n \in Nat /\ DOMAIN data[f] = 1 .. n
  BY <1>1, StoredShape DEF KeptInv
<1> HIDE DEF f, r, n
<1>3. r \in 1 .. n /\ n \in Nat \ {0}
  BY <1>1, <1>2, SMT
<1> QED BY <1>2, <1>3 DEF f, r, n

LEMMA ReadMaps ==
  ASSUME KeptInv, LocksInv, NEW w \in Workers, Read(w)
  PROVE  TransactionsStep
<1> DEFINE f == Table(w)
           r == Act(w).rec
           x == <<f, r, data[f][r]>>
           op == Act(w).op
           n == [job[w] EXCEPT !.at = op, !.seen = x]
<1>1. job[w].at = "act" /\ job' = [job EXCEPT ![w] = n] /\ data' = data /\ CanEnter(w, f)
  BY DEF Read, At, KeptInv, TypeOK
<1>2. job[w] \in Jobs /\ op \in {"calrec", "apprec"} /\ f \in Files /\ TypeOK
  BY <1>1, JobFacts, ActFacts DEF KeptInv, InAct
<1>3. r \in DOMAIN data[f]
  BY <1>1, RecordThere DEF InAct
<1>4. Writers(f, r) = {}
  BY <1>1, NobodyWrites
<1>5. Stored[f][r] = data[f][r] /\ r \in DOMAIN Stored[f]
  BY <1>2, <1>3, <1>4, StoredAt, StoredShape
<1>6. x = <<f, r, Stored[f][r]>>
  BY <1>5
<1> HIDE DEF x, op
<1>7. n.at = op /\ n.seen = x /\ n.log = job[w].log
  BY <1>2, SMT DEF Jobs
<1> HIDE DEF n
<1>8. job'[w] = n /\ OthersSame(w)
  BY <1>1, NextIs
<1>9. job[w].at # "write" /\ job'[w].at # "write"
  BY <1>1, <1>2, <1>7, <1>8
<1>10. Stored' = Stored
  BY <1>1, <1>8, <1>9, StoredSame
<1>11. Pending' = Pending
  <2>1. (PendingOf(w))' = PendingOf(w)
    BY <1>7, <1>8, <1>9 DEF PendingOf
  <2> QED BY <1>8, <2>1, PendingIs
<1>12. Seen' = [Seen EXCEPT ![w] = x]
  BY <1>7, <1>8, SeenIs
<1> HIDE DEF f, r
<1>13. T!View(w)
  BY <1>2, <1>5, <1>6, <1>10, <1>11, <1>12 DEF T!View
<1> QED BY <1>13 DEF TransactionsStep, T!Next

LEMMA ActFailsMaps ==
  ASSUME KeptInv, NEW w \in Workers, ActFails(w)
  PROVE  TransactionsStep
<1>1. job[w].at = "calrec" /\ data' = data /\ job' = [job EXCEPT ![w] = Failed(job[w])]
  BY DEF ActFails, At
<1>2. job'[w] = Failed(job[w]) /\ OthersSame(w) /\ job[w] \in Jobs
  BY <1>1, NextIs, JobFacts
<1> QED BY <1>1, <1>2, FailedMoves, DropStep

LEMMA CalRecLaterMaps ==
  ASSUME KeptInv, LocksInv, NEW w \in Workers, CalRecLater(w)
  PROVE  TransactionsStep
<1> DEFINE j == job[w]
           f == Table(w)
           i == LockOf(f, Act(w).rec)
           e == [file |-> f, rec |-> Act(w).rec, slot |-> i]
           log == Append(j.log, e)
           more == [j EXCEPT !.log = log]
<1>1. /\ j.at = "calrec" /\ data' = data
      /\ \/ job' = [job EXCEPT ![w] = Went(more)]
         \/ job' = [job EXCEPT ![w] = Failed(j)]
  BY DEF CalRecLater, At
<1>2. /\ TypeOK /\ j \in Jobs /\ f \in Files /\ j.log \in Seq(Entries)
      /\ Act(w).rec \in Nat \ {0}
  BY <1>1, JobFacts, ActFacts DEF KeptInv, InAct
<1>3. CASE job' = [job EXCEPT ![w] = Went(more)]
  <2>1. i \in Slots
    BY <1>2, LockOfSlot
  <2>2. Act(w).rec \in DOMAIN data[f]
    BY <1>1, RecordThere DEF InAct
  <2> HIDE DEF i
  <2>3. e \in Entries /\ e.file = f /\ e.rec = Act(w).rec
    BY <1>2, <2>1 DEF Entries
  <2> HIDE DEF e
  <2>4. log \in Seq(Entries) /\ Elements(log) = Elements(j.log) \cup {e}
    BY <1>2, <2>3, AppendSeq
  <2> HIDE DEF log
  <2>5. more \in Jobs
    BY <1>2, <2>4 DEF Jobs
  <2>6. more.log = log
    BY <1>2, SMT DEF Jobs
  <2> HIDE DEF more
  <2>7. Went(more).log = log /\ Went(more).seen = None /\ Went(more).at # "write"
    BY <2>5, <2>6, WentMoves
  <2>8. job'[w] = Went(more) /\ OthersSame(w)
    BY <1>3, NextIs
  <2> HIDE DEF f
  <2> QED BY <1>1, <1>2, <2>2, <2>3, <2>4, <2>7, <2>8, PrepareStep
<1>4. CASE job' = [job EXCEPT ![w] = Failed(j)]
  <2>1. job'[w] = Failed(j) /\ OthersSame(w)
    BY <1>4, NextIs
  <2> QED BY <1>1, <1>2, <2>1, FailedMoves, DropStep
<1> QED BY <1>1, <1>3, <1>4

LEMMA AppRecLockMaps ==
  ASSUME KeptInv, NEW w \in Workers, AppRecLock(w)
  PROVE  TransactionsStep
<1> DEFINE next == [job[w] EXCEPT !.at = "append"]
<1>1. job[w].at = "apprec" /\ Lock(w, Table(w), next) /\ data' = data /\ job[w] \in Jobs
  BY JobFacts DEF AppRecLock, At
<1>2. OthersSame(w) /\ StoredIn(job'[w], next)
  <2> HIDE DEF next
  <2> QED BY <1>1, LockLeaves
<1>3. PICK s : job'[w] = [next EXCEPT !.store = s]
  BY <1>2 DEF StoredIn
<1>4. job'[w].at = "append" /\ job'[w].log = job[w].log /\ job'[w].seen = job[w].seen
  BY <1>1, <1>3, SMT DEF Jobs
<1> QED BY <1>1, <1>2, <1>4, SkipStep

LEMMA CalRecNowMaps ==
  ASSUME KeptInv, KeptInv', LocksInv, NEW w \in Workers, CalRecNow(w)
  PROVE  TransactionsStep
<1> DEFINE f == Table(w)
           r == Act(w).rec
           n == job[w].no
           len == Len(data[f])
           d == [data[f] EXCEPT ![r] = n]
           m == IF r > len THEN r ELSE len
<1>1. /\ job[w].at = "calrec" /\ ~job[w].script.update /\ CanEnter(w, f)
      /\ job' = [job EXCEPT ![w] = Went(job[w])]
  BY DEF CalRecNow, At
<1>2. TypeOK /\ f \in Files /\ job[w] \in Jobs /\ Fit(job[w])
  BY <1>1, ActTable DEF InAct
<1>3. data' = [data EXCEPT ![f] = d]
  BY DEF CalRecNow, KeptInv, TypeOK
<1>4. /\ r \in DOMAIN data[f] /\ DOMAIN data[f] = 1 .. len /\ len \in Nat \ {0}
  BY <1>1, RecordThere DEF InAct
<1>5. n \in 1 .. MaxScripts
  <2>1. n # 0 /\ n \in 0 .. MaxScripts /\ MaxScripts \in Nat
    BY <1>1, <1>2, NowOK DEF Jobs
  <2> HIDE DEF n
  <2> QED BY <2>1, SMT
<1>6. DOMAIN d = 1 .. len /\ \A q \in 1 .. len : d[q] = IF q = r THEN n ELSE data[f][q]
  <2> HIDE DEF f, r, n, len
  <2> QED BY <1>4
<1> HIDE DEF d
<1>7. data'[f] = d /\ \A g \in Files \ {f} : data'[g] = data[g]
  <2> HIDE DEF f
  <2> QED BY <1>2, <1>3 DEF TypeOK
<1>8. m = len /\ r \in 1 .. len + 1
  <2> HIDE DEF f, r, len
  <2> QED BY <1>4, SMT
<1>9. /\ job'[w] = Went(job[w]) /\ OthersSame(w)
  BY <1>1, NextIs
<1>10. job'[w].log = job[w].log /\ job'[w].seen = None /\ job'[w].at # "write"
  BY <1>2, <1>9, WentMoves
<1>11. PendingOf(w) = {}
  <2>1. job[w].log = <<>>
    BY <1>1, <1>2 DEF Fit
  <2>2. Elements(<<>>) = {}
    BY SMT DEF Elements
  <2> QED BY <2>1, <2>2 DEF PendingOf
<1>12. DOMAIN data'[f] = 1 .. m /\ \A q \in 1 .. m : data'[f][q] = IF q = r THEN n ELSE data[f][q]
  BY <1>6, <1>7, <1>8
<1>13. m = IF r > Len(data[f]) THEN r ELSE Len(data[f])
  OBVIOUS
<1>14. r \in 1 .. Len(data[f]) + 1
  BY <1>8
<1> HIDE DEF f, r, n, len, m
<1>15. Written(f, r, n, m)
  BY <1>7, <1>12, <1>13 DEF Written
<1> QED BY <1>1, <1>2, <1>5, <1>9, <1>10, <1>11, <1>14, <1>15, WriteStep

LEMMA AppRecPutMaps ==
  ASSUME KeptInv, KeptInv', LocksInv, NEW w \in Workers, AppRecPut(w)
  PROVE  TransactionsStep
<1> DEFINE f == Table(w)
           n == job[w].no
           len == Len(data[f])
           r == len + 1
           d == Append(data[f], n)
           m == IF r > len THEN r ELSE len
           a == IF job[w].script.update THEN "unlock1" ELSE "unlock2"
           nj == [job[w] EXCEPT !.at = a, !.seen = None]
<1>1. /\ job[w].at = "append" /\ CanEnter(w, f) /\ job' = [job EXCEPT ![w] = nj]
      /\ data' = [data EXCEPT ![f] = d]
  BY DEF AppRecPut, At, KeptInv, TypeOK
<1>2. TypeOK /\ f \in Files /\ job[w] \in Jobs /\ Fit(job[w])
  BY <1>1, ActTable DEF InAct
<1>3. DOMAIN data[f] = 1 .. len /\ len \in Nat \ {0} /\ data[f] \in Seq(0 .. MaxScripts)
  BY <1>1, <1>2, RecordThere DEF InAct, TypeOK
<1>4. n \in 1 .. MaxScripts /\ n \in 0 .. MaxScripts
  <2>1. n # 0 /\ n \in 0 .. MaxScripts /\ MaxScripts \in Nat
    BY <1>1, <1>2, NowOK DEF Jobs
  <2> HIDE DEF n
  <2> QED BY <2>1, SMT
<1>5. /\ DOMAIN d = 1 .. r /\ d[r] = n /\ \A q \in 1 .. len : d[q] = data[f][q]
  <2> HIDE DEF f, n
  <2> QED BY <1>3, <1>4, AppendSeq
<1> HIDE DEF d
<1>6. data'[f] = d /\ \A g \in Files \ {f} : data'[g] = data[g]
  <2> HIDE DEF f
  <2> QED BY <1>1, <1>2 DEF TypeOK
<1>7. m = r /\ r \in 1 .. len + 1 /\ r \notin 1 .. len /\ \A q \in 1 .. r : q = r \/ q \in 1 .. len
  <2> HIDE DEF f, len
  <2> QED BY <1>3, SMT
<1>8. a \in {"unlock1", "unlock2"}
  OBVIOUS
<1> HIDE DEF a
<1>9. nj.at = a /\ nj.log = job[w].log /\ nj.seen = None
  BY <1>2, SMT DEF Jobs
<1> HIDE DEF nj
<1>10. job'[w] = nj /\ OthersSame(w)
  BY <1>1, NextIs
<1>11. DOMAIN data'[f] = 1 .. m /\ \A q \in 1 .. m : data'[f][q] = IF q = r THEN n ELSE data[f][q]
  BY <1>5, <1>6, <1>7
<1>12. Stored'[f] # Stored[f]
  <2>1. DOMAIN Stored[f] = 1 .. len
    BY <1>2, <1>3, StoredShape
  <2>2. DOMAIN Stored'[f] = 1 .. r
    BY <1>2, <1>7, <1>11 DEF Stored
  <2>3. r \in 1 .. r
    <3> HIDE DEF f, len
    <3> QED BY <1>3, SMT
  <2> QED BY <1>7, <2>1, <2>2, <2>3
<1>13. m = (IF r > Len(data[f]) THEN r ELSE Len(data[f])) /\ r \in 1 .. Len(data[f]) + 1
  BY <1>7
<1> HIDE DEF f, r, n, len, m
<1>14. Written(f, r, n, m)
  BY <1>6, <1>11, <1>13 DEF Written
<1> QED BY <1>1, <1>2, <1>4, <1>8, <1>9, <1>10, <1>12, <1>13, <1>14, WriteStep

LEMMA AppRecFailsMaps ==
  ASSUME KeptInv, LocksInv, NEW w \in Workers, AppRecFails(w)
  PROVE  TransactionsStep
<1> DEFINE j == job[w]
<1>1. data' = data /\ j.at = "append" /\ UnLock(w, Table(w), Failed(j))
  BY DEF AppRecFails, At
<1>2. TypeOK /\ j \in Jobs /\ Failed(j) \in Jobs
  BY <1>1, JobFacts, FailedFit DEF KeptInv, InAct
<1>3. CASE job' = job
  BY <1>1, <1>3, NoStep
<1>4. CASE Copy(job'[w], Failed(j)) /\ OthersSame(w)
  BY <1>1, <1>2, <1>4, FailedMoves, DropStep DEF Copy
<1> QED BY <1>1, <1>2, <1>3, <1>4, UnLockMoves DEF OthersSame

LEMMA AppRecUnLockMaps ==
  ASSUME KeptInv, LocksInv, NEW w \in Workers, AppRecUnLock(w)
  PROVE  TransactionsStep
<1> DEFINE j == job[w]
           f == Table(w)
           e == [file |-> f, rec |-> Len(data[f]), slot |-> None]
           log == Append(j.log, e)
           on == [j EXCEPT !.at = "unlock2", !.log = log]
<1>1. /\ data' = data
      /\ \/ j.at = "unlock1" /\ UnLock(w, f, on)
         \/ j.at = "unlock2" /\ UnLock(w, f, Went(j))
  BY DEF AppRecUnLock, At
<1>2. /\ TypeOK /\ j \in Jobs /\ Fit(j) /\ f \in Files /\ j.log \in Seq(Entries) /\ j.seen = None
  BY <1>1, ActTable, JobFacts, NowOK DEF InAct
<1>3. Len(data[f]) \in Nat \ {0} /\ DOMAIN data[f] = 1 .. Len(data[f])
  BY <1>1, RecordThere DEF InAct
<1>4. CASE job' = job
  BY <1>1, <1>4, NoStep
<1>5. CASE j.at = "unlock1" /\ OthersSame(w) /\ StoredIn(job'[w], on)
  <2>1. e \in Entries /\ e.file = f /\ e.rec = Len(data[f])
    BY <1>2, <1>3 DEF Entries
  <2>2. e.rec \in DOMAIN data[e.file]
    <3> HIDE DEF e, f
    <3>1. Len(data[f]) \in 1 .. Len(data[f])
      BY <1>3, SMT
    <3> QED BY <1>3, <2>1, <3>1
  <2> HIDE DEF e
  <2>3. Elements(log) = Elements(j.log) \cup {e}
    BY <1>2, <2>1, AppendSeq
  <2>4. PICK s : job'[w] = [on EXCEPT !.store = s]
    BY <1>5 DEF StoredIn
  <2> HIDE DEF log
  <2>5. job'[w].at = "unlock2" /\ job'[w].log = log /\ job'[w].seen = j.seen
    BY <1>2, <2>4, SMT DEF Jobs
  <2> HIDE DEF f
  <2> QED BY <1>1, <1>2, <1>5, <2>1, <2>2, <2>3, <2>5, PrepareStep
<1>6. CASE j.at = "unlock2" /\ UnLock(w, f, Went(j))
  <2>1. Went(j).at # "write" /\ Went(j).log = j.log /\ Went(j).seen = None /\ Went(j) \in Jobs
    BY <1>2, <1>6, WentMoves, WentFit DEF InAct
  <2>2. job' = job \/ (Copy(job'[w], Went(j)) /\ OthersSame(w))
    BY <1>2, <1>6, <2>1, UnLockMoves DEF OthersSame
  <2>3. CASE Copy(job'[w], Went(j)) /\ OthersSame(w)
    BY <1>1, <1>2, <1>6, <2>1, <2>3, SkipStep DEF Copy
  <2> QED BY <1>4, <2>2, <2>3
<1> HIDE DEF on
<1> QED BY <1>1, <1>4, <1>5, <1>6, UnLockLeaves

LEMMA TryLockMaps ==
  ASSUME KeptInv, LocksInv, NEW w \in Workers, TryLock(w)
  PROVE  TransactionsStep
<1> DEFINE j == job[w]
           taken == df[From(w)[j.k]].owner \notin {None, w}
           kept == j.kept \/ j.k > 1
           last == Len(j.handles)
           a == IF j.k = 1 THEN "commit" ELSE "retreat"
           k == IF j.k = 1 THEN 1 ELSE j.k - 1
           try == [j EXCEPT !.at = "enter", !.misread = taken]
           up == [j EXCEPT !.at = "free", !.k = last, !.log = <<>>, !.kept = kept]
           back == [j EXCEPT !.at = a, !.k = k, !.tries = @ - 1]
<1>1. /\ j.at = "commit" /\ data' = data
      /\ \/ job' = [job EXCEPT ![w] = try]
         \/ job' = [job EXCEPT ![w] = up]
         \/ job' = [job EXCEPT ![w] = back]
  BY DEF TryLock, At
<1>2. j \in Jobs /\ j.seen = None /\ a \in {"commit", "retreat"}
  BY <1>1, JobFacts, NowOK
<1> HIDE DEF taken, kept, last, a, k
<1>3. try.at = "enter" /\ try.log = j.log /\ try.seen = j.seen
  BY <1>2, SMT DEF Jobs
<1>4. up.at = "free" /\ up.log = <<>> /\ up.seen = j.seen
  BY <1>2, SMT DEF Jobs
<1>5. back.at = a /\ back.log = j.log /\ back.seen = j.seen
  BY <1>2, SMT DEF Jobs
<1> HIDE DEF try, up, back
<1>6. CASE job' = [job EXCEPT ![w] = try]
  BY <1>1, <1>3, <1>6, NextIs, SkipStep
<1>7. CASE job' = [job EXCEPT ![w] = up]
  BY <1>1, <1>2, <1>4, <1>7, NextIs, DropStep
<1>8. CASE job' = [job EXCEPT ![w] = back]
  BY <1>1, <1>2, <1>5, <1>8, NextIs, SkipStep
<1> QED BY <1>1, <1>6, <1>7, <1>8

LEMMA StoredKept ==
  ASSUME NEW f \in Files, NEW r \in DOMAIN data[f], r \in DOMAIN data'[f],
         data'[f][r] = data[f][r], (Writers(f, r))' = Writers(f, r),
         \A v \in Writers(f, r) : job'[v].no = job[v].no
  PROVE  Stored'[f][r] = Stored[f][r]
<1>1. Stored[f][r] = IF Writers(f, r) = {} THEN data[f][r]
                     ELSE job[CHOOSE v \in Writers(f, r) : TRUE].no
  BY DEF Stored
<1>2. Stored'[f][r] = IF (Writers(f, r))' = {} THEN data'[f][r]
                      ELSE job'[CHOOSE v \in (Writers(f, r))' : TRUE].no
  BY DEF Stored
<1>3. CASE Writers(f, r) = {}
  BY <1>1, <1>2, <1>3
<1>4. CASE Writers(f, r) # {}
  <2> DEFINE c == CHOOSE v \in Writers(f, r) : TRUE
  <2>1. c \in Writers(f, r)
    BY <1>4
  <2>2. Stored[f][r] = job[c].no /\ Stored'[f][r] = job'[c].no
    BY <1>1, <1>2, <1>4
  <2> HIDE DEF c
  <2> QED BY <2>1, <2>2
<1> QED BY <1>3, <1>4

\* The last table is locked: the whole log reaches the tables.
LEMMA CommitStep ==
  ASSUME KeptInv, KeptInv', LocksInv, LocksInv', NEW w \in Workers, OthersSame(w),
         data' = data, job[w].at # "write", job'[w].at = "write", job'[w].k = 1,
         job'[w].log = job[w].log, job'[w].seen = job[w].seen, job'[w].no = job[w].no,
         job[w].no # 0
  PROVE  TransactionsStep
<1> DEFINE n == job[w].no
           P == PendingOf(w)
<1>1. job[w] \in Jobs /\ DOMAIN job[w].log = 1 .. Len(job[w].log)
  BY JobFacts
<1>2. n \in 1 .. MaxScripts
  <2>1. n # 0 /\ n \in 0 .. MaxScripts /\ MaxScripts \in Nat
    BY <1>1 DEF Jobs
  <2> HIDE DEF n
  <2> QED BY <2>1, SMT
<1>3. (Late(w))' = P
  <2> DEFINE l == job[w].log
             D == DOMAIN l
  <2>1. (Late(w))' = {<<l[i].file, l[i].rec>> : i \in D}
    BY <1>1 DEF Late
  <2>2. P = {<<e.file, e.rec>> : e \in {l[i] : i \in D}}
    BY DEF PendingOf, Elements
  <2> HIDE DEF l, D, P
  <2> QED BY <2>1, <2>2
<1>4. Pending[w] = P /\ Pending' = [Pending EXCEPT ![w] = {}] /\ Seen' = Seen
  <2>1. (PendingOf(w))' = {}
    BY DEF PendingOf
  <2> QED BY <2>1, PendingIs, SeenSame
<1> HIDE DEF P
<1>5. ASSUME NEW f \in Files, NEW r \in DOMAIN data[f]
      PROVE  Stored'[f][r] = IF <<f, r>> \in P THEN n ELSE Stored[f][r]
  <2>1. \A v \in Workers \ {w} : job'[v] = job[v] /\ (Late(v))' = Late(v)
    BY DEF OthersSame, Late
  <2>2. CASE <<f, r>> \in P
    <3>1. w \in (Writers(f, r))'
      BY <1>3, <2>2 DEF Writers
    <3>2. Stored'[f][r] = job'[w].no
      BY <3>1, StoredNext DEF StoredRight
    <3> QED BY <2>2, <3>2
  <2>3. CASE <<f, r>> \notin P
    <3>1. (Writers(f, r))' = Writers(f, r) /\ \A v \in Writers(f, r) : job'[v].no = job[v].no
      BY <1>3, <2>1, <2>3 DEF Writers
    <3>2. Stored'[f][r] = Stored[f][r]
      BY <3>1, StoredKept
    <3> QED BY <2>3, <3>2
  <2> QED BY <2>2, <2>3
<1>6. Stored' = [f \in Files |-> [r \in DOMAIN Stored[f] |->
                   IF <<f, r>> \in P THEN n ELSE Stored[f][r]]]
  <2>1. \A f \in Files : DOMAIN Stored[f] = DOMAIN data[f]
    BY DEF Stored
  <2>2. \A f \in Files : Stored'[f] = [r \in DOMAIN data[f] |-> Stored'[f][r]]
    BY DEF Stored
  <2>3. Stored' = [f \in Files |-> Stored'[f]]
    BY DEF Stored
  <2>4. ASSUME NEW f \in Files
        PROVE  Stored'[f] = [r \in DOMAIN Stored[f] |->
                               IF <<f, r>> \in P THEN n ELSE Stored[f][r]]
    <3> HIDE DEF n
    <3> QED BY <1>5, <2>1, <2>2
  <2> HIDE DEF n
  <2> QED BY <2>3, <2>4
<1> HIDE DEF n
<1>7. T!Commit(w)
  BY <1>2, <1>4, <1>6 DEF T!Commit
<1> QED BY <1>7 DEF TransactionsStep, T!Next

LEMMA TryEnterMaps ==
  ASSUME KeptInv, KeptInv', LocksInv, LocksInv', NEW w \in Workers, TryEnter(w)
  PROVE  TransactionsStep
<1> DEFINE j == [job[w] EXCEPT !.misread = FALSE]
           f == From(w)[j.k]
           on == [j EXCEPT !.at = "commit", !.k = @ + 1]
           all == [j EXCEPT !.k = 1]
           next == IF j.k < Len(j.handles) THEN on ELSE Writing(all)
<1>1. job[w].at = "enter" /\ Lock(w, f, next) /\ data' = data
  BY DEF TryEnter, At
<1>2. job[w] \in Jobs /\ job[w].seen = None /\ job[w].no # 0
  BY <1>1, JobFacts, NowOK
<1>3. OthersSame(w) /\ StoredIn(job'[w], next)
  <2> HIDE DEF next, f
  <2> QED BY <1>1, LockLeaves
<1>4. PICK s : job'[w] = [next EXCEPT !.store = s]
  BY <1>3 DEF StoredIn
<1>5. next \in {on, Writing(all)}
  OBVIOUS
<1>6. j \in Jobs
  BY <1>2 DEF Jobs
<1>7. j.log = job[w].log /\ j.seen = job[w].seen /\ j.no = job[w].no
  BY <1>2, SMT DEF Jobs
<1> HIDE DEF next, j
<1>8. CASE next = on
  <2>1. job'[w].at = "commit" /\ job'[w].log = j.log /\ job'[w].seen = j.seen
    BY <1>4, <1>6, <1>8, SMT DEF Jobs
  <2> QED BY <1>1, <1>3, <1>7, <2>1, SkipStep
<1>9. CASE next = Writing(all)
  <2> DEFINE n == [all EXCEPT !.at = "write"]
             m == [all EXCEPT !.at = "unlock", !.k = 1, !.log = <<>>]
  <2>1. next \in {n, m}
    BY <1>9 DEF Writing
  <2>2. CASE next = n
    <3>1. /\ job'[w].at = "write" /\ job'[w].k = 1 /\ job'[w].log = j.log
          /\ job'[w].seen = j.seen /\ job'[w].no = j.no
      BY <1>4, <1>6, <2>2, SMT DEF Jobs
    <3> QED BY <1>1, <1>2, <1>3, <1>7, <3>1, CommitStep
  <2>3. CASE next = m
    <3>1. job'[w].at = "unlock" /\ job'[w].log = <<>> /\ job'[w].seen = j.seen
      BY <1>4, <1>6, <2>3, SMT DEF Jobs
    <3> QED BY <1>1, <1>2, <1>3, <1>7, <3>1, DropStep
  <2> QED BY <2>1, <2>2, <2>3
<1> QED BY <1>5, <1>8, <1>9

\* A record that was taken for written is written.
LEMMA WriteLogMaps ==
  ASSUME KeptInv, KeptInv', LocksInv, LocksInv', NEW w \in Workers, WriteLog(w)
  PROVE  TransactionsStep
<1> DEFINE j == job[w]
           e == j.log[j.k]
           n == j.no
           d == [data[e.file] EXCEPT ![e.rec] = n]
           more == [j EXCEPT !.k = @ + 1]
           len == Len(j.log)
           L(k) == {<<j.log[i].file, j.log[i].rec>> : i \in k .. len}
           x == <<e.file, e.rec>>
<1>1. /\ j.at = "write" /\ job' = [job EXCEPT ![w] = Writing(more)]
      /\ data' = [data EXCEPT ![e.file] = d]
  BY DEF WriteLog, At, KeptInv, TypeOK
<1>2. /\ TypeOK /\ j \in Jobs /\ Fit(j) /\ len \in Nat /\ j.k \in Nat /\ j.k + 1 \in Nat
      /\ DOMAIN j.log = 1 .. len
  <2>1. /\ TypeOK /\ j \in Jobs /\ Fit(j) /\ len \in Nat /\ j.k \in Nat
        /\ DOMAIN j.log = 1 .. len
    BY JobFacts
  <2> QED BY <2>1, SMT
<1>3. j.k \in 1 .. len /\ j.seen = None
  BY <1>1, <1>2, NowOK DEF Fit
<1>4. job'[w] = Writing(more) /\ OthersSame(w)
  BY <1>1, NextIs
<1>5. more \in Jobs /\ more.log = j.log /\ more.seen = j.seen /\ more.no = n /\ more.k = j.k + 1
  <2>1. more \in Jobs
    BY <1>2 DEF Jobs
  <2> QED BY <1>2, <2>1, SMT DEF Jobs
<1> HIDE DEF more
<1>6. /\ job'[w].seen = j.seen /\ job'[w].no = n
      /\ \/ job'[w].at = "write" /\ job'[w].k = j.k + 1 /\ job'[w].log = j.log
         \/ job'[w].at = "unlock" /\ job'[w].log = <<>> /\ ~(j.k + 1 <= len)
  BY <1>4, <1>5, WritingMoves DEF Alike
<1>7. L(j.k) = L(j.k + 1) \cup {x} /\ (~(j.k + 1 <= len) => L(j.k + 1) = {})
  <2> DEFINE k == j.k
             g(i) == <<j.log[i].file, j.log[i].rec>>
  <2>1. k \in Nat /\ k \in 1 .. len /\ len \in Nat
    BY <1>2, <1>3
  <2>2. L(k) = {g(i) : i \in k .. len} /\ L(k + 1) = {g(i) : i \in k + 1 .. len} /\ x = g(k)
    OBVIOUS
  <2> HIDE DEF g, k, len, L, x
  <2>3. k .. len = (k + 1 .. len) \cup {k} /\ (~(k + 1 <= len) => k + 1 .. len = {})
    BY <2>1, SMT
  <2>4. L(k) = L(k + 1) \cup {x}
    BY <2>2, <2>3
  <2>5. ~(k + 1 <= len) => L(k + 1) = {}
    BY <2>2, <2>3
  <2> QED BY <2>4, <2>5 DEF k
<1>8. Late(w) = L(j.k)
  BY DEF Late
<1>9. job'[w].at = "write" => (Late(w))' = L(j.k + 1)
  BY <1>6 DEF Late
<1> HIDE DEF L, len
<1>10. \A v \in Workers \ {w} : job'[v] = job[v] /\ (Late(v))' = Late(v)
  BY <1>4 DEF OthersSame, Late
<1>11. ASSUME NEW f \in Files, NEW r \in DOMAIN data[f]
       PROVE  DOMAIN data'[f] = DOMAIN data[f] /\ Stored'[f][r] = Stored[f][r]
  <2>1. DOMAIN data'[f] = DOMAIN data[f]
    <3>1. DOMAIN d = DOMAIN data[e.file]
      OBVIOUS
    <3> HIDE DEF d, e
    <3> QED BY <1>1, <1>2, <3>1 DEF TypeOK
  <2>2. CASE <<f, r>> = x
    <3>1. w \in Writers(f, r)
      BY <1>1, <1>7, <1>8, <2>2 DEF Writers
    <3>2. Stored[f][r] = n /\ \A v \in Writers(f, r) : v = w
      BY <3>1, StoredAt, WriterOwns
    <3>3. data'[f][r] = n
      <4>1. f = e.file /\ r = e.rec
        BY <2>2
      <4>2. d[r] = n
        BY <4>1
      <4> HIDE DEF d, e
      <4> QED BY <1>1, <1>2, <4>1, <4>2 DEF TypeOK
    <3>4. CASE w \in (Writers(f, r))'
      <4>1. Stored'[f][r] = job'[w].no
        BY <2>1, <3>4, StoredNext DEF StoredRight
      <4>2. job'[w].no = n
        BY <1>6
      <4>3. Stored[f][r] = n
        BY <3>2
      <4> HIDE DEF n, d, e, x
      <4> QED BY <2>1, <4>1, <4>2, <4>3
    <3>5. CASE w \notin (Writers(f, r))'
      <4>1. (Writers(f, r))' = {}
        BY <1>10, <3>2, <3>5 DEF Writers
      <4>2. Stored'[f][r] = data'[f][r]
        BY <2>1, <4>1, StoredNext DEF StoredRight
      <4>3. Stored[f][r] = n
        BY <3>2
      <4> HIDE DEF n, d, e, x
      <4> QED BY <2>1, <3>3, <4>2, <4>3
    <3> QED BY <3>4, <3>5
  <2>3. CASE <<f, r>> # x
    <3>1. data'[f][r] = data[f][r]
      <4>1. f # e.file \/ r # e.rec
        BY <2>3
      <4>2. CASE f # e.file
        <5> HIDE DEF d, e
        <5> QED BY <1>1, <1>2, <4>2 DEF TypeOK
      <4>3. CASE f = e.file /\ r # e.rec
        <5>1. d[r] = data[f][r]
          BY <4>3
        <5> HIDE DEF d, e
        <5> QED BY <1>1, <1>2, <4>3, <5>1 DEF TypeOK
      <4> QED BY <4>1, <4>2, <4>3
    <3>2. w \in Writers(f, r) <=> w \in (Writers(f, r))'
      <4> HIDE DEF x, e, d
      <4>1. w \in Writers(f, r) <=> <<f, r>> \in L(j.k + 1)
        BY <1>1, <1>7, <1>8, <2>3 DEF Writers
      <4>2. CASE job'[w].at = "write"
        BY <1>9, <4>1, <4>2 DEF Writers
      <4>3. CASE job'[w].at = "unlock" /\ ~(j.k + 1 <= len)
        BY <1>7, <4>1, <4>3 DEF Writers
      <4> QED BY <1>6, <4>2, <4>3
    <3>3. (Writers(f, r))' = Writers(f, r)
      <4> DEFINE A == Writers(f, r)
                 B == (Writers(f, r))'
      <4>1. \A v \in Workers \ {w} : v \in A <=> v \in B
        BY <1>10 DEF Writers
      <4>2. A \subseteq Workers /\ B \subseteq Workers
        BY DEF Writers
      <4>3. w \in A <=> w \in B
        BY <3>2
      <4> HIDE DEF A, B
      <4>4. \A v : v \in A <=> v \in B
        BY <4>1, <4>2, <4>3
      <4>5. A = B
        BY <4>4
      <4> QED BY <4>5 DEF A, B
    <3>4. \A v \in Writers(f, r) : job'[v].no = job[v].no
      BY <1>6, <1>10 DEF Writers
    <3> QED BY <2>1, <3>1, <3>3, <3>4, StoredKept
  <2> QED BY <2>1, <2>2, <2>3
<1>12. Stored' = Stored
  <2>1. \A f \in Files : Stored[f] = [r \in DOMAIN data[f] |-> Stored[f][r]]
    BY DEF Stored
  <2>2. \A f \in Files : Stored'[f] = [r \in DOMAIN data'[f] |-> Stored'[f][r]]
    BY DEF Stored
  <2>3. \A f \in Files : DOMAIN data'[f] = DOMAIN data[f]
    <3>1. DOMAIN d = DOMAIN data[e.file]
      OBVIOUS
    <3> HIDE DEF d, e
    <3> QED BY <1>1, <1>2, <3>1 DEF TypeOK
  <2>4. \A f \in Files : Stored'[f] = Stored[f]
    BY <1>11, <2>1, <2>2, <2>3
  <2>5. Stored = [f \in Files |-> Stored[f]] /\ Stored' = [f \in Files |-> Stored'[f]]
    BY DEF Stored
  <2> QED BY <2>4, <2>5
<1>13. Pending' = Pending
  <2>1. PendingOf(w) = {}
    BY <1>1 DEF PendingOf
  <2>2. (PendingOf(w))' = {}
    <3>1. Elements(<<>>) = {}
      BY SMT DEF Elements
    <3> QED BY <1>6, <3>1 DEF PendingOf
  <2> QED BY <1>4, <2>1, <2>2, PendingIs
<1>14. Seen' = Seen
  BY <1>4, <1>6, SeenSame
<1> QED BY <1>12, <1>13, <1>14 DEF TransactionsStep

LEMMA LandMaps ==
  ASSUME KeptInv, NEW w \in Workers, Land(w)
  PROVE  TransactionsStep
<1> DEFINE n == [job[w] EXCEPT !.store = None]
<1>1. data' = data /\ job' = [job EXCEPT ![w] = n]
  BY DEF Land, KeptInv, TypeOK
<1>2. Copy(n, job[w])
  <2>1. job[w] \in Jobs
    BY JobFacts
  <2> QED BY <2>1, StoreMoves
<1> HIDE DEF n
<1>3. OthersSame(w) /\ Copy(job'[w], job[w])
  BY <1>1, <1>2, NextIs
<1>4. CASE job[w].at # "write"
  BY <1>1, <1>3, <1>4, SkipStep DEF Copy
<1>5. CASE job[w].at = "write"
  <2>1. ASSUME NEW v \in Workers
        PROVE  /\ job'[v].at = job[v].at /\ job'[v].no = job[v].no
               /\ job'[v].seen = job[v].seen /\ (Late(v))' = Late(v)
               /\ (PendingOf(v))' = PendingOf(v)
    <3>1. /\ job'[v].at = job[v].at /\ job'[v].no = job[v].no /\ job'[v].k = job[v].k
          /\ job'[v].seen = job[v].seen /\ job'[v].log = job[v].log
      BY <1>3 DEF OthersSame, Copy
    <3>2. (Late(v))' = Late(v)
      BY <3>1 DEF Late
    <3>3. (PendingOf(v))' = PendingOf(v)
      BY <3>1 DEF PendingOf
    <3> QED BY <3>1, <3>2, <3>3
  <2>2. ASSUME NEW f, NEW r
        PROVE  /\ (Writers(f, r))' = Writers(f, r)
               /\ \A v \in Writers(f, r) : job'[v].no = job[v].no
    BY <2>1 DEF Writers
  <2>3. \A f \in Files : \A r \in DOMAIN data[f] : Stored'[f][r] = Stored[f][r]
    BY <1>1, <2>2, StoredKept
  <2>4. Stored' = Stored
    <3>1. \A f \in Files : Stored[f] = [r \in DOMAIN data[f] |-> Stored[f][r]]
      BY DEF Stored
    <3>2. \A f \in Files : Stored'[f] = [r \in DOMAIN data[f] |-> Stored'[f][r]]
      BY <1>1 DEF Stored
    <3>3. \A f \in Files : Stored'[f] = Stored[f]
      BY <2>3, <3>1, <3>2
    <3>4. Stored = [f \in Files |-> Stored[f]] /\ Stored' = [f \in Files |-> Stored'[f]]
      BY DEF Stored
    <3> QED BY <3>3, <3>4
  <2>5. Seen' = Seen
    BY <2>1 DEF Seen
  <2>6. Pending' = Pending
    BY <1>3, <2>1, PendingIs
  <2> QED BY <2>4, <2>5, <2>6 DEF TransactionsStep
<1> QED BY <1>4, <1>5

LEMMA StepMaps ==
  ASSUME TablesInv, TablesInv', [Next]_vars
  PROVE  TransactionsStep
<1>0. KeptInv /\ KeptInv' /\ LocksInv /\ LocksInv'
  BY DEF TablesInv, LocksInv
<1>1. CASE UNCHANGED vars
  <2>1. job' = job /\ data' = data
    BY <1>1 DEF vars
  <2> QED BY <2>1, NoStep
<1>2. ASSUME NEW w \in Workers, Begin(w) \/ Land(w) \/ Step(w)
      PROVE  TransactionsStep
  <2>1. CASE Begin(w) \/ Land(w)
    BY <1>0, <2>1, BeginMaps, LandMaps
  <2>2. CASE AwakeFrom(w)
    BY <1>0, <2>2, AwakeFromMaps
  <2>3. CASE LockFrom(w)
    BY <1>0, <2>3, LockFromMaps
  <2>4. CASE Read(w)
    BY <1>0, <2>4, ReadMaps
  <2>5. CASE CalRecLater(w)
    BY <1>0, <2>5, CalRecLaterMaps
  <2>6. CASE CalRecNow(w)
    BY <1>0, <2>6, CalRecNowMaps
  <2>7. CASE ActFails(w)
    BY <1>0, <2>7, ActFailsMaps
  <2>8. CASE AppRecLock(w)
    BY <1>0, <2>8, AppRecLockMaps
  <2>9. CASE AppRecPut(w)
    BY <1>0, <2>9, AppRecPutMaps
  <2>10. CASE AppRecUnLock(w)
    BY <1>0, <2>10, AppRecUnLockMaps
  <2>11. CASE TryLock(w)
    BY <1>0, <2>11, TryLockMaps
  <2>12. CASE TryEnter(w)
    BY <1>0, <2>12, TryEnterMaps
  <2>13. CASE Retreat(w)
    BY <1>0, <2>13, RetreatMaps
  <2>14. CASE WriteLog(w)
    BY <1>0, <2>14, WriteLogMaps
  <2>15. CASE UnLockAll(w)
    BY <1>0, <2>15, UnLockAllMaps
  <2>16. CASE FreeRecLock(w)
    BY <1>0, <2>16, FreeRecLockMaps
  <2>17. CASE CloseTarget(w) \/ CloseFrom(w) \/ Sleep(w) \/ Flush(w)
    BY <1>0, <2>17, ClosesMap
  <2>18. CASE AppRecFails(w)
    BY <1>0, <2>18, AppRecFailsMaps
  <2> QED
    BY <1>2, <2>1, <2>2, <2>3, <2>4, <2>5, <2>6, <2>7, <2>8, <2>9, <2>10, <2>11, <2>12,
       <2>13, <2>14, <2>15, <2>16, <2>17, <2>18 DEF Step
<1> QED BY <1>1, <1>2 DEF Next

\* No table is written to, and no log is kept, before the first script.
LEMMA InitMaps ==
  ASSUME Init
  PROVE  T!Init
<1>1. \A w \in Workers : job[w].at = "idle" /\ job[w].log = <<>> /\ job[w].seen = None
  <2>1. \A w \in Workers : job[w] = Idle(FALSE)
    BY DEF Init
  <2> QED BY <2>1, IdleMoves
<1>2. \A f, r : Writers(f, r) = {}
  BY <1>1 DEF Writers
<1>3. data = [f \in Files |-> [r \in 1 .. RecNum[f] |-> 0]]
  BY DEF Init
<1>4. Stored = [f \in Files |-> [r \in DOMAIN data[f] |-> data[f][r]]]
  BY <1>2 DEF Stored
<1>5. Stored = [f \in Files |-> [r \in 1 .. RecNum[f] |-> 0]]
  BY <1>3, <1>4
<1>6. Seen = [w \in Workers |-> None]
  BY <1>1 DEF Seen
<1>7. Pending = [w \in Workers |-> {}]
  <2>1. Elements(<<>>) = {}
    BY SMT DEF Elements
  <2>2. \A w \in Workers : PendingOf(w) = {}
    BY <1>1, <2>1 DEF PendingOf
  <2>3. Pending = [w \in Workers |-> PendingOf(w)]
    BY DEF Pending, PendingOf
  <2> QED BY <2>2, <2>3
<1> QED BY <1>5, <1>6, <1>7 DEF T!Init

(* The tables behave like those of Transactions: a commit writes its whole  *)
(* log at once or not at all, nobody reads a table between two records of   *)
(* it, and nobody changes a record in any other way than by a commit, a     *)
(* direct write or an append.                                               *)
THEOREM TablesImplementTransactions == Spec => ImplementsTransactions
<1>1. Init => T!Init
  BY InitMaps
<1>2. TablesInv /\ TablesInv' /\ [Next]_vars => [T!Next]_<<Stored, Pending, Seen>>
  <2> SUFFICES ASSUME TablesInv, TablesInv', [Next]_vars
               PROVE  [T!Next]_<<Stored, Pending, Seen>>
    OBVIOUS
  <2>1. TransactionsStep
    BY StepMaps
  <2> QED BY <2>1 DEF TransactionsStep
<1> QED BY <1>1, <1>2, TablesCorrect, PTL DEF Spec, ImplementsTransactions, T!Spec
=============================================================================
