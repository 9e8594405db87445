--------------------------- MODULE AsqlPoolProofs ---------------------------
(***************************************************************************)
(* As long as no worker was late or is replaced and the pool is not        *)
(* stopped, for any number of callers and workers: each entry has one      *)
(* owner until its task has ended, the units of the semaphore match the    *)
(* idle entries, the end that a thread is told of is the end of its own    *)
(* task, and the pool blocks only where it waits for clients or scripts.   *)
(***************************************************************************)
EXTENDS AsqlPool, FiniteSetTheorems, WellFoundedInduction, TLAPS

(* No entry is written but by wmtAskQS and its worker.                      *)
Calm ==
  /\ idler.pc = "off"
  /\ \A i \in Workers :
       /\ queue[i]
       /\ it[i] \in {"idle", "top", "inner"}
       /\ worker[i].pc \in {"loop", "run", "reply", "end", "free", "release", "wait"}

(* The task of t is with its entry, and not ended yet.                      *)
Waiting(t) == AskerAt(t, "await") /\ ends[t] = <<>>
Holding(t) == Filling(t) \/ Waiting(t)

(* How far the worker of entry i has come with the task of t.               *)
Pending(t, i) ==
  /\ file[i] = asker[t].task /\ begun[t] = 0
  /\ \/ starts[i] = 1 /\ worker[i].pc \in {"release", "wait"}
     \/ starts[i] = 0 /\ WorkerAt(i, "loop")

UnderWay(t, i) ==
  /\ starts[i] = 0 /\ begun[t] = 1 /\ worker[i].task = asker[t].task
  /\ \/ WorkerAt(i, "run")
     \/ WorkerAt(i, "reply") /\ file[i] = None
     \/ WorkerAt(i, "end") /\ file[i] = None /\ (t \in Callers => answered[t])

Entry(i) ==
  /\ it[i] = "idle" =>
       starts[i] = 0 /\ file[i] = None /\ worker[i].pc \in {"release", "wait"}
  /\ WorkerAt(i, "free") => starts[i] = 0 /\ file[i] = None
  /\ worker[i].pc \in {"loop", "run", "reply", "end"} \/ starts[i] > 0 =>
       caller[i] \in Threads /\ Waiting(caller[i]) /\ asker[caller[i]].at = i

(* Before it has an entry.                                                  *)
Seeking(t) ==
  /\ asker[t].pc \in {"acquire", "enter"} => asker[t].at = 0
  /\ asker[t].pc \in {"scan", "claim"} => lock = t
  /\ AskerAt(t, "scan") => \E i \in Workers : asker[t].at <= i /\ it[i] = "idle"
  /\ AskerAt(t, "claim") => asker[t].at \in Workers /\ it[asker[t].at] = "idle"
  /\ asker[t].pc \in {"acquire", "enter", "scan", "claim"} => begun[t] = 0

(* While it has one.                                                        *)
Owning(t) ==
  LET i == asker[t].at
  IN  /\ Holding(t) => i \in Workers /\ it[i] = Kind(t)
      /\ Filling(t) => starts[i] = 0 /\ worker[i].pc \in {"release", "wait"} /\ begun[t] = 0
      /\ asker[t].pc \in {"fill", "publish"} => file[i] = None
      /\ asker[t].pc \in {"publish", "post"} \/ Waiting(t) => caller[i] = t
      /\ AskerAt(t, "post") => file[i] = asker[t].task
      /\ Waiting(t) => Pending(t, i) \/ UnderWay(t, i)

(* What t is told.                                                          *)
Told(t) ==
  /\ ~AskerAt(t, "out") => asker[t].task # None /\ asker[t].task.by = t
  /\ ~AskerAt(t, "await") => ends[t] = <<>>
  /\ begun[t] <= 1
  /\ ends[t] # <<>> => /\ ends[t] = <<asker[t].task>>
                       /\ begun[t] = 1
                       /\ t \in Callers => answered[t]

Alone(t, u) == Holding(t) /\ Holding(u) /\ asker[t].at = asker[u].at => t = u

Orderly ==
  /\ TypeOK /\ Calm /\ UnitsCounted
  /\ \A i \in Workers : Entry(i)
  /\ \A t \in Threads : Seeking(t) /\ Owning(t) /\ Told(t)
  /\ \A t, u \in Threads : Alone(t, u)

(* A worker that was late or replaced, or a pool being stopped, stays so.   *)
PoolInv == kills \in Nat /\ (Disturbed \/ Orderly)
-----------------------------------------------------------------------------
(* What the steps have in common.                                           *)

Asking  == [pc : AskerPcs, at : 0 .. N, task : Tasks \cup {None}]
Working == [pc : WorkerPcs, task : Tasks \cup {None}, nested : BOOLEAN]

(* The thread t goes on, the others stay.                                   *)
LEMMA AskerMoves ==
  ASSUME asker \in [Threads -> Asking], NEW t \in Threads, NEW p \in AskerPcs, AskerTo(t, p)
  PROVE  /\ asker' \in [Threads -> Asking]
         /\ asker'[t].pc = p /\ asker'[t].at = asker[t].at /\ asker'[t].task = asker[t].task
         /\ \A u \in Threads \ {t} : asker'[u] = asker[u]
<1>. DEFINE r == [asker[t] EXCEPT !.pc = p]
<1>1. asker' = [asker EXCEPT ![t] = r]
  BY Zenon DEF AskerTo
<1>2. r \in Asking /\ r.pc = p /\ r.at = asker[t].at /\ r.task = asker[t].task
  BY SMT DEF Asking
<1>. HIDE DEF r
<1>. QED
  BY <1>1, <1>2, SMT

LEMMA WorkerMoves ==
  ASSUME worker \in [Workers -> Working], NEW i \in Workers, NEW p \in WorkerPcs, WorkerTo(i, p)
  PROVE  /\ worker' \in [Workers -> Working]
         /\ worker'[i].pc = p /\ worker'[i].task = worker[i].task
         /\ \A j \in Workers \ {i} : worker'[j] = worker[j]
<1>. DEFINE r == [worker[i] EXCEPT !.pc = p]
<1>1. worker' = [worker EXCEPT ![i] = r]
  BY Zenon DEF WorkerTo
<1>2. r \in Working /\ r.pc = p /\ r.task = worker[i].task
  BY SMT DEF Working
<1>. HIDE DEF r
<1>. QED
  BY <1>1, <1>2, SMT

ThreadSame(u) == /\ asker'[u] = asker[u] /\ ends'[u] = ends[u]
                 /\ begun'[u] = begun[u] /\ answered'[u] = answered[u]

EntrySame(i) == /\ it'[i] = it[i] /\ caller'[i] = caller[i] /\ file'[i] = file[i]
                /\ starts'[i] = starts[i]
                /\ worker'[i].pc = worker[i].pc /\ worker'[i].task = worker[i].task

(* What the others are told, and own, stays.                                *)
LEMMA TellingKept ==
  ASSUME NEW u \in Threads, ThreadSame(u), Told(u)
  PROVE  Told(u)' /\ (Holding(u)' <=> Holding(u)) /\ (Waiting(u)' <=> Waiting(u))
  BY SMT DEF ThreadSame, Told, Holding, Waiting, Filling, AskerAt

LEMMA OwningKept ==
  ASSUME NEW u \in Threads, ThreadSame(u), Owning(u), Holding(u) => EntrySame(asker[u].at)
  PROVE  Owning(u)'
  BY SMT DEF ThreadSame, EntrySame, Owning, Holding, Waiting, Filling, AskerAt, Kind,
             Pending, UnderWay, WorkerAt

(* A step changes only what stands at entry i, if anything, and thread t.   *)
LEMMA EntryKept ==
  ASSUME NEW i \in Workers, Entry(i), EntrySame(i),
         \A u \in Threads : Waiting(u) /\ asker[u].at = i => Waiting(u)' /\ asker'[u].at = i
  PROVE  Entry(i)'
  BY SMT DEF Entry, EntrySame, WorkerAt

(* A scan goes on while entries become idle and no other thread enters.     *)
LEMMA SeekingKept ==
  ASSUME NEW u \in Threads, Seeking(u), ThreadSame(u),
         asker[u].pc \in {"scan", "claim"} =>
            lock' = lock /\ \A i \in Workers : it[i] = "idle" => it'[i] = "idle"
  PROVE  Seeking(u)'
  BY SMT DEF Seeking, ThreadSame, AskerAt

(* Nobody comes to an entry.                                                *)
LEMMA AloneKept ==
  ASSUME \A t, u \in Threads : Alone(t, u),
         \A u \in Threads : Holding(u)' => Holding(u) /\ asker'[u].at = asker[u].at
  PROVE  \A t, u \in Threads : Alone(t, u)'
  BY SMT DEF Alone

(* How the units are spread.                                                *)
Held == {t \in Threads : asker[t].pc \in {"enter", "scan", "claim"}}
Releasing == {i \in Workers : WorkerAt(i, "release")}

Counted == sem + Cardinality(Held) + Cardinality(Releasing) = Cardinality(Idle)

LEMMA CountedEnough ==
  ASSUME PoolAssumption, Counted', \A t \in Threads : Seeking(t)'
  PROVE  UnitsCounted'
<1>1. \A t \in Threads : ~(asker'[t].pc = "scan" /\ asker'[t].at = N)
  <2>. SUFFICES ASSUME NEW t \in Threads, asker'[t].pc = "scan", asker'[t].at = N
                PROVE  FALSE
    OBVIOUS
  <2>1. PICK i \in Workers : asker'[t].at <= i
    BY DEF Seeking, AskerAt
  <2>. QED
    BY <2>1, SMT DEF Workers, PoolAssumption
<1>. QED
  BY <1>1, Zenon DEF Counted, Held, Releasing, UnitsCounted, AskerAt

(* A step of wmtAskQS by thread t, at most at its own entry.                *)
LEMMA AskStep ==
  ASSUME PoolAssumption, Orderly, NEW t \in Threads, ~Waiting(t),
         TypeOK', Calm', Counted',
         \A u \in Threads \ {t} :
            /\ ThreadSame(u)
            /\ Holding(u) => EntrySame(asker[u].at) /\ (Holding(t)' => asker'[t].at # asker[u].at)
            /\ asker[u].pc \in {"scan", "claim"} =>
                  lock' = lock /\ \A i \in Workers : it[i] = "idle" => it'[i] = "idle",
         \A i \in Workers : EntrySame(i) \/ Entry(i)',
         Seeking(t)', Owning(t)', Told(t)'
  PROVE  Orderly'
<1>1. \A u \in Threads \ {t} : Seeking(u)' /\ Owning(u)' /\ Told(u)'
                               /\ (Holding(u)' <=> Holding(u)) /\ (Waiting(u)' <=> Waiting(u))
  BY TellingKept, OwningKept, SeekingKept DEF Orderly
<1>2. \A i \in Workers : Entry(i)'
  <2>. SUFFICES ASSUME NEW i \in Workers, EntrySame(i) PROVE Entry(i)'
    OBVIOUS
  <2>1. \A u \in Threads : Waiting(u) /\ asker[u].at = i => Waiting(u)' /\ asker'[u].at = i
    BY <1>1 DEF ThreadSame
  <2>. QED
    BY <2>1, EntryKept DEF Orderly
<1>3. \A u, w \in Threads : Alone(u, w)'
  <2>. SUFFICES ASSUME NEW u \in Threads, NEW w \in Threads, Holding(u)', Holding(w)',
                       asker'[u].at = asker'[w].at, u # w
                PROVE  FALSE
    BY DEF Alone
  <2>1. CASE u # t /\ w # t
    BY <1>1, <2>1 DEF Orderly, Alone, ThreadSame
  <2>2. CASE u = t
    BY <1>1, <2>2 DEF ThreadSame
  <2>3. CASE w = t
    BY <1>1, <2>3 DEF ThreadSame
  <2>. QED
    BY <2>1, <2>2, <2>3
<1>4. \A u \in Threads : Seeking(u)' /\ Owning(u)' /\ Told(u)'
  BY <1>1
<1>5. UnitsCounted'
  BY <1>4, CountedEnough
<1>. QED
  BY <1>2, <1>3, <1>4, <1>5 DEF Orderly

(* ... that touches no entry.                                               *)
LEMMA SearchStep ==
  ASSUME PoolAssumption, Orderly, NEW t \in Threads, ~Waiting(t), ~Holding(t)',
         TypeOK', Calm', Counted',
         \A u \in Threads \ {t} :
            ThreadSame(u) /\ (asker[u].pc \in {"scan", "claim"} => lock' = lock),
         \A i \in Workers : EntrySame(i),
         Seeking(t)', Told(t)'
  PROVE  Orderly'
<1>1. Owning(t)'
  BY SMT DEF Owning, Holding, Filling, AskerAt
<1>2. \A u \in Threads \ {t} : Holding(u) => EntrySame(asker[u].at)
  BY DEF Orderly, Owning
<1>3. \A i \in Workers : it[i] = "idle" => it'[i] = "idle"
  BY DEF EntrySame
<1>. QED
  BY <1>1, <1>2, <1>3, AskStep

(* A step of the worker of entry i, on behalf of the thread that owns it.   *)
LEMMA WorkStep ==
  ASSUME PoolAssumption, Orderly, NEW i \in Workers,
         TypeOK', Calm', Counted', Entry(i)', asker' = asker, lock' = lock,
         \A j \in Workers : it[j] = "idle" => it'[j] = "idle",
         \A j \in Workers \ {i} : EntrySame(j),
         \A u \in Threads :
            IF Holding(u) /\ asker[u].at = i
            THEN Owning(u)' /\ Told(u)'
            ELSE ThreadSame(u)
  PROVE  Orderly'
<1>1. \A u \in Threads : Owning(u)' /\ Told(u)' /\ (Holding(u)' => Holding(u))
  <2>. SUFFICES ASSUME NEW u \in Threads
                PROVE  Owning(u)' /\ Told(u)' /\ (Holding(u)' => Holding(u))
    OBVIOUS
  <2>1. CASE Holding(u) /\ asker[u].at = i
    BY <2>1
  <2>2. CASE ~(Holding(u) /\ asker[u].at = i)
    <3>1. Holding(u) => asker[u].at \in Workers
      BY DEF Orderly, Owning
    <3>. QED
      BY <2>2, <3>1, TellingKept, OwningKept DEF Orderly
  <2>. QED
    BY <2>1, <2>2
<1>2. \A u \in Threads : Seeking(u)'
  <2>. SUFFICES ASSUME NEW u \in Threads PROVE Seeking(u)'
    OBVIOUS
  <2>1. CASE Holding(u)
    BY <2>1, SMT DEF Holding, Filling, Waiting, AskerAt, Seeking
  <2>2. CASE ~Holding(u)
    BY <2>2, SeekingKept DEF Orderly
  <2>. QED
    BY <2>1, <2>2
<1>3. \A j \in Workers : Entry(j)'
  <2>. SUFFICES ASSUME NEW j \in Workers, j # i PROVE Entry(j)'
    OBVIOUS
  <2>1. \A u \in Threads : Waiting(u) /\ asker[u].at = j => Waiting(u)' /\ asker'[u].at = j
    BY TellingKept DEF Orderly, Holding
  <2>. QED
    BY <2>1, EntryKept DEF Orderly
<1>4. \A u, w \in Threads : Alone(u, w)'
  BY <1>1, AloneKept DEF Orderly
<1>5. UnitsCounted'
  BY <1>2, CountedEnough
<1>. QED
  BY <1>1, <1>2, <1>3, <1>4, <1>5 DEF Orderly

(* Types, and the sets that are counted.                                    *)
LEMMA Basics ==
  ASSUME PoolAssumption, Orderly
  PROVE  /\ asker \in [Threads -> Asking] /\ worker \in [Workers -> Working]
         /\ sem \in 0 .. N /\ N \in Nat
         /\ IsFiniteSet(Threads) /\ IsFiniteSet(Workers) /\ Cardinality(Workers) = N
         /\ IsFiniteSet(Held) /\ IsFiniteSet(Releasing) /\ IsFiniteSet(Idle)
         /\ Cardinality(Held) \in Nat /\ Cardinality(Releasing) \in Nat
         /\ Cardinality(Idle) \in Nat /\ Cardinality(Idle) <= N
         /\ Counted
         /\ Callers \cap Workers = {} /\ None \notin Threads
<1>1. TypeOK /\ UnitsCounted /\ N \in Nat \ {0} /\ IsFiniteSet(Callers) /\ Callers \cap Int = {}
  BY DEF Orderly, PoolAssumption
<1>2. asker \in [Threads -> Asking] /\ worker \in [Workers -> Working] /\ sem \in 0 .. N
  BY <1>1, Zenon DEF TypeOK, Asking, Working
<1>3. IsFiniteSet(Workers) /\ Cardinality(Workers) = N
  <2>1. N - 1 \in Int /\ 0 \in Int /\ ~(0 > N - 1) /\ (N - 1) - 0 + 1 = N
    BY <1>1, SMT
  <2>. QED
    BY <2>1, FS_Interval, Zenon DEF Workers
<1>4. IsFiniteSet(Threads)
  BY <1>1, <1>3, FS_Union, Zenon DEF Threads
<1>5. Held \in SUBSET Threads /\ Releasing \in SUBSET Workers /\ Idle \in SUBSET Workers
  BY DEF Held, Releasing, Idle
<1>6. IsFiniteSet(Held) /\ IsFiniteSet(Releasing) /\ IsFiniteSet(Idle) /\ Cardinality(Idle) <= N
  BY <1>3, <1>4, <1>5, FS_Subset, Zenon
<1>7. Cardinality(Held) \in Nat /\ Cardinality(Releasing) \in Nat /\ Cardinality(Idle) \in Nat
  BY <1>6, FS_CardinalityType
<1>8. Counted
  BY <1>1, Zenon DEF UnitsCounted, Counted, Held, Releasing
<1>9. Callers \cap Workers = {} /\ None \notin Threads
  BY <1>1, SMT DEF Workers, Threads, PoolAssumption
<1>. QED
  BY <1>1, <1>2, <1>3, <1>4, <1>6, <1>7, <1>8, <1>9

(* A thread with a unit that has not claimed an entry leaves an idle one.   *)
LEMMA UnitFindsEntry ==
  ASSUME PoolAssumption, Orderly, NEW t \in Held
  PROVE  \E i \in Workers : it[i] = "idle"
<1>1. Cardinality(Held) # 0
  BY Basics, FS_EmptySet
<1>2. Cardinality(Idle) # 0
  BY <1>1, Basics, SMT DEF Counted
<1>. QED
  BY <1>2, FS_EmptySet DEF Idle

(* The parts of wmtAskQS.                                                   *)
LEMMA AcquireUnitStep ==
  ASSUME PoolAssumption, Orderly, NEW t \in Threads, AcquireUnit(t)
  PROVE  Orderly'
<1>0. TypeOK /\ Calm /\ Seeking(t) /\ Owning(t) /\ Told(t)
  BY DEF Orderly
<1>1. /\ asker' \in [Threads -> Asking]
      /\ asker[t].pc = "acquire" /\ asker'[t].pc = "enter"
      /\ asker'[t].at = asker[t].at /\ asker'[t].task = asker[t].task
      /\ \A u \in Threads \ {t} : asker'[u] = asker[u]
  BY Basics, AskerMoves DEF AcquireUnit, AskerAt, AskerPcs
<1>9. sem' \in 0 .. N
  BY Basics, SMT DEF AcquireUnit
<1>2. TypeOK'
  BY <1>0, <1>1, <1>9, Zenon DEF TypeOK, Asking, AcquireUnit, pool, msgs, admin, sides, past
<1>3. Calm'
  BY <1>0, Zenon DEF Calm, AcquireUnit, pool, msgs, admin, sides, past
<1>4. \A u \in Threads \ {t} :
         ThreadSame(u) /\ (asker[u].pc \in {"scan", "claim"} => lock' = lock)
  BY <1>1 DEF ThreadSame, AcquireUnit, pool, msgs, admin, sides, past
<1>5. \A i \in Workers : EntrySame(i)
  BY Zenon DEF EntrySame, AcquireUnit, pool, msgs, admin, sides, past
<1>6. Seeking(t)' /\ Told(t)' /\ ~Waiting(t) /\ ~Holding(t)'
  BY <1>0, <1>1, SMT DEF Seeking, Told, Holding, Waiting, Filling, AskerAt,
              AcquireUnit, pool, msgs, admin, sides, past
<1>7. Counted'
  <2>1. Held' = Held \cup {t} /\ t \notin Held
    BY <1>1, SMT DEF Held
  <2>2. Releasing' = Releasing /\ Idle' = Idle /\ sem' = sem - 1
    BY DEF AcquireUnit, Releasing, Idle, WorkerAt
  <2>3. Cardinality(Held') = Cardinality(Held) + 1
    BY <2>1, Basics, FS_AddElement, Zenon
  <2>. QED
    BY <2>2, <2>3, Basics, SMT DEF Counted
<1>. QED
  BY <1>2, <1>3, <1>4, <1>5, <1>6, <1>7, SearchStep

LEMMA EnterScanStep ==
  ASSUME PoolAssumption, Orderly, NEW t \in Threads, EnterScan(t)
  PROVE  Orderly'
<1>0. TypeOK /\ Calm /\ Seeking(t) /\ Owning(t) /\ Told(t)
  BY DEF Orderly
<1>1. /\ asker' \in [Threads -> Asking]
      /\ asker[t].pc = "enter" /\ asker'[t].pc = "scan"
      /\ asker'[t].at = asker[t].at /\ asker'[t].task = asker[t].task
      /\ \A u \in Threads \ {t} : asker'[u] = asker[u]
  BY Basics, AskerMoves DEF EnterScan, AskerAt, AskerPcs
<1>2. TypeOK'
  BY <1>0, <1>1, Basics, Zenon DEF TypeOK, Asking, EnterScan, pool, msgs, admin, sides, past
<1>3. Calm'
  BY <1>0, Zenon DEF Calm, EnterScan, pool, msgs, admin, sides, past
<1>4. \A u \in Threads \ {t} :
         ThreadSame(u) /\ (asker[u].pc \in {"scan", "claim"} => lock' = lock)
  BY <1>1, Basics, SMT DEF ThreadSame, EnterScan, pool, msgs, admin, sides, past, Orderly, Seeking
<1>5. \A i \in Workers : EntrySame(i)
  BY Zenon DEF EntrySame, EnterScan, pool, msgs, admin, sides, past
<1>9. \E i \in Workers : asker'[t].at <= i /\ it'[i] = "idle"
  <2>1. t \in Held
    BY <1>1 DEF Held
  <2>2. PICK i \in Workers : it[i] = "idle"
    BY <2>1, UnitFindsEntry
  <2>. QED
    BY <1>0, <1>1, <2>2, SMT DEF Seeking, Workers, EnterScan
<1>6. Seeking(t)' /\ Told(t)' /\ ~Waiting(t) /\ ~Holding(t)'
  BY <1>0, <1>1, <1>9, SMT DEF Seeking, Told, Holding, Waiting, Filling, AskerAt,
              EnterScan, pool, msgs, admin, sides, past
<1>7. Counted'
  <2>1. Held' = Held
    BY <1>1, SMT DEF Held
  <2>2. Releasing' = Releasing /\ Idle' = Idle /\ sem' = sem
    BY DEF EnterScan, Releasing, Idle, WorkerAt, pool, msgs, admin, sides, past
  <2>. QED
    BY <2>1, <2>2, Basics DEF Counted
<1>. QED
  BY <1>2, <1>3, <1>4, <1>5, <1>6, <1>7, SearchStep

LEMMA ScanEntryStep ==
  ASSUME PoolAssumption, Orderly, NEW t \in Threads, ScanEntry(t)
  PROVE  Orderly'
<1>0. TypeOK /\ Calm /\ Seeking(t) /\ Owning(t) /\ Told(t)
  BY DEF Orderly
<1>1. /\ asker' \in [Threads -> Asking]
      /\ asker[t].pc = "scan" /\ asker'[t].pc = "scan"
      /\ asker'[t].at = asker[t].at + 1 /\ asker'[t].task = asker[t].task
      /\ \A u \in Threads \ {t} : asker'[u] = asker[u]
  BY Basics, SMT DEF ScanEntry, AskerAt, AskerPcs, Asking
<1>2. TypeOK'
  BY <1>0, <1>1, Basics, Zenon DEF TypeOK, Asking, ScanEntry, pool, msgs, admin, sides, past
<1>3. Calm'
  BY <1>0, Zenon DEF Calm, ScanEntry, pool, msgs, admin, sides, past
<1>4. \A u \in Threads \ {t} :
         ThreadSame(u) /\ (asker[u].pc \in {"scan", "claim"} => lock' = lock)
  BY <1>1 DEF ThreadSame, ScanEntry, pool, msgs, admin, sides, past
<1>5. \A i \in Workers : EntrySame(i)
  BY Zenon DEF EntrySame, ScanEntry, pool, msgs, admin, sides, past
<1>9. \E i \in Workers : asker'[t].at <= i /\ it'[i] = "idle"
  <2>1. PICK i \in Workers : asker[t].at <= i /\ it[i] = "idle"
    BY <1>0, <1>1 DEF Seeking, AskerAt
  <2>2. i # asker[t].at /\ asker[t].at \in Int
    BY <2>1, Basics, SMT DEF ScanEntry, Asking
  <2>3. it' = it
    BY DEF ScanEntry, pool
  <2>. QED
    BY <1>1, <2>1, <2>2, <2>3, SMT DEF Workers
<1>6. Seeking(t)' /\ Told(t)' /\ ~Waiting(t) /\ ~Holding(t)'
  BY <1>0, <1>1, <1>9, SMT DEF Seeking, Told, Holding, Waiting, Filling, AskerAt,
              ScanEntry, pool, msgs, admin, sides, past
<1>7. Counted'
  <2>1. Held' = Held
    BY <1>1, SMT DEF Held
  <2>2. Releasing' = Releasing /\ Idle' = Idle /\ sem' = sem
    BY DEF ScanEntry, Releasing, Idle, WorkerAt, pool, msgs, admin, sides, past
  <2>. QED
    BY <2>1, <2>2, Basics DEF Counted
<1>. QED
  BY <1>2, <1>3, <1>4, <1>5, <1>6, <1>7, SearchStep

LEMMA FindEntryStep ==
  ASSUME PoolAssumption, Orderly, NEW t \in Threads, FindEntry(t)
  PROVE  Orderly'
<1>0. TypeOK /\ Calm /\ Seeking(t) /\ Owning(t) /\ Told(t)
  BY DEF Orderly
<1>1. /\ asker' \in [Threads -> Asking]
      /\ asker[t].pc = "scan" /\ asker'[t].pc = "claim"
      /\ asker'[t].at = asker[t].at /\ asker'[t].task = asker[t].task
      /\ \A u \in Threads \ {t} : asker'[u] = asker[u]
  BY Basics, AskerMoves DEF FindEntry, AskerAt, AskerPcs
<1>2. TypeOK'
  BY <1>0, <1>1, Basics, Zenon DEF TypeOK, Asking, FindEntry, pool, msgs, admin, sides, past
<1>3. Calm'
  BY <1>0, Zenon DEF Calm, FindEntry, pool, msgs, admin, sides, past
<1>4. \A u \in Threads \ {t} :
         ThreadSame(u) /\ (asker[u].pc \in {"scan", "claim"} => lock' = lock)
  BY <1>1 DEF ThreadSame, FindEntry, pool, msgs, admin, sides, past
<1>5. \A i \in Workers : EntrySame(i)
  BY Zenon DEF EntrySame, FindEntry, pool, msgs, admin, sides, past
<1>9. asker[t].at \in Workers /\ it'[asker[t].at] = "idle"
  BY Basics, SMT DEF FindEntry, Asking, Workers, pool
<1>6. Seeking(t)' /\ Told(t)' /\ ~Waiting(t) /\ ~Holding(t)'
  BY <1>0, <1>1, <1>9, SMT DEF Seeking, Told, Holding, Waiting, Filling, AskerAt,
              FindEntry, pool, msgs, admin, sides, past
<1>7. Counted'
  <2>1. Held' = Held
    BY <1>1, SMT DEF Held
  <2>2. Releasing' = Releasing /\ Idle' = Idle /\ sem' = sem
    BY DEF FindEntry, Releasing, Idle, WorkerAt, pool, msgs, admin, sides, past
  <2>. QED
    BY <2>1, <2>2, Basics DEF Counted
<1>. QED
  BY <1>2, <1>3, <1>4, <1>5, <1>6, <1>7, SearchStep

LEMMA ClaimStep ==
  ASSUME PoolAssumption, Orderly, NEW t \in Threads, Claim(t)
  PROVE  Orderly'
<1>0. TypeOK /\ Calm /\ Seeking(t) /\ Owning(t) /\ Told(t)
  BY DEF Orderly
<1>1. /\ asker' \in [Threads -> Asking]
      /\ asker[t].pc = "claim" /\ asker'[t].pc = "fill"
      /\ asker'[t].at = asker[t].at /\ asker'[t].task = asker[t].task
      /\ \A u \in Threads \ {t} : asker'[u] = asker[u]
  BY Basics, AskerMoves DEF Claim, AskerAt, AskerPcs
<1>2. asker[t].at \in Workers /\ ~Waiting(t)
  BY <1>0, <1>1, SMT DEF Seeking, Owning, Holding, Filling, Waiting, AskerAt
<1>20. PICK i \in Workers : i = asker[t].at
  BY <1>2
<1>21. Entry(i)
  BY DEF Orderly
<1>3. TypeOK'
  <2>1. it' \in [Workers -> {"start", "idle", "stop", "top", "inner"}]
    BY <1>0, <1>20, SMT DEF TypeOK, Kind, Claim
  <2>. QED
    BY <1>0, <1>1, <2>1, Zenon DEF TypeOK, Asking, Claim, msgs, admin, sides, past
<1>4. Calm'
  BY <1>0, <1>20, SMT DEF Calm, Kind, TypeOK, Claim, msgs, admin, sides
<1>5. \A u \in Threads \ {t} : ThreadSame(u) /\ (Holding(u) => asker[u].at # i)
  <2>1. \A u \in Threads \ {t} : ThreadSame(u)
    BY <1>1 DEF ThreadSame, Claim, pool, msgs, admin, sides, past
  <2>2. \A u \in Threads \ {t} : Holding(u) => asker[u].at # i
    BY <1>0, <1>1, <1>20, SMT DEF Orderly, Owning, Seeking, Kind, AskerAt
  <2>. QED
    BY <2>1, <2>2
<1>6. \A j \in Workers \ {i} : EntrySame(j)
  BY <1>0, <1>20, SMT DEF TypeOK, EntrySame, Claim, pool, msgs, admin, sides, past
<1>7. Entry(i)'
  BY <1>0, <1>1, <1>20, <1>21, SMT DEF Orderly, TypeOK, Calm, Entry, Seeking, Kind,
              Waiting, AskerAt, WorkerAt,
                         Claim, pool, msgs, admin, sides, past
<1>8. Seeking(t)' /\ Owning(t)' /\ Told(t)'
  <2>1. begun[t] = 0 /\ starts[i] = 0 /\ file[i] = None /\ worker[i].pc \in {"release", "wait"}
    BY <1>0, <1>1, <1>20, <1>21 DEF Seeking, Entry, AskerAt
  <2>2. it'[i] = Kind(t) /\ Kind(t)' = Kind(t)
    BY <1>0, <1>20, SMT DEF Claim, TypeOK, Kind
  <2>3. Owning(t)'
    BY <1>1, <1>20, <2>1, <2>2, SMT DEF Owning, Holding, Filling, Waiting, AskerAt,
                Claim, msgs, past
  <2>4. Seeking(t)'
    BY <1>1, SMT DEF Seeking, AskerAt
  <2>5. Told(t)'
    BY <1>0, <1>1, SMT DEF Told, AskerAt, Claim, msgs, past
  <2>. QED
    BY <2>3, <2>4, <2>5
<1>9. Counted'
  <2>1. Held' = Held \ {t} /\ t \in Held
    BY <1>1, SMT DEF Held
  <2>2. Idle' = Idle \ {i} /\ i \in Idle
    BY <1>0, <1>1, <1>20, <1>21, SMT DEF Idle, Claim, TypeOK, Kind, Seeking, AskerAt
  <2>3. Releasing' = Releasing /\ sem' = sem
    BY DEF Claim, Releasing, WorkerAt
  <2>4. Cardinality(Held') = Cardinality(Held) - 1
    BY <2>1, Basics, FS_RemoveElement, Zenon
  <2>5. Cardinality(Idle') = Cardinality(Idle) - 1
    BY <2>2, Basics, FS_RemoveElement, Zenon
  <2>. QED
    BY <2>3, <2>4, <2>5, Basics, SMT DEF Counted
<1>10. \A u \in Threads \ {t} :
         /\ Holding(u) => asker[u].at \in Workers
         /\ asker[u].pc \in {"scan", "claim"} =>
               lock' = lock /\ \A j \in Workers : it[j] = "idle" => it'[j] = "idle"
  BY <1>0, <1>1 DEF Orderly, Owning, Seeking
<1>11. \A u \in Threads \ {t} :
         Holding(u) => EntrySame(asker[u].at) /\ asker'[t].at # asker[u].at
  BY <1>1, <1>20, <1>5, <1>6, <1>10
<1>12. \A j \in Workers : EntrySame(j) \/ Entry(j)'
  BY <1>6, <1>7
<1>. QED
  BY <1>2, <1>3, <1>4, <1>5, <1>8, <1>9, <1>10, <1>11, <1>12, AskStep

LEMMA FillEntryStep ==
  ASSUME PoolAssumption, Orderly, NEW t \in Threads, FillEntry(t)
  PROVE  Orderly'
<1>0. TypeOK /\ Calm /\ Seeking(t) /\ Owning(t) /\ Told(t)
  BY DEF Orderly
<1>1. /\ asker' \in [Threads -> Asking]
      /\ asker[t].pc = "fill" /\ asker'[t].pc = "publish"
      /\ asker'[t].at = asker[t].at /\ asker'[t].task = asker[t].task
      /\ \A u \in Threads \ {t} : asker'[u] = asker[u]
  BY Basics, AskerMoves DEF FillEntry, AskerAt, AskerPcs
<1>2. asker[t].at \in Workers /\ ~Waiting(t)
  BY <1>0, <1>1, SMT DEF Seeking, Owning, Holding, Filling, Waiting, AskerAt
<1>20. PICK i \in Workers : i = asker[t].at
  BY <1>2
<1>21. Entry(i)
  BY DEF Orderly
<1>3. TypeOK'
  BY <1>0, <1>1, <1>20, <1>21, SMT DEF TypeOK, Asking, FillEntry, pool, msgs, admin, sides, past
<1>4. Calm'
  BY <1>0, <1>20, SMT DEF Calm, FillEntry, pool, msgs, admin, sides, past
<1>5. \A u \in Threads \ {t} : ThreadSame(u) /\ (Holding(u) => asker[u].at # i)
  <2>1. \A u \in Threads \ {t} : ThreadSame(u)
    BY <1>1 DEF ThreadSame, FillEntry, pool, msgs, admin, sides, past
  <2>2. \A u \in Threads \ {t} : Holding(u) => asker[u].at # i
    BY <1>1, <1>20, SMT DEF Orderly, Alone, Holding, Filling, AskerAt
  <2>. QED
    BY <2>1, <2>2
<1>6. \A j \in Workers \ {i} : EntrySame(j)
  BY <1>0, <1>20, SMT DEF TypeOK, EntrySame, FillEntry, pool, msgs, admin, sides, past
<1>7. Entry(i)'
  BY <1>0, <1>1, <1>20, <1>21, SMT DEF Orderly, TypeOK, Calm, Entry, Owning, Told,
              Kind, Holding, Filling, Waiting,
                         AskerAt, WorkerAt, FillEntry, pool, msgs, admin, sides, past
<1>8. Seeking(t)' /\ Owning(t)' /\ Told(t)'
  BY <1>0, <1>1, <1>20, <1>21, Basics, SMT DEF TypeOK, Calm, Seeking, Owning, Told,
              Holding, Waiting, Filling,
                         AskerAt, Kind, Pending, UnderWay, WorkerAt, FillEntry, pool, msgs, admin, sides, past
<1>9. Counted'
  <2>1. Held' = Held
    BY <1>1, SMT DEF Held
  <2>2. Releasing' = Releasing /\ Idle' = Idle /\ sem' = sem
    BY DEF FillEntry, Releasing, Idle, WorkerAt, pool, msgs, admin, sides, past
  <2>. QED
    BY <2>1, <2>2, Basics DEF Counted
<1>10. \A u \in Threads \ {t} :
         /\ Holding(u) => asker[u].at \in Workers
         /\ asker[u].pc \in {"scan", "claim"} =>
               lock' = lock /\ \A j \in Workers : it[j] = "idle" => it'[j] = "idle"
  BY DEF Orderly, Owning, FillEntry, pool, msgs, admin, sides, past
<1>11. \A u \in Threads \ {t} :
         Holding(u) => EntrySame(asker[u].at) /\ asker'[t].at # asker[u].at
  BY <1>1, <1>20, <1>5, <1>6, <1>10
<1>12. \A j \in Workers : EntrySame(j) \/ Entry(j)'
  BY <1>6, <1>7
<1>. QED
  BY <1>2, <1>3, <1>4, <1>5, <1>8, <1>9, <1>10, <1>11, <1>12, AskStep

LEMMA PublishTaskStep ==
  ASSUME PoolAssumption, Orderly, NEW t \in Threads, PublishTask(t)
  PROVE  Orderly'
<1>0. TypeOK /\ Calm /\ Seeking(t) /\ Owning(t) /\ Told(t)
  BY DEF Orderly
<1>1. /\ asker' \in [Threads -> Asking]
      /\ asker[t].pc = "publish" /\ asker'[t].pc = "post"
      /\ asker'[t].at = asker[t].at /\ asker'[t].task = asker[t].task
      /\ \A u \in Threads \ {t} : asker'[u] = asker[u]
  BY Basics, AskerMoves DEF PublishTask, AskerAt, AskerPcs
<1>2. asker[t].at \in Workers /\ ~Waiting(t)
  BY <1>0, <1>1, SMT DEF Seeking, Owning, Holding, Filling, Waiting, AskerAt
<1>20. PICK i \in Workers : i = asker[t].at
  BY <1>2
<1>21. Entry(i)
  BY DEF Orderly
<1>3. TypeOK'
  BY <1>0, <1>1, <1>20, <1>21, SMTT(30) DEF TypeOK, Asking, PublishTask, pool, msgs, admin, sides, past
<1>4. Calm'
  BY <1>0, <1>20, SMT DEF Calm, PublishTask, pool, msgs, admin, sides, past
<1>5. \A u \in Threads \ {t} : ThreadSame(u) /\ (Holding(u) => asker[u].at # i)
  <2>1. \A u \in Threads \ {t} : ThreadSame(u)
    BY <1>1 DEF ThreadSame, PublishTask, pool, msgs, admin, sides, past
  <2>2. \A u \in Threads \ {t} : Holding(u) => asker[u].at # i
    BY <1>1, <1>20, SMT DEF Orderly, Alone, Holding, Filling, AskerAt
  <2>. QED
    BY <2>1, <2>2
<1>6. \A j \in Workers \ {i} : EntrySame(j)
  BY <1>0, <1>20, SMT DEF TypeOK, EntrySame, PublishTask, pool, msgs, admin, sides, past
<1>7. Entry(i)'
  BY <1>0, <1>1, <1>20, <1>21, SMT DEF Orderly, TypeOK, Calm, Entry, Owning, Told,
              Kind, Holding, Filling, Waiting,
                         AskerAt, WorkerAt, PublishTask, pool, msgs, admin, sides, past
<1>8. Seeking(t)' /\ Owning(t)' /\ Told(t)'
  BY <1>0, <1>1, <1>20, <1>21, Basics, SMT DEF TypeOK, Calm, Seeking, Owning, Told,
              Holding, Waiting, Filling,
                         AskerAt, Kind, Pending, UnderWay, WorkerAt, PublishTask, pool, msgs, admin, sides, past
<1>9. Counted'
  <2>1. Held' = Held
    BY <1>1, SMT DEF Held
  <2>2. Releasing' = Releasing /\ Idle' = Idle /\ sem' = sem
    BY DEF PublishTask, Releasing, Idle, WorkerAt, pool, msgs, admin, sides, past
  <2>. QED
    BY <2>1, <2>2, Basics DEF Counted
<1>10. \A u \in Threads \ {t} :
         /\ Holding(u) => asker[u].at \in Workers
         /\ asker[u].pc \in {"scan", "claim"} =>
               lock' = lock /\ \A j \in Workers : it[j] = "idle" => it'[j] = "idle"
  BY DEF Orderly, Owning, PublishTask, pool, msgs, admin, sides, past
<1>11. \A u \in Threads \ {t} :
         Holding(u) => EntrySame(asker[u].at) /\ asker'[t].at # asker[u].at
  BY <1>1, <1>20, <1>5, <1>6, <1>10
<1>12. \A j \in Workers : EntrySame(j) \/ Entry(j)'
  BY <1>6, <1>7
<1>. QED
  BY <1>2, <1>3, <1>4, <1>5, <1>8, <1>9, <1>10, <1>11, <1>12, AskStep

LEMMA PostStartStep ==
  ASSUME PoolAssumption, Orderly, NEW t \in Threads, PostStart(t)
  PROVE  Orderly'
<1>0. TypeOK /\ Calm /\ Seeking(t) /\ Owning(t) /\ Told(t)
  BY DEF Orderly
<1>1. /\ asker' \in [Threads -> Asking]
      /\ asker[t].pc = "post" /\ asker'[t].pc = "await"
      /\ asker'[t].at = asker[t].at /\ asker'[t].task = asker[t].task
      /\ \A u \in Threads \ {t} : asker'[u] = asker[u]
  BY Basics, AskerMoves DEF PostStart, AskerAt, AskerPcs
<1>2. asker[t].at \in Workers /\ ~Waiting(t)
  BY <1>0, <1>1, SMT DEF Seeking, Owning, Holding, Filling, Waiting, AskerAt
<1>20. PICK i \in Workers : i = asker[t].at
  BY <1>2
<1>21. Entry(i)
  BY DEF Orderly
<1>3. TypeOK'
  BY <1>0, <1>1, <1>20, <1>21, SMTT(30) DEF TypeOK, Asking, PostStart, pool, msgs, admin, sides, past
<1>4. Calm'
  BY <1>0, <1>20, SMT DEF Calm, PostStart, pool, msgs, admin, sides, past
<1>5. \A u \in Threads \ {t} : ThreadSame(u) /\ (Holding(u) => asker[u].at # i)
  <2>1. \A u \in Threads \ {t} : ThreadSame(u)
    BY <1>1 DEF ThreadSame, PostStart, pool, msgs, admin, sides, past
  <2>2. \A u \in Threads \ {t} : Holding(u) => asker[u].at # i
    BY <1>1, <1>20, SMT DEF Orderly, Alone, Holding, Filling, AskerAt
  <2>. QED
    BY <2>1, <2>2
<1>6. \A j \in Workers \ {i} : EntrySame(j)
  BY <1>0, <1>20, SMT DEF TypeOK, EntrySame, PostStart, pool, msgs, admin, sides, past
<1>7. Entry(i)'
  BY <1>0, <1>1, <1>20, <1>21, SMT DEF Orderly, TypeOK, Calm, Entry, Owning, Told,
              Kind, Holding, Filling, Waiting,
                         AskerAt, WorkerAt, PostStart, pool, msgs, admin, sides, past
<1>8. Seeking(t)' /\ Owning(t)' /\ Told(t)'
  BY <1>0, <1>1, <1>20, <1>21, Basics, SMT DEF TypeOK, Calm, Seeking, Owning, Told,
              Holding, Waiting, Filling,
                         AskerAt, Kind, Pending, UnderWay, WorkerAt, PostStart, pool, msgs, admin, sides, past
<1>9. Counted'
  <2>1. Held' = Held
    BY <1>1, SMT DEF Held
  <2>2. Releasing' = Releasing /\ Idle' = Idle /\ sem' = sem
    BY DEF PostStart, Releasing, Idle, WorkerAt, pool, msgs, admin, sides, past
  <2>. QED
    BY <2>1, <2>2, Basics DEF Counted
<1>10. \A u \in Threads \ {t} :
         /\ Holding(u) => asker[u].at \in Workers
         /\ asker[u].pc \in {"scan", "claim"} =>
               lock' = lock /\ \A j \in Workers : it[j] = "idle" => it'[j] = "idle"
  BY DEF Orderly, Owning, PostStart, pool, msgs, admin, sides, past
<1>11. \A u \in Threads \ {t} :
         Holding(u) => EntrySame(asker[u].at) /\ asker'[t].at # asker[u].at
  BY <1>1, <1>20, <1>5, <1>6, <1>10
<1>12. \A j \in Workers : EntrySame(j) \/ Entry(j)'
  BY <1>6, <1>7
<1>. QED
  BY <1>2, <1>3, <1>4, <1>5, <1>8, <1>9, <1>10, <1>11, <1>12, AskStep

(* The wait ends.                                                           *)
LEMMA TakeEndStep ==
  ASSUME PoolAssumption, Orderly, NEW t \in Threads, TakeEnd(t)
  PROVE  Orderly'
<1>0. TypeOK /\ Calm /\ Seeking(t) /\ Owning(t) /\ Told(t)
  BY DEF Orderly
<1>1. /\ asker' \in [Threads -> Asking]
      /\ asker[t].pc = "await" /\ asker'[t].pc = "out"
      /\ asker'[t].at = 0 /\ asker'[t].task = asker[t].task
      /\ \A u \in Threads \ {t} : asker'[u] = asker[u]
  <2>. DEFINE g == [asker EXCEPT ![t].pc = "out"]
  <2>1. asker' = [g EXCEPT ![t].at = 0]
    BY Zenon DEF TakeEnd
  <2>2. /\ g \in [Threads -> Asking] /\ g[t].pc = "out" /\ g[t].task = asker[t].task
        /\ \A u \in Threads \ {t} : g[u] = asker[u]
    BY Basics, SMT DEF Asking, AskerPcs
  <2>. HIDE DEF g
  <2>. DEFINE r == [g[t] EXCEPT !.at = 0]
  <2>3. asker' = [g EXCEPT ![t] = r]
    BY <2>1, Zenon
  <2>4. r \in Asking /\ r.pc = "out" /\ r.at = 0 /\ r.task = asker[t].task
    BY <2>2, Basics, SMT DEF Asking
  <2>. HIDE DEF r
  <2>5. asker[t].pc = "await"
    BY DEF TakeEnd, AskerAt
  <2>. QED
    BY <2>2, <2>3, <2>4, <2>5, SMT
<1>2. ends[t] = <<asker[t].task>> /\ begun[t] <= 1
  BY <1>0 DEF TakeEnd, Told
<1>3. ends' = [ends EXCEPT ![t] = <<>>]
  BY <1>2, SMT DEF TakeEnd
<1>4. ends' \in [Threads -> Seq(Tasks)]
  BY <1>0, <1>3, SMT DEF TypeOK
<1>5. queue' \in [Workers -> BOOLEAN] /\ \A i \in Workers : queue'[i]
  BY <1>0, SMTT(30) DEF TypeOK, Calm, TakeEnd
<1>6. TypeOK'
  BY <1>0, <1>1, <1>4, <1>5, Zenon DEF TypeOK, Asking, TakeEnd, pool, admin, sides, past
<1>7. Calm'
  BY <1>0, <1>5, Zenon DEF Calm, TakeEnd, pool, admin, sides, past
<1>8. \A u \in Threads \ {t} :
         ThreadSame(u) /\ (asker[u].pc \in {"scan", "claim"} => lock' = lock)
  BY <1>0, <1>1, <1>3, SMT DEF TypeOK, ThreadSame, TakeEnd, pool, past
<1>9. \A i \in Workers : EntrySame(i)
  BY Zenon DEF EntrySame, TakeEnd, pool
<1>10. ends'[t] = <<>> /\ begun' = begun
  BY <1>0, <1>3, SMT DEF TypeOK, TakeEnd, past
<1>11. Seeking(t)' /\ Told(t)' /\ ~Waiting(t) /\ ~Holding(t)'
  BY <1>0, <1>1, <1>2, <1>10, SMT DEF Seeking, Told, Holding, Waiting, Filling, AskerAt
<1>12. Counted'
  <2>1. Held' = Held
    BY <1>1, SMT DEF Held
  <2>2. Releasing' = Releasing /\ Idle' = Idle /\ sem' = sem
    BY DEF TakeEnd, Releasing, Idle, WorkerAt, pool
  <2>. QED
    BY <2>1, <2>2, Basics DEF Counted
<1>. QED
  BY <1>6, <1>7, <1>8, <1>9, <1>11, <1>12, SearchStep

(* A thread asks a task.                                                    *)
LEMMA CallStep ==
  ASSUME PoolAssumption, Orderly, NEW t \in Threads, Call(t)
  PROVE  Orderly'
<1>0. TypeOK /\ Calm /\ Seeking(t) /\ Owning(t) /\ Told(t)
  BY DEF Orderly
<1>. DEFINE k == [by |-> t, no |-> NextNo(t), depth |-> DepthOf(t), of |-> ClientOf(t)]
            r == [pc |-> "acquire", at |-> 0, task |-> k]
<1>1. k \in Tasks /\ k.by = t /\ k # None
  <2>1. NextNo(t) \in 0 .. Numbers - 1
    <3>1. CASE asker[t].task = None
      BY <3>1, SMT DEF NextNo, PoolAssumption
    <3>2. CASE asker[t].task # None
      <4>1. asker[t].task.no + 1 \in Nat /\ Numbers \in Nat \ {0}
        BY <3>2, Basics, SMT DEF Asking, Tasks, PoolAssumption
      <4>2. \A a \in Nat, b \in Nat \ {0} : a % b \in 0 .. b - 1
        BY SMT
      <4>3. NextNo(t) = (asker[t].task.no + 1) % Numbers
        BY <3>2, Zenon DEF NextNo
      <4>. QED
        BY <4>1, <4>2, <4>3, Zenon
    <3>. QED
      BY <3>1, <3>2
  <2>2. DepthOf(t) \in 1 .. MaxDepth /\ ClientOf(t) \in Callers
    <3>1. CASE t \in Callers
      BY <3>1, SMT DEF DepthOf, ClientOf, PoolAssumption
    <3>2. CASE t \notin Callers
      <4>1. t \in Workers /\ WorkerAt(t, "run") /\ worker[t].task.depth < MaxDepth
        BY <3>2, SMT DEF Threads, Call, MayCall, WorkerAt
      <4>2. worker[t].task = asker[caller[t]].task /\ caller[t] \in Threads
            /\ asker[caller[t]].task # None
        BY <4>1, SMT DEF Orderly, Entry, Owning, Told, Pending, UnderWay, Waiting,
                    WorkerAt, AskerAt
      <4>3. worker[t].task \in Tasks
        BY <4>2, Basics, SMT DEF Asking
      <4>. QED
        BY <3>2, <4>1, <4>3, SMT DEF DepthOf, ClientOf, Tasks, PoolAssumption
    <3>. QED
      BY <3>1, <3>2
  <2>3. k \in Tasks /\ k.by = t
    BY <2>1, <2>2, SMT DEF Tasks
  <2>4. None \notin Tasks
    BY DEF PoolAssumption
  <2>. QED
    BY <2>3, <2>4
<1>. HIDE DEF k
<1>2. r \in Asking /\ r.pc = "acquire" /\ r.at = 0 /\ r.task = k
  BY <1>1, Basics, SMT DEF Asking, AskerPcs
<1>3. asker' = [asker EXCEPT ![t] = r]
  BY Zenon DEF Call, k
<1>. HIDE DEF r
<1>4. /\ asker' \in [Threads -> Asking]
      /\ asker[t].pc = "out" /\ asker'[t].pc = "acquire"
      /\ asker'[t].at = 0 /\ asker'[t].task = k
      /\ \A u \in Threads \ {t} : asker'[u] = asker[u]
  BY <1>2, <1>3, Basics, SMT DEF Call, AskerAt
<1>5. /\ worker' \in [Workers -> Working]
      /\ \A i \in Workers : worker'[i].pc = worker[i].pc /\ worker'[i].task = worker[i].task
  <2>1. CASE t \in Workers
    <3>. DEFINE w == [worker[t] EXCEPT !.nested = TRUE]
    <3>1. worker' = [worker EXCEPT ![t] = w]
      BY <2>1, Zenon DEF Call
    <3>2. w \in Working /\ w.pc = worker[t].pc /\ w.task = worker[t].task
      BY <2>1, Basics, ZenonT(30) DEF Working
    <3>. HIDE DEF w
    <3>. QED
      BY <2>1, <3>1, <3>2, Basics, SMT
  <2>2. CASE t \notin Workers
    BY <2>2, Basics, Zenon DEF Call
  <2>. QED
    BY <2>1, <2>2
<1>6. begun' = [begun EXCEPT ![t] = 0] /\ answered' = [answered EXCEPT ![t] = FALSE]
      /\ ends' = ends
  BY DEF Call, msgs
<1>7. /\ begun' \in [Threads -> 0 .. 2] /\ answered' \in [Threads -> BOOLEAN]
      /\ begun'[t] = 0 /\ \A u \in Threads \ {t} : begun'[u] = begun[u] /\ answered'[u] = answered[u]
  BY <1>0, <1>6, SMT DEF TypeOK
<1>8. TypeOK'
  BY <1>0, <1>4, <1>5, <1>7, Zenon DEF TypeOK, Asking, Working, Call, pool, msgs, admin, sides
<1>9. Calm'
  BY <1>0, <1>5, Zenon DEF Calm, Call, pool, msgs, admin, sides
<1>10. \A u \in Threads \ {t} :
         ThreadSame(u) /\ (asker[u].pc \in {"scan", "claim"} => lock' = lock)
  BY <1>4, <1>6, <1>7, Zenon DEF ThreadSame, Call, pool
<1>11. \A i \in Workers : EntrySame(i)
  BY <1>5, Zenon DEF EntrySame, Call, pool, msgs
<1>12. Seeking(t)' /\ Told(t)' /\ ~Waiting(t) /\ ~Holding(t)'
  BY <1>0, <1>1, <1>4, <1>6, <1>7, SMT DEF Seeking, Told, Holding, Waiting, Filling, AskerAt
<1>13. Counted'
  <2>1. Held' = Held
    BY <1>4, SMT DEF Held
  <2>2. Releasing' = Releasing /\ Idle' = Idle /\ sem' = sem
    BY <1>5 DEF Call, Releasing, Idle, WorkerAt, pool
  <2>. QED
    BY <2>1, <2>2, Basics DEF Counted
<1>. QED
  BY <1>8, <1>9, <1>10, <1>11, <1>12, <1>13, SearchStep

(* "This should not appeares", says the code.                               *)
LEMMA NoIdleEntryNever ==
  ASSUME PoolAssumption, Orderly, NEW t \in Threads
  PROVE  ~NoIdleEntry(t)
  BY DEF Orderly, UnitsCounted, NoIdleEntry

(* The worker of entry i is busy for the thread that stands in the entry.   *)
LEMMA Owner ==
  ASSUME Orderly, NEW i \in Workers,
         worker[i].pc \in {"loop", "run", "reply", "end"} \/ starts[i] > 0
  PROVE  /\ caller[i] \in Threads /\ Waiting(caller[i]) /\ Holding(caller[i])
         /\ asker[caller[i]].at = i /\ it[i] = Kind(caller[i])
         /\ Pending(caller[i], i) \/ UnderWay(caller[i], i)
         /\ Told(caller[i])
         /\ \A u \in Threads : Holding(u) /\ asker[u].at = i => u = caller[i]
<1>1. caller[i] \in Threads /\ Waiting(caller[i]) /\ asker[caller[i]].at = i
  BY DEF Orderly, Entry, WorkerAt
<1>2. Holding(caller[i]) /\ Owning(caller[i]) /\ Told(caller[i])
  BY <1>1 DEF Orderly, Holding
<1>3. it[i] = Kind(caller[i]) /\ (Pending(caller[i], i) \/ UnderWay(caller[i], i))
  BY <1>1, <1>2, Zenon DEF Owning
<1>4. \A u \in Threads : Holding(u) /\ asker[u].at = i => u = caller[i]
  BY <1>1, <1>2, Zenon DEF Orderly, Alone
<1>. QED
  BY <1>1, <1>2, <1>3, <1>4

(* The parts of askQS_tm.                                                   *)
LEMMA BeginStep ==
  ASSUME PoolAssumption, Orderly, NEW i \in Workers, Begin(i)
  PROVE  Orderly'
<1>0. TypeOK /\ Calm /\ Entry(i)
  BY DEF Orderly
<1>1. /\ worker' \in [Workers -> Working]
      /\ worker[i].pc = "loop" /\ worker'[i].pc = "run" /\ worker'[i].task = file[i]
      /\ \A j \in Workers \ {i} : worker'[j] = worker[j]
  <2>. DEFINE w == [pc |-> "run", task |-> file[i], nested |-> FALSE]
  <2>1. w \in Working
    BY <1>0, ZenonT(30) DEF TypeOK, Working, WorkerPcs
  <2>2. w.pc = "run" /\ w.task = file[i] /\ worker' = [worker EXCEPT ![i] = w]
    BY Zenon DEF Begin
  <2>3. worker[i].pc = "loop"
    BY DEF Begin, WorkerAt
  <2>. HIDE DEF w
  <2>. QED
    BY <2>1, <2>2, <2>3, Basics, SMT
<1>2. PICK c \in Threads :
         /\ c = caller[i] /\ Waiting(c) /\ Holding(c) /\ asker[c].at = i /\ it[i] = Kind(c)
         /\ Pending(c, i) \/ UnderWay(c, i)
         /\ Told(c)
         /\ \A u \in Threads : Holding(u) /\ asker[u].at = i => u = c
  BY <1>1, Owner
<1>3. asker' = asker /\ lock' = lock
  BY DEF Begin, pool, msgs, admin, sides, past
<1>4. TypeOK'
  <2>1. begun' \in [Threads -> 0 .. 2]
    <3>1. file[i].by = c
      BY <1>1, <1>2, SMT DEF Pending, UnderWay, WorkerAt, Told, Waiting, AskerAt
    <3>2. begun \in [Threads -> 0 .. 2]
      BY <1>0 DEF TypeOK
    <3>3. begun' = IF file[i] = asker[c].task /\ begun[c] < 2
                   THEN [begun EXCEPT ![c] = @ + 1] ELSE begun
      BY <3>1, Zenon DEF Begin
    <3>. QED
      BY <3>2, <3>3, SMT
  <2>. QED
    BY <1>0, <1>1, <2>1, Zenon DEF TypeOK, Working, Begin, pool, msgs, admin, sides, past
<1>5. Calm'
  <2>1. \A j \in Workers : worker'[j].pc \in {"loop", "run", "reply", "end", "free", "release", "wait"}
    BY <1>0, <1>1 DEF Calm
  <2>2. it' = it /\ queue' = queue
    BY DEF Begin, pool, msgs, admin, sides, past
  <2>. QED
    BY <1>0, <2>1, <2>2, Zenon DEF Calm, Begin, pool, msgs, admin, sides, past
<1>6. \A j \in Workers \ {i} : EntrySame(j)
  BY <1>0, <1>1, SMT DEF TypeOK, EntrySame, Begin, pool, msgs, admin, sides, past
<1>7. \A u \in Threads : IF Holding(u) /\ asker[u].at = i THEN Owning(u)' /\ Told(u)'
                          ELSE ThreadSame(u)
  <2>1. Owning(c)' /\ Told(c)'
    BY <1>0, <1>1, <1>2, <1>3, SMT DEF TypeOK, Owning, Told, Holding, Waiting, Filling,
                AskerAt, Kind, Pending, UnderWay, WorkerAt, Begin, pool, msgs, admin, sides,
                past
  <2>2. \A u \in Threads : u # c => ThreadSame(u)
    <3>1. file[i].by = c
      BY <1>1, <1>2, SMT DEF Pending, UnderWay, WorkerAt, Told, Waiting, AskerAt
    <3>. QED
      BY <1>0, <1>3, <3>1, SMT DEF TypeOK, ThreadSame, Begin, pool, msgs, admin, sides, past
  <2>. QED
    BY <1>2, <2>1, <2>2
<1>8. \A j \in Workers : it[j] = "idle" => it'[j] = "idle"
  BY <1>0, SMT DEF TypeOK, Begin, pool, msgs, admin, sides, past
<1>9. Entry(i)'
  BY <1>0, <1>1, <1>2, <1>3, SMT DEF TypeOK, Entry, Owning, Told, Holding, Waiting,
              Filling, AskerAt,
                               Kind, Pending, UnderWay, WorkerAt, Begin, pool, msgs, admin, sides, past
<1>10. Counted'
  <2>1. Releasing' = Releasing
    BY <1>1, SMT DEF Releasing, WorkerAt
  <2>2. Held' = Held /\ Idle' = Idle /\ sem' = sem
    BY <1>3 DEF Begin, Held, Idle, pool, msgs, admin, sides, past
  <2>. QED
    BY <2>1, <2>2, Basics DEF Counted
<1>. QED
  BY <1>3, <1>4, <1>5, <1>6, <1>7, <1>8, <1>9, <1>10, WorkStep

LEMMA FinishStep ==
  ASSUME PoolAssumption, Orderly, NEW i \in Workers, Finish(i)
  PROVE  Orderly'
<1>0. TypeOK /\ Calm /\ Entry(i)
  BY DEF Orderly
<1>1. /\ worker' \in [Workers -> Working]
      /\ worker[i].pc = "run" /\ worker'[i].pc = "reply" /\ worker'[i].task = worker[i].task
      /\ \A j \in Workers \ {i} : worker'[j] = worker[j]
  BY Basics, WorkerMoves DEF Finish, WorkerAt, WorkerPcs
<1>2. PICK c \in Threads :
         /\ c = caller[i] /\ Waiting(c) /\ Holding(c) /\ asker[c].at = i /\ it[i] = Kind(c)
         /\ Pending(c, i) \/ UnderWay(c, i)
         /\ Told(c)
         /\ \A u \in Threads : Holding(u) /\ asker[u].at = i => u = c
  BY <1>1, Owner
<1>3. asker' = asker /\ lock' = lock
  BY DEF Finish, pool, msgs, admin, sides, past
<1>4. TypeOK'
  BY <1>0, <1>1, <1>3, SMTT(30) DEF TypeOK, Working, Finish, pool, msgs, admin, sides, past
<1>5. Calm'
  <2>1. \A j \in Workers : worker'[j].pc \in {"loop", "run", "reply", "end", "free", "release", "wait"}
    BY <1>0, <1>1 DEF Calm
  <2>2. it' = it /\ queue' = queue
    BY DEF Finish, pool, msgs, admin, sides, past
  <2>. QED
    BY <1>0, <2>1, <2>2, Zenon DEF Calm, Finish, pool, msgs, admin, sides, past
<1>6. \A j \in Workers \ {i} : EntrySame(j)
  BY <1>0, <1>1, SMT DEF TypeOK, EntrySame, Finish, pool, msgs, admin, sides, past
<1>7. \A u \in Threads : IF Holding(u) /\ asker[u].at = i THEN Owning(u)' /\ Told(u)'
                          ELSE ThreadSame(u)
  <2>1. Owning(c)' /\ Told(c)'
    BY <1>0, <1>1, <1>2, <1>3, SMT DEF TypeOK, Owning, Told, Holding, Waiting, Filling,
                AskerAt, Kind, Pending, UnderWay, WorkerAt, Finish, pool, msgs, admin, sides,
                past
  <2>2. \A u \in Threads : u # c => ThreadSame(u)
    BY <1>0, <1>2, <1>3, SMT DEF TypeOK, ThreadSame, Told, Finish, pool, msgs, admin, sides, past
  <2>. QED
    BY <1>2, <2>1, <2>2
<1>8. \A j \in Workers : it[j] = "idle" => it'[j] = "idle"
  BY <1>0, SMT DEF TypeOK, Finish, pool, msgs, admin, sides, past
<1>9. Entry(i)'
  BY <1>0, <1>1, <1>2, <1>3, SMT DEF TypeOK, Entry, Owning, Told, Holding, Waiting,
              Filling, AskerAt,
                               Kind, Pending, UnderWay, WorkerAt, Finish, pool, msgs, admin, sides, past
<1>10. Counted'
  <2>1. Releasing' = Releasing
    BY <1>1, SMT DEF Releasing, WorkerAt
  <2>2. Held' = Held /\ Idle' = Idle /\ sem' = sem
    BY <1>3 DEF Finish, Held, Idle, pool, msgs, admin, sides, past
  <2>. QED
    BY <2>1, <2>2, Basics DEF Counted
<1>. QED
  BY <1>3, <1>4, <1>5, <1>6, <1>7, <1>8, <1>9, <1>10, WorkStep

LEMMA ReplyStep ==
  ASSUME PoolAssumption, Orderly, NEW i \in Workers, Reply(i)
  PROVE  Orderly'
<1>0. TypeOK /\ Calm /\ Entry(i)
  BY DEF Orderly
<1>1. /\ worker' \in [Workers -> Working]
      /\ worker[i].pc = "reply" /\ worker'[i].pc = "end" /\ worker'[i].task = worker[i].task
      /\ \A j \in Workers \ {i} : worker'[j] = worker[j]
  BY Basics, WorkerMoves DEF Reply, WorkerAt, WorkerPcs
<1>2. PICK c \in Threads :
         /\ c = caller[i] /\ Waiting(c) /\ Holding(c) /\ asker[c].at = i /\ it[i] = Kind(c)
         /\ Pending(c, i) \/ UnderWay(c, i)
         /\ Told(c)
         /\ \A u \in Threads : Holding(u) /\ asker[u].at = i => u = c
  BY <1>1, Owner
<1>3. asker' = asker /\ lock' = lock
  BY DEF Reply, pool, msgs, admin, sides, past
<1>4. TypeOK'
  <2>1. answered' \in [Threads -> BOOLEAN]
    BY <1>0, <1>2, Zenon DEF TypeOK, Reply
  <2>. QED
    BY <1>0, <1>1, <1>3, <2>1, SMTT(30) DEF TypeOK, Working, Reply, pool, msgs, admin, sides, past
<1>5. Calm'
  <2>1. \A j \in Workers : worker'[j].pc \in {"loop", "run", "reply", "end", "free", "release", "wait"}
    BY <1>0, <1>1 DEF Calm
  <2>2. it' = it /\ queue' = queue
    BY DEF Reply, pool, msgs, admin, sides, past
  <2>. QED
    BY <1>0, <2>1, <2>2, Zenon DEF Calm, Reply, pool, msgs, admin, sides, past
<1>6. \A j \in Workers \ {i} : EntrySame(j)
  BY <1>0, <1>1, SMT DEF TypeOK, EntrySame, Reply, pool, msgs, admin, sides, past
<1>7. \A u \in Threads : IF Holding(u) /\ asker[u].at = i THEN Owning(u)' /\ Told(u)'
                          ELSE ThreadSame(u)
  <2>1. Owning(c)' /\ Told(c)'
    BY <1>0, <1>1, <1>2, <1>3, SMT DEF TypeOK, Owning, Told, Holding, Waiting, Filling,
                AskerAt, Kind, Pending, UnderWay, WorkerAt, Reply, pool, msgs, admin, sides,
                past
  <2>2. \A u \in Threads : u # c => ThreadSame(u)
    BY <1>0, <1>2, <1>3, SMT DEF TypeOK, ThreadSame, Told, Reply, pool, msgs, admin, sides, past
  <2>. QED
    BY <1>2, <2>1, <2>2
<1>8. \A j \in Workers : it[j] = "idle" => it'[j] = "idle"
  BY <1>0, SMT DEF TypeOK, Reply, pool, msgs, admin, sides, past
<1>9. Entry(i)'
  BY <1>0, <1>1, <1>2, <1>3, SMT DEF TypeOK, Entry, Owning, Told, Holding, Waiting,
              Filling, AskerAt,
                               Kind, Pending, UnderWay, WorkerAt, Reply, pool, msgs, admin, sides, past
<1>10. Counted'
  <2>1. Releasing' = Releasing
    BY <1>1, SMT DEF Releasing, WorkerAt
  <2>2. Held' = Held /\ Idle' = Idle /\ sem' = sem
    BY <1>3 DEF Reply, Held, Idle, pool, msgs, admin, sides, past
  <2>. QED
    BY <2>1, <2>2, Basics DEF Counted
<1>. QED
  BY <1>3, <1>4, <1>5, <1>6, <1>7, <1>8, <1>9, <1>10, WorkStep

LEMMA PostEndStep ==
  ASSUME PoolAssumption, Orderly, NEW i \in Workers, PostEnd(i)
  PROVE  Orderly'
<1>0. TypeOK /\ Calm /\ Entry(i)
  BY DEF Orderly
<1>1. /\ worker' \in [Workers -> Working]
      /\ worker[i].pc = "end" /\ worker'[i].pc = "free" /\ worker'[i].task = worker[i].task
      /\ \A j \in Workers \ {i} : worker'[j] = worker[j]
  BY Basics, WorkerMoves DEF PostEnd, WorkerAt, WorkerPcs
<1>2. PICK c \in Threads :
         /\ c = caller[i] /\ Waiting(c) /\ Holding(c) /\ asker[c].at = i /\ it[i] = Kind(c)
         /\ Pending(c, i) \/ UnderWay(c, i)
         /\ Told(c)
         /\ \A u \in Threads : Holding(u) /\ asker[u].at = i => u = c
  BY <1>1, Owner
<1>3. asker' = asker /\ lock' = lock
  BY DEF PostEnd, pool, msgs, admin, sides, past
<1>4. TypeOK'
  <2>1. worker[i].task \in Tasks
    BY <1>1, <1>2, Basics, SMT DEF UnderWay, Pending, WorkerAt, Told, Waiting, AskerAt,
                Asking
  <2>2. ends' = [ends EXCEPT ![c] = <<worker[i].task>>]
    BY <1>0, <1>2, SMT DEF PostEnd, TypeOK, Calm, Waiting, Threads
  <2>3. ends' \in [Threads -> Seq(Tasks)]
    BY <1>0, <2>1, <2>2, SMT DEF TypeOK
  <2>4. queue' \in [Workers -> BOOLEAN]
    BY <1>0, SMT DEF TypeOK, PostEnd
  <2>. QED
    BY <1>0, <1>1, <2>3, <2>4, Zenon DEF TypeOK, Working, PostEnd, pool, msgs, admin, sides, past
<1>5. Calm'
  <2>1. \A j \in Workers : worker'[j].pc \in {"loop", "run", "reply", "end", "free", "release", "wait"}
    BY <1>0, <1>1 DEF Calm
  <2>2. it' = it /\ \A j \in Workers : queue'[j]
    BY <1>0, SMT DEF Calm, TypeOK, PostEnd, pool
  <2>. QED
    BY <1>0, <2>1, <2>2, Zenon DEF Calm, PostEnd, pool, msgs, admin, sides, past
<1>6. \A j \in Workers \ {i} : EntrySame(j)
  BY <1>0, <1>1, SMT DEF TypeOK, EntrySame, PostEnd, pool, msgs, admin, sides, past
<1>7. \A u \in Threads : IF Holding(u) /\ asker[u].at = i THEN Owning(u)' /\ Told(u)'
                          ELSE ThreadSame(u)
  <2>1. Owning(c)' /\ Told(c)'
    <3>1. ends'[c] = <<asker[c].task>>
      BY <1>0, <1>1, <1>2, SMTT(30) DEF PostEnd, TypeOK, Calm, Waiting, Threads, Pending,
                  UnderWay, WorkerAt
    <3>2. begun[c] = 1 /\ (c \in Callers => answered[c]) /\ begun' = begun /\ answered' = answered
      BY <1>1, <1>2, SMT DEF UnderWay, Pending, WorkerAt, PostEnd, past
    <3>3. Told(c)'
      BY <1>2, <1>3, <3>1, <3>2, SMT DEF Told, Waiting, AskerAt
    <3>4. Owning(c)'
      BY <1>2, <1>3, <3>1, SMT DEF Owning, Holding, Filling, Waiting, AskerAt
    <3>. QED
      BY <3>3, <3>4
  <2>2. \A u \in Threads : u # c => ThreadSame(u)
    BY <1>0, <1>2, <1>3, SMT DEF TypeOK, ThreadSame, Told, PostEnd, pool, msgs, admin, sides, past
  <2>. QED
    BY <1>2, <2>1, <2>2
<1>8. \A j \in Workers : it[j] = "idle" => it'[j] = "idle"
  BY <1>0, SMT DEF TypeOK, PostEnd, pool, msgs, admin, sides, past
<1>9. Entry(i)'
  BY <1>0, <1>1, <1>2, <1>3, SMT DEF TypeOK, Entry, Owning, Told, Holding, Waiting,
              Filling, AskerAt,
                               Kind, Pending, UnderWay, WorkerAt, PostEnd, pool, msgs, admin, sides, past
<1>10. Counted'
  <2>1. Releasing' = Releasing
    BY <1>1, SMT DEF Releasing, WorkerAt
  <2>2. Held' = Held /\ Idle' = Idle /\ sem' = sem
    BY <1>3 DEF PostEnd, Held, Idle, pool, msgs, admin, sides, past
  <2>. QED
    BY <2>1, <2>2, Basics DEF Counted
<1>. QED
  BY <1>3, <1>4, <1>5, <1>6, <1>7, <1>8, <1>9, <1>10, WorkStep

LEMMA TakeStartStep ==
  ASSUME PoolAssumption, Orderly, NEW i \in Workers, TakeStart(i)
  PROVE  Orderly'
<1>0. TypeOK /\ Calm /\ Entry(i)
  BY DEF Orderly
<1>1. /\ worker' \in [Workers -> Working]
      /\ worker[i].pc = "wait" /\ worker'[i].pc = "loop" /\ worker'[i].task = worker[i].task
      /\ \A j \in Workers \ {i} : worker'[j] = worker[j]
  BY Basics, WorkerMoves DEF TakeStart, WorkerAt, WorkerPcs
<1>2. PICK c \in Threads :
         /\ c = caller[i] /\ Waiting(c) /\ Holding(c) /\ asker[c].at = i /\ it[i] = Kind(c)
         /\ Pending(c, i) \/ UnderWay(c, i)
         /\ Told(c)
         /\ \A u \in Threads : Holding(u) /\ asker[u].at = i => u = c
  BY Owner DEF TakeStart
<1>3. asker' = asker /\ lock' = lock
  BY DEF TakeStart, pool, msgs, admin, sides, past
<1>4. TypeOK'
  BY <1>0, <1>1, <1>3, SMTT(30) DEF TypeOK, Working, TakeStart, pool, msgs, admin, sides, past
<1>5. Calm'
  <2>1. \A j \in Workers : worker'[j].pc \in {"loop", "run", "reply", "end", "free", "release", "wait"}
    BY <1>0, <1>1 DEF Calm
  <2>2. it' = it /\ queue' = queue
    BY DEF TakeStart, pool, msgs, admin, sides, past
  <2>. QED
    BY <1>0, <2>1, <2>2, Zenon DEF Calm, TakeStart, pool, msgs, admin, sides, past
<1>6. \A j \in Workers \ {i} : EntrySame(j)
  BY <1>0, <1>1, SMT DEF TypeOK, EntrySame, TakeStart, pool, msgs, admin, sides, past
<1>7. \A u \in Threads : IF Holding(u) /\ asker[u].at = i THEN Owning(u)' /\ Told(u)'
                          ELSE ThreadSame(u)
  <2>1. Owning(c)' /\ Told(c)'
    BY <1>0, <1>1, <1>2, <1>3, SMT DEF TypeOK, Owning, Told, Holding, Waiting, Filling,
                AskerAt, Kind, Pending, UnderWay, WorkerAt, TakeStart, pool, msgs,
                admin, sides, past
  <2>2. \A u \in Threads : u # c => ThreadSame(u)
    BY <1>0, <1>2, <1>3, SMT DEF TypeOK, ThreadSame, Told, TakeStart, pool, msgs,
                admin, sides, past
  <2>. QED
    BY <1>2, <2>1, <2>2
<1>8. \A j \in Workers : it[j] = "idle" => it'[j] = "idle"
  BY <1>0, SMT DEF TypeOK, TakeStart, pool, msgs, admin, sides, past
<1>9. Entry(i)'
  BY <1>0, <1>1, <1>2, <1>3, SMT DEF TypeOK, Entry, Owning, Told, Holding, Waiting,
              Filling, AskerAt,
                               Kind, Pending, UnderWay, WorkerAt, TakeStart, pool, msgs, admin, sides, past
<1>10. Counted'
  <2>1. Releasing' = Releasing
    BY <1>1, SMT DEF Releasing, WorkerAt
  <2>2. Held' = Held /\ Idle' = Idle /\ sem' = sem
    BY <1>3 DEF TakeStart, Held, Idle, pool, msgs, admin, sides, past
  <2>. QED
    BY <2>1, <2>2, Basics DEF Counted
<1>. QED
  BY <1>3, <1>4, <1>5, <1>6, <1>7, <1>8, <1>9, <1>10, WorkStep

LEMMA FreeEntryStep ==
  ASSUME PoolAssumption, Orderly, NEW i \in Workers, FreeEntry(i)
  PROVE  Orderly'
<1>0. TypeOK /\ Calm /\ Entry(i)
  BY DEF Orderly
<1>1. /\ worker' \in [Workers -> Working]
      /\ worker[i].pc = "free" /\ worker'[i].pc = "release" /\ worker'[i].task = worker[i].task
      /\ \A j \in Workers \ {i} : worker'[j] = worker[j]
  BY Basics, WorkerMoves DEF FreeEntry, WorkerAt, WorkerPcs
<1>3. asker' = asker /\ lock' = lock
  BY DEF FreeEntry, pool, msgs, admin, sides, past
<1>4. TypeOK'
  BY <1>0, <1>1, <1>3, SMTT(30) DEF TypeOK, Working, FreeEntry, pool, msgs, admin, sides, past
<1>5. Calm'
  <2>1. \A j \in Workers : worker'[j].pc \in {"loop", "run", "reply", "end", "free", "release", "wait"}
    BY <1>0, <1>1 DEF Calm
  <2>2. queue' = queue /\ \A j \in Workers : it'[j] \in {"idle", "top", "inner"}
    BY <1>0, SMT DEF Calm, TypeOK, FreeEntry, msgs
  <2>. QED
    BY <1>0, <2>1, <2>2, Zenon DEF Calm, FreeEntry, pool, msgs, admin, sides, past
<1>6. \A j \in Workers \ {i} : EntrySame(j)
  BY <1>0, <1>1, SMT DEF TypeOK, EntrySame, FreeEntry, pool, msgs, admin, sides, past
<1>7. \A u \in Threads : IF Holding(u) /\ asker[u].at = i THEN Owning(u)' /\ Told(u)'
                          ELSE ThreadSame(u)
  <2>1. \A u \in Threads : ThreadSame(u)
    BY <1>3 DEF ThreadSame, FreeEntry, pool, msgs, admin, sides, past
  <2>2. ASSUME NEW u \in Threads, Holding(u), asker[u].at = i PROVE Owning(u)' /\ Told(u)'
    <3>1. Owning(u) /\ Told(u)
      BY DEF Orderly
    <3>. QED
      BY <1>0, <1>1, <1>3, <2>1, <2>2, <3>1, SMT DEF ThreadSame, Owning, Told, Holding,
                  Waiting, Filling, AskerAt, Kind, Pending, UnderWay, WorkerAt,
                  FreeEntry, pool, msgs, admin, sides, past
  <2>. QED
    BY <2>1, <2>2
<1>8. \A j \in Workers : it[j] = "idle" => it'[j] = "idle"
  BY <1>0, SMT DEF TypeOK, FreeEntry, pool, msgs, admin, sides, past
<1>9. Entry(i)'
  BY <1>0, <1>1, <1>3, SMT DEF TypeOK, Entry, Waiting, AskerAt, WorkerAt, FreeEntry,
              pool, msgs, admin, sides, past
<1>10. Counted'
  <2>1. Releasing' = Releasing \cup {i} /\ i \notin Releasing
    BY <1>1, SMT DEF Releasing, WorkerAt
  <2>2. it[i] # "idle"
    BY <1>0, <1>1 DEF Entry
  <2>3. Idle' = Idle \cup {i} /\ i \notin Idle
    BY <1>0, <2>2, SMT DEF Idle, TypeOK, FreeEntry
  <2>4. Held' = Held /\ sem' = sem
    BY <1>3 DEF FreeEntry, Held
  <2>5. Cardinality(Releasing') = Cardinality(Releasing) + 1
    BY <2>1, Basics, FS_AddElement, Zenon
  <2>6. Cardinality(Idle') = Cardinality(Idle) + 1
    BY <2>3, Basics, FS_AddElement, Zenon
  <2>. QED
    BY <2>4, <2>5, <2>6, Basics, SMT DEF Counted
<1>. QED
  BY <1>3, <1>4, <1>5, <1>6, <1>7, <1>8, <1>9, <1>10, WorkStep

LEMMA ReleaseStep ==
  ASSUME PoolAssumption, Orderly, NEW i \in Workers, Release(i)
  PROVE  Orderly'
<1>0. TypeOK /\ Calm /\ Entry(i)
  BY DEF Orderly
<1>1. /\ worker' \in [Workers -> Working]
      /\ worker[i].pc = "release" /\ worker'[i].pc = "wait"
      /\ \A j \in Workers \ {i} : worker'[j] = worker[j]
  <2>. DEFINE g == [worker EXCEPT ![i].pc = "wait"]
              w == [g[i] EXCEPT !.task = None]
  <2>1. /\ g \in [Workers -> Working] /\ g[i].pc = "wait"
        /\ \A j \in Workers \ {i} : g[j] = worker[j]
    BY Basics, SMT DEF Working, WorkerPcs
  <2>2. worker' = [g EXCEPT ![i] = w]
    BY Zenon DEF Release
  <2>. HIDE DEF g
  <2>3. w \in Working /\ w.pc = "wait"
    BY <2>1, SMT DEF Working
  <2>4. worker[i].pc = "release"
    BY DEF Release, WorkerAt
  <2>. HIDE DEF w
  <2>. QED
    BY <2>1, <2>2, <2>3, <2>4, SMT
<1>3. asker' = asker /\ lock' = lock
  BY DEF Release, pool, msgs, admin, sides, past
<1>4. TypeOK'
  <2>1. sem' \in 0 .. N
    BY Basics, SMT DEF Release
  <2>. QED
    BY <1>0, <1>1, <1>3, <2>1, Zenon DEF TypeOK, Working, Release, pool, msgs, admin, sides, past
<1>5. Calm'
  <2>1. \A j \in Workers : worker'[j].pc \in {"loop", "run", "reply", "end", "free", "release", "wait"}
    BY <1>0, <1>1 DEF Calm
  <2>2. it' = it /\ queue' = queue
    BY DEF Release, pool, msgs, admin, sides, past
  <2>. QED
    BY <1>0, <2>1, <2>2, Zenon DEF Calm, Release, pool, msgs, admin, sides, past
<1>6. \A j \in Workers \ {i} : EntrySame(j)
  BY <1>0, <1>1, SMT DEF TypeOK, EntrySame, Release, pool, msgs, admin, sides, past
<1>7. \A u \in Threads : IF Holding(u) /\ asker[u].at = i THEN Owning(u)' /\ Told(u)'
                          ELSE ThreadSame(u)
  <2>1. \A u \in Threads : ThreadSame(u)
    BY <1>3 DEF ThreadSame, Release, pool, msgs, admin, sides, past
  <2>2. ASSUME NEW u \in Threads, Holding(u), asker[u].at = i PROVE Owning(u)' /\ Told(u)'
    <3>1. Owning(u) /\ Told(u)
      BY DEF Orderly
    <3>. QED
      BY <1>0, <1>1, <1>3, <2>1, <2>2, <3>1, SMT DEF ThreadSame, Owning, Told, Holding,
                  Waiting, Filling, AskerAt, Kind, Pending, UnderWay, WorkerAt,
                  Release, pool, msgs, admin, sides, past
  <2>. QED
    BY <2>1, <2>2
<1>8. \A j \in Workers : it[j] = "idle" => it'[j] = "idle"
  BY <1>0, SMT DEF TypeOK, Release, pool, msgs, admin, sides, past
<1>9. Entry(i)'
  BY <1>0, <1>1, <1>3, SMT DEF TypeOK, Entry, Waiting, AskerAt, WorkerAt, Release,
              pool, msgs, admin, sides, past
<1>10. Counted'
  <2>1. Releasing' = Releasing \ {i} /\ i \in Releasing
    BY <1>1, SMT DEF Releasing, WorkerAt
  <2>2. Held' = Held /\ Idle' = Idle
    BY <1>3 DEF Release, Held, Idle
  <2>3. Cardinality(Releasing') = Cardinality(Releasing) - 1
    BY <2>1, Basics, FS_RemoveElement, Zenon
  <2>4. Cardinality(Releasing) # 0
    BY <2>1, Basics, FS_EmptySet
  <2>5. sem < N
    BY <2>4, Basics, SMT DEF Counted
  <2>. QED
    BY <2>2, <2>3, <2>5, Basics, SMT DEF Counted, Release
<1>. QED
  BY <1>3, <1>4, <1>5, <1>6, <1>7, <1>8, <1>9, <1>10, WorkStep

(* What a worker does only when it was replaced or is to stop, or without a *)
(* task.                                                                    *)
LEMMA NeverWhenCalm ==
  ASSUME PoolAssumption, Orderly, NEW i \in Workers
  PROVE  ~Boot(i) /\ ~Stop(i) /\ ~OpenQueue(i) /\ ~SkipTask(i)
<1>1. ~Boot(i) /\ ~Stop(i) /\ ~OpenQueue(i)
  BY SMT DEF Orderly, Calm, Boot, Stop, OpenQueue, WorkerAt
<1>2. ~SkipTask(i)
  <2>. SUFFICES ASSUME SkipTask(i) PROVE FALSE
    OBVIOUS
  <2>1. worker[i].pc = "loop" /\ file[i] = None
    BY DEF SkipTask, WorkerAt
  <2>2. file[i] = asker[caller[i]].task /\ asker[caller[i]].task # None
    BY <2>1, Owner, SMT DEF Pending, UnderWay, WorkerAt, Told, Waiting, AskerAt
  <2>. QED
    BY <2>1, <2>2
<1>. QED
  BY <1>1, <1>2

-----------------------------------------------------------------------------
(* The theorems.                                                            *)

LEMMA InitOrderly ==
  ASSUME PoolAssumption, Init
  PROVE  PoolInv
<1>. SUFFICES ASSUME late = {} PROVE PoolInv
  BY SMT DEF Init, PoolInv, Disturbed, PoolAssumption
<1>1. TypeOK
  <2>1. Resting \in Asking
    BY SMT DEF Resting, Asking, AskerPcs, PoolAssumption
  <2>2. [pc |-> "wait", task |-> None, nested |-> FALSE] \in Working
    BY ZenonT(30) DEF Working, WorkerPcs
  <2>3. asker \in [Threads -> Asking] /\ worker \in [Workers -> Working]
    BY <2>1, <2>2, Zenon DEF Init
  <2>4. sem \in 0 .. N /\ 0 \in 0 .. MaxKills /\ 0 \in Workers /\ 0 \in 0 .. N /\ 0 \in 0 .. 2
    BY SMT DEF Init, PoolAssumption, Workers
  <2>5. starts \in [Workers -> Nat] /\ ends \in [Threads -> Seq(Tasks)]
        /\ begun \in [Threads -> 0 .. 2] /\ kills \in 0 .. MaxKills
    BY <2>4, SMT DEF Init
  <2>6. /\ idler \in [pc : {"off", "killed", "restarted"}, at : Workers]
        /\ detach \in [pc : {"off", "mark", "clear", "post", "wait", "done"}, at : 0 .. N]
    BY <2>4, SMT DEF Init
  <2>7. /\ it \in [Workers -> {"start", "idle", "stop", "top", "inner"}]
        /\ lock \in Threads \cup {None, N} /\ caller \in [Workers -> Threads \cup {None}]
        /\ file \in [Workers -> Tasks \cup {None}] /\ queue \in [Workers -> BOOLEAN]
        /\ answered \in [Threads -> BOOLEAN] /\ deaf \subseteq Callers /\ late \subseteq Workers
    BY Zenon DEF Init
  <2>. QED
    BY <2>3, <2>4, <2>5, <2>6, <2>7, Zenon DEF TypeOK, Asking, Working
<1>2. Calm
  <2>1. \A i \in Workers : i \notin late /\ worker[i].pc = "wait"
    BY SMT DEF Init
  <2>2. \A i \in Workers : queue[i]
    BY <2>1, Zenon DEF Init
  <2>3. idler.pc = "off" /\ \A i \in Workers : it[i] = "idle"
    BY SMT DEF Init
  <2>. QED
    BY <2>1, <2>2, <2>3 DEF Calm
<1>3. UnitsCounted
  <2>1. Idle = Workers
    BY DEF Idle, Init
  <2>2. {t \in Threads : asker[t].pc \in {"enter", "scan", "claim"}} = {}
        /\ {i \in Workers : WorkerAt(i, "release")} = {}
        /\ \A t \in Threads : ~AskerAt(t, "scan")
    BY SMT DEF Init, Resting, WorkerAt, AskerAt
  <2>3. Cardinality(Workers) = N
    <3>1. N \in Nat \ {0}
      BY DEF PoolAssumption
    <3>2. N - 1 \in Int /\ 0 \in Int /\ ~(0 > N - 1) /\ (N - 1) - 0 + 1 = N
      BY <3>1, SMT
    <3>. QED
      BY <3>2, FS_Interval, Zenon DEF Workers
  <2>4. Cardinality({}) = 0 /\ sem = N /\ N \in Nat
    BY FS_EmptySet DEF Init, PoolAssumption
  <2>5. sem + 0 + 0 = N
    BY <2>4, SMT
  <2>. QED
    BY <2>1, <2>2, <2>3, <2>4, <2>5, Zenon DEF UnitsCounted
<1>4. \A i \in Workers : Entry(i)
  BY SMT DEF Init, Entry, WorkerAt
<1>5. \A t \in Threads : Seeking(t) /\ Owning(t) /\ Told(t) /\ ~Holding(t)
  BY SMT DEF Init, Resting, Seeking, Owning, Told, Holding, Filling, Waiting, AskerAt
<1>. QED
  BY <1>1, <1>2, <1>3, <1>4, <1>5 DEF PoolInv, Orderly, Alone, Init

(* Whether clients read is not in the order.                                *)
LEMMA OrderKept ==
  ASSUME Orderly, deaf' \subseteq Callers,
         UNCHANGED <<sem, lock, it, caller, file, asker, worker, starts, ends, queue,
                     idler, kills, detach, late, begun, answered>>
  PROVE  Orderly'
<1>1. TypeOK'
  BY Zenon DEF TypeOK, Orderly
<1>2. Calm'
  BY Zenon DEF Calm, Orderly
<1>3. UnitsCounted'
  BY Zenon DEF UnitsCounted, Idle, AskerAt, WorkerAt, Orderly
<1>4. ASSUME NEW i \in Workers, Entry(i) PROVE Entry(i)'
  BY <1>4 DEF Entry, Waiting, AskerAt, WorkerAt
<1>5. ASSUME NEW t \in Threads
      PROVE  /\ Holding(t)' <=> Holding(t)
             /\ (Seeking(t) => Seeking(t)') /\ (Owning(t) => Owning(t)') /\ (Told(t) => Told(t)')
  <2>1. Holding(t)' <=> Holding(t)
    BY DEF Holding, Filling, Waiting, AskerAt
  <2>2. Seeking(t) => Seeking(t)'
    BY DEF Seeking, AskerAt
  <2>3. Owning(t) => Owning(t)'
    BY DEF Owning, Holding, Filling, Waiting, AskerAt, WorkerAt, Kind, Pending, UnderWay
  <2>4. Told(t) => Told(t)'
    BY DEF Told, AskerAt
  <2>. QED
    BY <2>1, <2>2, <2>3, <2>4
<1>6. ASSUME NEW t \in Threads, NEW u \in Threads, Alone(t, u) PROVE Alone(t, u)'
  BY <1>5, <1>6 DEF Alone
<1>. QED
  BY <1>1, <1>2, <1>3, <1>4, <1>5, <1>6 DEF Orderly

(* Each step keeps the order, or disturbs it.                               *)
LEMMA StepOrderly ==
  ASSUME PoolAssumption, PoolInv, [Next]_vars
  PROVE  PoolInv'
<1>1. CASE UNCHANGED vars \/ \E c \in Callers : StopReading(c)
  <2>1. UNCHANGED <<sem, lock, it, caller, file, asker, worker, starts, ends, queue,
                    idler, kills, detach, late, begun, answered>>
    BY <1>1, Zenon DEF vars, StopReading, pool, msgs, past
  <2>2. Orderly => deaf' \subseteq Callers
    BY <1>1, SMT DEF vars, StopReading, Orderly, TypeOK
  <2>3. Orderly => Orderly'
    BY <2>1, <2>2, OrderKept
  <2>. QED
    BY <2>1, <2>3 DEF PoolInv, Disturbed
<1>2. CASE \E t \in Threads : Ask(t)
  <2>1. UNCHANGED <<kills, detach, late>>
    BY <1>2, Zenon DEF Ask, Call, AcquireUnit, EnterScan, ScanEntry, NoIdleEntry,
                FindEntry, Claim, FillEntry,
                PublishTask, PostStart, TakeEnd, admin, sides
  <2>2. CASE Orderly
    BY <1>2, <2>1, <2>2, CallStep, AcquireUnitStep, EnterScanStep, ScanEntryStep, NoIdleEntryNever, FindEntryStep,
       ClaimStep, FillEntryStep, PublishTaskStep, PostStartStep, TakeEndStep DEF Ask, PoolInv
  <2>. QED
    BY <2>1, <2>2 DEF PoolInv, Disturbed
<1>3. CASE \E i \in Workers : Work(i)
  <2>1. UNCHANGED <<kills, detach, late>>
    BY <1>3, Zenon DEF Work, Boot, Stop, Begin, SkipTask, Finish, Reply, PostEnd,
                FreeEntry, Release, OpenQueue,
                TakeStart, admin, sides
  <2>2. CASE Orderly
    BY <1>3, <2>1, <2>2, NeverWhenCalm, BeginStep, FinishStep, ReplyStep, PostEndStep, FreeEntryStep,
       ReleaseStep, TakeStartStep DEF Work, PoolInv
  <2>. QED
    BY <2>1, <2>2 DEF PoolInv, Disturbed
<1>4. CASE \E i \in Workers : AsqlIdle(i)
  <2>. PICK i \in Workers : AsqlIdle(i)
    BY <1>4
  <2>1. CASE Terminate(i)
    BY <2>1, SMT DEF Terminate, PoolInv, Disturbed
  <2>2. CASE Restart(i) \/ Restarted(i)
    <3>1. ~Orderly
      BY <2>2, SMT DEF Restart, Restarted, Orderly, Calm
    <3>. QED
      BY <2>2, <3>1 DEF Restart, Restarted, PoolInv, Disturbed, sides
  <2>. QED
    BY <2>1, <2>2 DEF AsqlIdle
<1>5. CASE (\E i \in Workers : Detach(i)) \/ DetachStart
  BY <1>5, SMT DEF Detach, DetachMark, DetachClear, DetachPost, DetachNext,
              DetachStart, PoolInv, Disturbed, sides
<1>. QED
  BY <1>1, <1>2, <1>3, <1>4, <1>5 DEF Next

(* Until it is disturbed, the pool is in order.                             *)
THEOREM PoolInOrder == Spec => []PoolInv
<1>. USE PoolAssumption
<1>1. Init => PoolInv
  BY InitOrderly
<1>2. PoolInv /\ [Next]_vars => PoolInv'
  BY StepOrderly
<1>. QED
  BY <1>1, <1>2, PTL DEF Spec

(* Between its claim and its message a thread has its entry for itself, for *)
(* any number of clients and workers, however deep scripts call scripts.    *)
THEOREM EntriesOwned == Spec => [](Disturbed \/ EntryOwned)
<1>1. PoolInv => Disturbed \/ EntryOwned
  <2>. SUFFICES ASSUME Orderly PROVE EntryOwned
    BY DEF PoolInv
  <2>. SUFFICES ASSUME NEW t \in Threads, Filling(t), NEW i, i = asker[t].at
                PROVE  /\ \A u \in Threads \ {t} : Filling(u) => asker[u].at # i
                       /\ it[i] = Kind(t)
                       /\ worker[i].pc \in {"release", "wait"} /\ starts[i] = 0
                       /\ IF AskerAt(t, "post")
                          THEN file[i] = asker[t].task /\ caller[i] = t
                          ELSE file[i] = None
    BY Zenon DEF EntryOwned
  <2>1. Holding(t) /\ Owning(t)
    BY DEF Holding, Orderly
  <2>2. \A u \in Threads \ {t} : Filling(u) => asker[u].at # i
    BY <2>1 DEF Orderly, Alone, Holding
  <2>3. ~AskerAt(t, "post") => asker[t].pc \in {"fill", "publish"}
    BY DEF Filling, AskerAt
  <2>4. /\ it[i] = Kind(t) /\ starts[i] = 0 /\ worker[i].pc \in {"release", "wait"}
        /\ asker[t].pc \in {"fill", "publish"} => file[i] = None
    BY <2>1, Zenon DEF Owning
  <2>5. AskerAt(t, "post") => file[i] = asker[t].task /\ caller[i] = t
    BY <2>1 DEF Owning, AskerAt
  <2>. QED
    BY <2>2, <2>3, <2>4, <2>5
<1>. QED
  BY <1>1, PoolInOrder, PTL

(* A thread is told of one end, of its own task, which was begun once and   *)
(* whose client has its answer.                                             *)
THEOREM EndsAreOwn == Spec => [](Disturbed \/ EndIsOwn)
<1>1. PoolInv => Disturbed \/ EndIsOwn
  <2>. SUFFICES ASSUME Orderly, NEW t \in Threads
                PROVE  /\ begun[t] <= 1
                       /\ Len(ends[t]) <= 1
                       /\ ends[t] # <<>> =>
                            /\ Head(ends[t]) = asker[t].task
                            /\ begun[t] = 1
                            /\ t \in Callers => answered[t]
    BY DEF PoolInv, EndIsOwn
  <2>1. Told(t)
    BY DEF Orderly
  <2>2. CASE ends[t] = <<>>
    <3>1. Len(ends[t]) = 0
      BY <2>2
    <3>. QED
      BY <2>1, <2>2, <3>1, SMT DEF Told
  <2>3. CASE ends[t] # <<>>
    <3>1. ends[t] = <<asker[t].task>>
      BY <2>1, <2>3 DEF Told
    <3>2. Len(ends[t]) = 1 /\ Head(ends[t]) = asker[t].task
      BY <3>1, SMT
    <3>. QED
      BY <2>1, <2>3, <3>2, SMT DEF Told
  <2>. QED
    BY <2>2, <2>3
<1>. QED
  BY <1>1, PoolInOrder, PTL

(* A thread with a unit of the semaphore finds an idle entry: the branch    *)
(* for the case that there is none is never taken.                          *)
THEOREM UnitsMatch == Spec => [](Disturbed \/ UnitsCounted)
<1>1. PoolInv => Disturbed \/ UnitsCounted
  BY DEF PoolInv, Orderly
<1>. QED
  BY <1>1, PoolInOrder, PTL

(* Every variable keeps its type.                                           *)
THEOREM PoolTypeCorrect == Spec => [](Disturbed \/ TypeOK)
<1>1. PoolInv => Disturbed \/ TypeOK
  BY DEF PoolInv, Orderly
<1>. QED
  BY <1>1, PoolInOrder, PTL

-----------------------------------------------------------------------------
(* What the pool can block on.                                              *)

(* Who keeps an entry, and the critical section; and whose scripts call.    *)
LockHeld == lock # None => lock \in Threads /\ asker[lock].pc \in {"scan", "claim"}
Claimed(i) ==
  it[i] # "idle" => WorkerAt(i, "free") \/ \E t \in Threads : Holding(t) /\ asker[t].at = i
Nested(i) ==
  ~AskerAt(i, "out") => /\ WorkerAt(i, "run")
                        /\ asker[i].task.depth > worker[i].task.depth
                        /\ asker[i].task.of = worker[i].task.of
Flow == LockHeld /\ \A i \in Workers : Claimed(i) /\ Nested(i)

(* What a step that passes by leaves alone.                                 *)
LEMMA LockKept ==
  ASSUME LockHeld, lock' = lock,
         \A u \in Threads : asker[u].pc \in {"scan", "claim"} => asker'[u].pc \in {"scan", "claim"}
  PROVE  LockHeld'
BY DEF LockHeld

LEMMA ClaimedKept ==
  ASSUME NEW i \in Workers, Claimed(i), it'[i] \in {it[i], "idle"},
         WorkerAt(i, "free") => WorkerAt(i, "free")',
         \A t \in Threads : Holding(t) /\ asker[t].at = i => Holding(t)' /\ asker'[t].at = i
  PROVE  Claimed(i)'
BY DEF Claimed

LEMMA NestedKept ==
  ASSUME NEW i \in Workers, Nested(i), worker'[i].pc = worker[i].pc,
         worker'[i].task = worker[i].task,
         \/ AskerAt(i, "out")'
         \/ ~AskerAt(i, "out") /\ asker'[i].task = asker[i].task
  PROVE  Nested(i)'
BY DEF Nested, AskerAt, WorkerAt

(* A step of wmtAskQS other than its first and its last.                    *)
LEMMA Within ==
  ASSUME PoolAssumption, Orderly, NEW t \in Threads, Ask(t), ~Call(t), ~TakeEnd(t)
  PROVE  /\ \A u \in Threads \ {t} : asker'[u] = asker[u]
         /\ asker[t].pc # "out" /\ asker'[t].pc # "out" /\ asker'[t].task = asker[t].task
         /\ asker'[t].at = asker[t].at \/ asker[t].pc = "scan"
         /\ worker' = worker /\ ends' = ends
<1>1. worker' = worker /\ ends' = ends
  BY NoIdleEntryNever, Zenon DEF Ask, AcquireUnit, EnterScan, ScanEntry, FindEntry, Claim,
     FillEntry, PublishTask, PostStart, msgs
<1>2. CASE ScanEntry(t)
  BY <1>1, <1>2, Basics, SMT DEF ScanEntry, AskerAt, Asking
<1>3. CASE ~ScanEntry(t)
  <2>1. PICK p \in AskerPcs \ {"out"} : AskerTo(t, p) /\ asker[t].pc # "out"
    BY <1>3, NoIdleEntryNever, SMT DEF Ask, AcquireUnit, EnterScan, FindEntry, Claim,
       FillEntry, PublishTask, PostStart, AskerAt, AskerPcs
  <2>. QED
    BY <1>1, <2>1, Basics, AskerMoves
<1>. QED
  BY <1>2, <1>3

LEMMA AskFlows ==
  ASSUME PoolAssumption, Orderly, Flow, NEW t \in Threads, Ask(t)
  PROVE  Flow'
<1>0. TypeOK /\ asker \in [Threads -> Asking] /\ worker \in [Workers -> Working]
  BY Basics DEF Orderly
<1>1. CASE Call(t)
  <2>1. /\ \A u \in Threads \ {t} : asker'[u] = asker[u]
        /\ asker[t].pc = "out" /\ asker'[t].pc = "acquire"
        /\ asker'[t].task.depth = DepthOf(t) /\ asker'[t].task.of = ClientOf(t)
    BY <1>0, <1>1, SMT DEF Call, AskerAt
  <2>2. lock' = lock /\ it' = it /\ ends' = ends
    BY <1>1 DEF Call, pool, msgs
  <2>3. \A i \in Workers : worker'[i].pc = worker[i].pc /\ worker'[i].task = worker[i].task
    <3>1. CASE t \in Workers
      <4>. DEFINE w == [worker[t] EXCEPT !.nested = TRUE]
      <4>1. worker' = [worker EXCEPT ![t] = w]
        BY <1>1, <3>1, Zenon DEF Call
      <4>2. w.pc = worker[t].pc /\ w.task = worker[t].task
        BY <1>0, <3>1, SMT DEF Working
      <4>. HIDE DEF w
      <4>. QED
        BY <1>0, <3>1, <4>1, <4>2, SMT
    <3>2. CASE t \notin Workers
      BY <1>1, <3>2, Zenon DEF Call
    <3>. QED
      BY <3>1, <3>2
  <2>4. LockHeld'
    BY <2>1, <2>2, LockKept DEF Flow
  <2>5. \A u \in Threads : Holding(u) => Holding(u)' /\ asker'[u].at = asker[u].at
    BY <2>1, <2>2, SMT DEF Holding, Filling, Waiting, AskerAt
  <2>6. \A i \in Workers : Claimed(i)'
    BY <2>2, <2>3, <2>5, ClaimedKept DEF Flow, WorkerAt
  <2>7. ASSUME NEW i \in Workers PROVE Nested(i)'
    <3>1. CASE i = t
      <4>1. WorkerAt(i, "run") /\ DepthOf(i) = worker[i].task.depth + 1
            /\ ClientOf(i) = worker[i].task.of
        <5>1. i \notin Callers
          BY Basics
        <5>. QED
          BY <1>1, <3>1, <5>1, Zenon DEF Call, MayCall, DepthOf, ClientOf, WorkerAt
      <4>2. worker[i].task \in Tasks
        <5>1. caller[i] \in Threads /\ UnderWay(caller[i], i) /\ Told(caller[i])
              /\ Waiting(caller[i])
          BY <4>1, Owner, SMT DEF Pending, WorkerAt
        <5>2. worker[i].task = asker[caller[i]].task /\ asker[caller[i]].task # None
          BY <5>1, SMT DEF UnderWay, Told, Waiting, AskerAt
        <5>. QED
          BY <1>0, <5>1, <5>2, SMT DEF Asking
      <4>3. worker[i].task.depth \in Nat
        BY <4>2, SMT DEF Tasks
      <4>4. asker'[i].task.depth > worker[i].task.depth
        BY <2>1, <3>1, <4>1, <4>3, SMT
      <4>. QED
        BY <2>1, <2>3, <3>1, <4>1, <4>4 DEF Nested, WorkerAt
    <3>2. CASE i # t
      <4>1. i \in Threads /\ asker'[i] = asker[i]
        BY <2>1, <3>2 DEF Threads
      <4>. QED
        BY <2>3, <4>1 DEF Flow, Nested, AskerAt, WorkerAt
    <3>. QED
      BY <3>1, <3>2
  <2>. QED
    BY <2>4, <2>6, <2>7 DEF Flow
<1>2. CASE TakeEnd(t)
  <2>1. /\ \A u \in Threads \ {t} : asker'[u] = asker[u] /\ ends'[u] = ends[u]
        /\ asker[t].pc = "await" /\ asker'[t].pc = "out" /\ ends[t] # <<>>
    BY <1>0, <1>2, SMT DEF TypeOK, TakeEnd, AskerAt
  <2>2. lock' = lock /\ it' = it /\ worker' = worker
    BY <1>2 DEF TakeEnd, pool
  <2>3. LockHeld'
    BY <2>1, <2>2, LockKept DEF Flow
  <2>4. \A u \in Threads : Holding(u) => Holding(u)' /\ asker'[u].at = asker[u].at
    BY <2>1, SMT DEF Holding, Filling, Waiting, AskerAt
  <2>5. \A i \in Workers : Claimed(i)'
    BY <2>2, <2>4, ClaimedKept DEF Flow, WorkerAt
  <2>6. ASSUME NEW i \in Workers PROVE Nested(i)'
    <3>1. i \in Threads
      BY DEF Threads
    <3>2. AskerAt(i, "out")' \/ asker'[i] = asker[i]
      BY <2>1, <3>1 DEF AskerAt
    <3>. QED
      BY <2>2, <3>2 DEF Flow, Nested, AskerAt, WorkerAt
  <2>. QED
    BY <2>3, <2>5, <2>6 DEF Flow
<1>3. CASE ~Call(t) /\ ~TakeEnd(t)
  <2>1. /\ \A u \in Threads \ {t} : asker'[u] = asker[u]
        /\ asker[t].pc # "out" /\ asker'[t].pc # "out" /\ asker'[t].task = asker[t].task
        /\ asker'[t].at = asker[t].at \/ asker[t].pc = "scan"
        /\ worker' = worker /\ ends' = ends
    BY <1>3, Within
  <2>2. \A i \in Workers : Nested(i)'
    <3>. SUFFICES ASSUME NEW i \in Workers PROVE Nested(i)'
      OBVIOUS
    <3>1. i \in Threads
      BY DEF Threads
    <3>2. CASE i = t
      BY <2>1, <3>2, NestedKept DEF Flow, AskerAt
    <3>3. CASE i # t
      BY <2>1, <3>1, <3>3 DEF Flow, Nested, AskerAt, WorkerAt
    <3>. QED
      BY <3>2, <3>3
  <2>3. LockHeld'
    <3>1. CASE EnterScan(t)
      <4>1. lock' = t /\ asker'[t].pc = "scan"
        BY <1>0, <3>1, SMT DEF EnterScan, AskerTo, Asking
      <4>. QED
        BY <4>1 DEF LockHeld
    <3>2. CASE Claim(t)
      BY <3>2 DEF Claim, LockHeld
    <3>3. CASE ~EnterScan(t) /\ ~Claim(t)
      <4>1. lock' = lock
        BY <1>3, <3>3, NoIdleEntryNever, Zenon DEF Ask, AcquireUnit, ScanEntry, FindEntry,
           FillEntry, PublishTask, PostStart, pool
      <4>2. asker[t].pc \in {"scan", "claim"} => asker'[t].pc \in {"scan", "claim"}
        BY <1>0, <1>3, <3>3, NoIdleEntryNever, SMT DEF Ask, AcquireUnit, ScanEntry, FindEntry,
           FillEntry, PublishTask, PostStart, AskerAt, AskerTo, Asking
      <4>. QED
        BY <2>1, <4>1, <4>2, LockKept DEF Flow
    <3>. QED
      BY <3>1, <3>2, <3>3
  <2>4. ASSUME NEW i \in Workers PROVE Claimed(i)'
    <3>1. \A u \in Threads : Holding(u) => Holding(u)' /\ asker'[u].at = asker[u].at
      <4>1. \A u \in Threads \ {t} : Holding(u) => Holding(u)' /\ asker'[u].at = asker[u].at
        BY <2>1 DEF Holding, Filling, Waiting, AskerAt
      <4>2. Holding(t) => Holding(t)' /\ asker'[t].at = asker[t].at
        <5>1. SUFFICES ASSUME Holding(t)
                       PROVE  Holding(t)' /\ asker'[t].at = asker[t].at
          OBVIOUS
        <5>2. asker[t].pc \in {"fill", "publish", "post", "await"}
          BY <5>1 DEF Holding, Filling, Waiting, AskerAt
        <5>3. FillEntry(t) \/ PublishTask(t) \/ PostStart(t)
          BY <1>3, <5>2, SMT DEF Ask, AcquireUnit, EnterScan, ScanEntry, NoIdleEntry,
             FindEntry, Claim, AskerAt
        <5>4. asker'[t].pc \in {"publish", "post", "await"}
          BY <1>0, <5>3, SMT DEF FillEntry, PublishTask, PostStart, AskerTo, Asking
        <5>5. ends'[t] = <<>>
          <6>1. Told(t) /\ ~AskerAt(t, "await")
            BY <5>3 DEF Orderly, FillEntry, PublishTask, PostStart, AskerAt
          <6>. QED
            BY <2>1, <6>1 DEF Told
        <5>. QED
          BY <2>1, <5>2, <5>4, <5>5, SMT DEF Holding, Filling, Waiting, AskerAt
      <4>. QED
        BY <4>1, <4>2
    <3>2. CASE Claim(t) /\ i = asker[t].at
      <4>1. asker'[t].pc = "fill"
        BY <1>0, <3>2, SMT DEF Claim, AskerTo, Asking
      <4>2. asker'[t].at = i
        BY <2>1, <3>2 DEF Claim, AskerAt
      <4>. QED
        BY <4>1, <4>2 DEF Claimed, Holding, Filling
    <3>3. CASE ~(Claim(t) /\ i = asker[t].at)
      <4>1. it'[i] = it[i]
        BY <1>0, <1>3, <3>3, NoIdleEntryNever, SMT DEF TypeOK, Ask, AcquireUnit, EnterScan,
           ScanEntry, FindEntry, Claim, FillEntry, PublishTask, PostStart, pool
      <4>. QED
        BY <2>1, <3>1, <4>1, ClaimedKept DEF Flow, WorkerAt
    <3>. QED
      BY <3>2, <3>3
  <2>. QED
    BY <2>2, <2>3, <2>4 DEF Flow
<1>. QED
  BY <1>1, <1>2, <1>3

LEMMA WorkFlows ==
  ASSUME PoolAssumption, Orderly, Flow, NEW i \in Workers, Work(i)
  PROVE  Flow'
<1>0. TypeOK /\ asker \in [Threads -> Asking] /\ worker \in [Workers -> Working]
  BY Basics DEF Orderly
<1>1. asker' = asker /\ lock' = lock
  BY NeverWhenCalm, Zenon DEF Work, Begin, Finish, Reply, PostEnd, FreeEntry, Release,
              TakeStart, pool
<1>2. \A j \in Workers \ {i} : worker'[j] = worker[j] /\ it'[j] = it[j]
  BY <1>0, NeverWhenCalm, SMT DEF Work, Begin, Finish, Reply, PostEnd, FreeEntry, Release,
              TakeStart, pool, WorkerTo, TypeOK, Working
<1>3. LockHeld'
  BY <1>1, LockKept DEF Flow
<1>4. AskerAt(i, "out")
  BY NeverWhenCalm, SMT DEF Flow, Nested, Work, Begin, Finish, Reply, PostEnd, FreeEntry,
     Release, TakeStart, WorkerAt
<1>5. \A j \in Workers : Nested(j)'
  BY <1>1, <1>2, <1>4 DEF Flow, Nested, AskerAt, WorkerAt
<1>6. ASSUME NEW j \in Workers PROVE Claimed(j)'
  <2>1. CASE PostEnd(i)
    <3>1. worker[i].pc = "end"
      BY <2>1 DEF PostEnd, WorkerAt
    <3>2. caller[i] \in Threads /\ asker[caller[i]].at = i
      BY <3>1, Owner
    <3>3. worker'[i].pc = "free"
      BY <1>0, <2>1, SMT DEF PostEnd, WorkerTo, Working
    <3>4. CASE j = i
      BY <3>3, <3>4 DEF Claimed, WorkerAt
    <3>5. CASE j # i
      <4>1. \A u \in Threads \ {caller[i]} : ends'[u] = ends[u]
        BY <1>0, <2>1, SMT DEF PostEnd, TypeOK
      <4>2. \A u \in Threads : Holding(u) /\ asker[u].at = j => Holding(u)' /\ asker'[u].at = j
        BY <1>1, <3>2, <3>5, <4>1 DEF Holding, Filling, Waiting, AskerAt
      <4>. QED
        BY <1>2, <3>5, <4>2, ClaimedKept DEF Flow, WorkerAt
    <3>. QED
      BY <3>4, <3>5
  <2>2. CASE ~PostEnd(i)
    <3>1. ends' = ends
      BY <2>2, NeverWhenCalm, Zenon DEF Work, Begin, Finish, Reply, FreeEntry, Release,
                  TakeStart, msgs
    <3>2. \A u \in Threads : Holding(u) => Holding(u)' /\ asker'[u].at = asker[u].at
      BY <1>1, <3>1 DEF Holding, Filling, Waiting, AskerAt
    <3>3. CASE j # i
      BY <1>2, <3>2, <3>3, ClaimedKept DEF Flow, WorkerAt
    <3>4. CASE j = i /\ FreeEntry(i)
      <4>1. it'[i] = "idle"
        BY <1>0, <3>4, SMT DEF FreeEntry, TypeOK
      <4>. QED
        BY <3>4, <4>1 DEF Claimed
    <3>5. CASE j = i /\ ~FreeEntry(i)
      <4>1. it' = it /\ ~WorkerAt(i, "free")
        BY <2>2, <3>5, NeverWhenCalm, SMT DEF Work, Begin, Finish, Reply, Release, TakeStart,
           pool, WorkerAt
      <4>. QED
        BY <3>2, <3>5, <4>1, ClaimedKept DEF Flow
    <3>. QED
      BY <3>3, <3>4, <3>5
  <2>. QED
    BY <2>1, <2>2
<1>. QED
  BY <1>3, <1>5, <1>6 DEF Flow

LEMMA FlowNext ==
  ASSUME PoolAssumption, PoolInv, Disturbed \/ Flow, [Next]_vars
  PROVE  Disturbed' \/ Flow'
<1>1. CASE Disturbed
  <2>1. ASSUME UNCHANGED <<kills, detach, late>> PROVE Disturbed'
    BY <1>1, <2>1, Zenon DEF Disturbed
  <2>2. CASE UNCHANGED vars \/ \E c \in Callers : StopReading(c)
    BY <2>1, <2>2, Zenon DEF vars, StopReading
  <2>3. CASE \E t \in Threads : Ask(t)
    BY <2>1, <2>3, Zenon DEF Ask, Call, AcquireUnit, EnterScan, ScanEntry, NoIdleEntry, FindEntry,
       Claim, FillEntry, PublishTask, PostStart, TakeEnd, admin, sides
  <2>4. CASE \E i \in Workers : Work(i)
    BY <2>1, <2>4, Zenon DEF Work, Boot, Stop, Begin, SkipTask, Finish, Reply, PostEnd,
       FreeEntry, Release, OpenQueue, TakeStart, admin, sides
  <2>5. CASE \E i \in Workers : AsqlIdle(i)
    <3>. PICK i \in Workers : AsqlIdle(i)
      BY <2>5
    <3>1. CASE Terminate(i)
      BY <3>1, SMT DEF Terminate, PoolInv, Disturbed
    <3>2. CASE Restart(i) \/ Restarted(i)
      BY <2>1, <3>2, Zenon DEF Restart, Restarted, sides
    <3>. QED
      BY <3>1, <3>2 DEF AsqlIdle
  <2>6. CASE \E i \in Workers : Detach(i)
    BY <1>1, <2>6, SMT DEF Detach, DetachMark, DetachClear, DetachPost, DetachNext,
       Disturbed, sides
  <2>7. CASE DetachStart
    BY <2>7, SMT DEF DetachStart, Disturbed
  <2>. QED
    BY <2>2, <2>3, <2>4, <2>5, <2>6, <2>7 DEF Next
<1>2. CASE ~Disturbed
  <2>1. Orderly /\ Flow
    BY <1>2 DEF PoolInv
  <2>2. CASE UNCHANGED vars \/ \E c \in Callers : StopReading(c)
    <3>0. UNCHANGED <<lock, it, asker, worker, ends>>
      BY <2>2, Zenon DEF vars, StopReading, pool, msgs
    <3>1. \A u \in Threads : Holding(u) => Holding(u)' /\ asker'[u].at = asker[u].at
      BY <3>0 DEF Holding, Filling, Waiting, AskerAt
    <3>2. LockHeld'
      BY <2>1, <3>0 DEF Flow, LockHeld
    <3>3. \A i \in Workers : Nested(i)'
      BY <2>1, <3>0 DEF Flow, Nested, AskerAt, WorkerAt
    <3>4. \A i \in Workers : Claimed(i)'
      BY <2>1, <3>0, <3>1, ClaimedKept DEF Flow, WorkerAt
    <3>. QED
      BY <3>2, <3>3, <3>4 DEF Flow
  <2>3. CASE (\E t \in Threads : Ask(t)) \/ (\E i \in Workers : Work(i))
    BY <2>1, <2>3, AskFlows, WorkFlows
  <2>4. CASE \E i \in Workers : AsqlIdle(i) \/ Detach(i)
    BY <1>2, <2>1, <2>4, SMT DEF AsqlIdle, Terminate, Restart, Restarted, Detach, DetachMark,
       DetachClear, DetachPost, DetachNext, Disturbed, Orderly, Calm, PoolInv
  <2>5. CASE DetachStart
    BY <2>5, SMT DEF DetachStart, Disturbed
  <2>. QED
    BY <2>2, <2>3, <2>4, <2>5 DEF Next
<1>. QED
  BY <1>1, <1>2

(* A nonempty set of numbers has a least one.                               *)
LEMMA LeastOf ==
  ASSUME NEW R, IsWellFoundedOn(R, Nat), NEW T, T \subseteq Nat, T # {}
  PROVE  \E m \in T : \A y \in T : ~(<<y, m>> \in R)
<1>1. \A S : IsWellFoundedOn(R, S) /\ T \subseteq S => \E m \in T : \A y \in T : ~(<<y, m>> \in R)
  BY WFMin, Zenon
<1>. QED
  BY <1>1, Zenon

LEMMA Least ==
  ASSUME NEW T, T \subseteq Nat, T # {}
  PROVE  \E m \in T : \A x \in T : m <= x
<1>1. IsWellFoundedOn(OpToRel(<, Nat), Nat)
  BY NatLessThanWellFounded
<1>2. \A x, y \in Nat : x < y => <<x, y>> \in OpToRel(<, Nat)
  BY DEF OpToRel
<1>3. PICK m \in T : \A y \in T : ~(<<y, m>> \in OpToRel(<, Nat))
  BY <1>1, LeastOf, Zenon
<1>4. \A x \in T : ~(x < m)
  BY <1>2, <1>3, Zenon
<1>5. \A x \in T : m <= x
  BY <1>4, SMT
<1>. QED
  BY <1>5, Zenon

(* If nobody can go on, and somebody waits whose client reads, a thread     *)
(* waits for a unit: the deepest task that is waited for on behalf of that  *)
(* client is run by a worker that waits itself.  So all units are taken,    *)
(* all entries are some thread's, and their workers wait.                   *)
LEMMA StuckWhenBlocked ==
  ASSUME PoolAssumption, Orderly, Flow
  PROVE  StopsExplained
<1>. SUFFICES ASSUME NEW t0 \in Threads, ~AskerAt(t0, "out"), asker[t0].task.of \notin deaf,
                     \A t \in Threads : ~AskerReady(t), \A i \in Workers : ~WorkerReady(i)
              PROVE  PoolStuck
  BY DEF StopsExplained
<1>0. /\ TypeOK /\ Calm
      /\ asker \in [Threads -> Asking] /\ worker \in [Workers -> Working]
      /\ Workers \subseteq Threads
  BY Basics DEF Orderly, Threads
<1>1. \A t \in Threads : AskerAt(t, "out") \/ (AskerAt(t, "acquire") /\ ~(sem > 0)) \/ Waiting(t)
  <2>. SUFFICES ASSUME NEW t \in Threads
                PROVE  AskerAt(t, "out") \/ (AskerAt(t, "acquire") /\ ~(sem > 0)) \/ Waiting(t)
    OBVIOUS
  <2>1. asker[t].pc \in AskerPcs /\ ~AskerReady(t)
    BY <1>0, SMT DEF Asking
  <2>2. ~AskerAt(t, "enter")
    BY <2>1 DEF Flow, LockHeld, AskerReady
  <2>. QED
    BY <2>1, <2>2, SMT DEF AskerPcs, AskerReady, AskerAt, Waiting
<1>2. \A i \in Workers : \/ WorkerAt(i, "run") /\ ~AskerAt(i, "out")
                         \/ Unheard(i)
                         \/ WorkerAt(i, "wait") /\ starts[i] = 0
  <2>. SUFFICES ASSUME NEW i \in Workers, ~Unheard(i)
                PROVE  \/ WorkerAt(i, "run") /\ ~AskerAt(i, "out")
                       \/ WorkerAt(i, "wait") /\ starts[i] = 0
    OBVIOUS
  <2>1. /\ worker[i].pc \in {"loop", "run", "reply", "end", "free", "release", "wait"}
        /\ queue[i] /\ starts[i] \in Nat /\ ~WorkerReady(i)
    BY <1>0 DEF Calm, TypeOK
  <2>2. WorkerAt(i, "run") \/ WorkerAt(i, "wait")
    BY <2>1 DEF WorkerReady, WorkerAt
  <2>3. WorkerAt(i, "wait") => ~(starts[i] > 0)
    BY <2>1 DEF WorkerReady
  <2>. QED
    BY <2>1, <2>2, <2>3, SMT DEF WorkerReady
<1>3. \A t \in Threads : Waiting(t) =>
        /\ asker[t].at \in Workers /\ ~WorkerAt(asker[t].at, "wait")
        /\ worker[asker[t].at].task = asker[t].task
  <2>. SUFFICES ASSUME NEW t \in Threads, Waiting(t)
                PROVE  /\ asker[t].at \in Workers /\ ~WorkerAt(asker[t].at, "wait")
                       /\ worker[asker[t].at].task = asker[t].task
    OBVIOUS
  <2>1. asker[t].at \in Workers /\ (Pending(t, asker[t].at) \/ UnderWay(t, asker[t].at))
    BY DEF Orderly, Owning, Holding
  <2>2. ~Pending(t, asker[t].at)
    BY <1>2, <2>1, SMT DEF Pending, WorkerAt, Unheard
  <2>. QED
    BY <2>1, <2>2, SMT DEF UnderWay, WorkerAt
<1>4. \A t \in Threads : ~AskerAt(t, "out") => asker[t].task.depth \in 1 .. MaxDepth
  BY <1>0, SMT DEF Orderly, Told, Asking, Tasks
<1>5. \E t \in Threads : AskerAt(t, "acquire")
  <2>. SUFFICES ASSUME \A t \in Threads : AskerAt(t, "out") \/ Waiting(t)
                PROVE  FALSE
    BY <1>1
  <2>. DEFINE W == {t \in Threads : Waiting(t) /\ asker[t].task.of = asker[t0].task.of}
              Left(t) == MaxDepth - asker[t].task.depth
              T == {Left(t) : t \in W}
  <2>1. \A t \in W : asker[t].task.depth \in 1 .. MaxDepth /\ MaxDepth \in Nat
    BY <1>4 DEF Waiting, AskerAt, PoolAssumption
  <2>2. T \subseteq Nat
    BY <2>1, SMT
  <2>3. T # {}
    OBVIOUS
  <2>4. \E m \in T : \A x \in T : m <= x
    <3>. HIDE DEF T
    <3>. QED
      BY <2>2, <2>3, Least
  <2>5. PICK t \in W : \A u \in W : Left(t) <= Left(u)
    BY <2>4
  <2>6. PICK i \in Workers : /\ i = asker[t].at /\ worker[i].task = asker[t].task
                             /\ ~WorkerAt(i, "wait")
    BY <1>3
  <2>7. WorkerAt(i, "run") /\ ~AskerAt(i, "out")
    BY <1>2, <2>6 DEF Unheard
  <2>8. asker[i].task.depth > asker[t].task.depth /\ asker[i].task.of = asker[t].task.of
    BY <2>6, <2>7 DEF Flow, Nested
  <2>9. i \in W
    BY <1>0, <2>7, <2>8
  <2>10. Left(t) <= Left(i)
    BY <2>5, <2>9
  <2>. QED
    BY <2>1, <2>8, <2>9, <2>10, SMT
<1>6. sem = 0
  BY <1>0, <1>1, <1>5, Basics, SMT DEF AskerAt, Waiting
<1>7. Idle = {}
  <2>1. Held = {}
    BY <1>1, SMT DEF Held, AskerAt, Waiting
  <2>2. Releasing = {}
    BY <1>2, SMT DEF Releasing, WorkerAt, Unheard
  <2>3. Cardinality(Idle) = 0
    BY <1>6, <2>1, <2>2, Basics, FS_EmptySet, SMT DEF Counted
  <2>. QED
    BY <2>3, Basics, FS_EmptySet
<1>8. \A i \in Workers : Nesting(i) \/ Unheard(i)
  <2>. SUFFICES ASSUME NEW i \in Workers, ~Unheard(i) PROVE Nesting(i)
    OBVIOUS
  <2>1. it[i] # "idle"
    BY <1>7 DEF Idle
  <2>2. ~WorkerAt(i, "free")
    BY <1>2 DEF WorkerAt
  <2>3. PICK t \in Threads : Holding(t) /\ asker[t].at = i
    BY <2>1, <2>2 DEF Flow, Claimed
  <2>4. Waiting(t)
    BY <1>1, <2>3, SMT DEF Holding, Filling, Waiting, AskerAt
  <2>5. WorkerAt(i, "run") /\ ~AskerAt(i, "out")
    BY <1>2, <1>3, <2>3, <2>4
  <2>. QED
    BY <1>0, <1>1, <2>5 DEF Nesting, Waiting
<1>. QED
  BY <1>6, <1>8 DEF PoolStuck

(* As long as somebody waits for a task whose client reads, somebody can go *)
(* on, unless every worker waits for a script that its script calls or for  *)
(* a client that does not read: no unit, no message and no entry is lost,   *)
(* for any number of clients and workers and scripts of any depth.          *)
THEOREM OnlyWaitsStop == Spec => [](Disturbed \/ StopsExplained)
<1>. USE PoolAssumption
<1>1. Init => Flow
  BY SMT DEF Init, Flow, LockHeld, Claimed, Nested, Resting, AskerAt, Threads
<1>2. PoolInv /\ (Disturbed \/ Flow) /\ [Next]_vars => (Disturbed \/ Flow)'
  BY FlowNext
<1>3. PoolInv /\ (Disturbed \/ Flow) => Disturbed \/ StopsExplained
  BY StuckWhenBlocked DEF PoolInv
<1>. QED
  BY <1>1, <1>2, <1>3, PoolInOrder, PTL DEF Spec

-----------------------------------------------------------------------------
(* The pool implements the service of tasks.                                *)

Status == [t \in Threads |-> StatusOf(t)]

LEMMA StatusMoves ==
  ASSUME NEW t \in Threads, NEW from, NEW to, StatusOf(t) = from, StatusOf(t)' = to,
         \A u \in Threads \ {t} : StatusOf(u)' = StatusOf(u)
  PROVE  Service!Move(t, from, to)
  BY Zenon DEF Service!Move

LEMMA StatusStays ==
  ASSUME \A u \in Threads : StatusOf(u)' = StatusOf(u)
  PROVE  Status' = Status
  BY DEF Status

(* The steps of a task that the service of tasks does not see.              *)
LEMMA StatusSame ==
  ASSUME NEW u \in Threads, asker'[u].pc = "out" <=> asker[u].pc = "out",
         ends'[u] = ends[u], begun'[u] = begun[u]
  PROVE  StatusOf(u)' = StatusOf(u)
  BY Zenon DEF StatusOf, AskerAt

(* The tasks that run have workers of their own, other than one that is     *)
(* about to begin.                                                          *)
LEMMA RunningFit ==
  ASSUME PoolAssumption, Orderly, NEW i \in Workers, WorkerAt(i, "loop")
  PROVE  Cardinality(Service!Running) < N
<1>. DEFINE S == Service!Running
            f == [t \in S |-> asker[t].at]
            T == Workers \ {i}
<1>1. \A t \in S : t \in Threads /\ StatusOf(t) = "running"
  BY Zenon DEF Service!Running
<1>2. \A t \in S : Holding(t) /\ asker[t].at \in T
  <2>. SUFFICES ASSUME NEW t \in S PROVE Holding(t) /\ asker[t].at \in T
    OBVIOUS
  <2>1. t \in Threads /\ ~AskerAt(t, "out") /\ ends[t] = <<>> /\ begun[t] # 0
    BY <1>1, SMT DEF StatusOf
  <2>2. Seeking(t) /\ Owning(t)
    BY <2>1 DEF Orderly
  <2>3. asker[t].pc \in AskerPcs
    BY <2>1, Basics, SMT DEF Asking
  <2>4. Waiting(t) /\ Holding(t)
    BY <2>1, <2>2, <2>3, SMT DEF AskerPcs, Seeking, Owning, Holding, Filling, Waiting,
                AskerAt
  <2>5. asker[t].at \in Workers /\ ~WorkerAt(asker[t].at, "loop")
    BY <2>1, <2>2, <2>4, SMT DEF Owning, Pending, UnderWay, WorkerAt
  <2>. QED
    BY <2>4, <2>5
<1>3. f \in Injection(S, T)
  <2>1. \A t, u \in S : asker[t].at = asker[u].at => t = u
    BY <1>1, <1>2 DEF Orderly, Alone
  <2>. HIDE DEF S, T
  <2>2. f \in [S -> T]
    BY <1>2
  <2>3. IsInjective(f)
    BY <2>1 DEF IsInjective
  <2>. QED
    BY <2>2, <2>3 DEF Injection
<1>4. IsFiniteSet(T) /\ Cardinality(T) = N - 1
  BY Basics, FS_RemoveElement, Zenon
<1>. HIDE DEF f, S, T
<1>5. IsFiniteSet(S) /\ Cardinality(S) <= Cardinality(T)
  BY <1>3, <1>4, FS_Injection
<1>6. Cardinality(S) \in Nat
  BY <1>5, FS_CardinalityType
<1>7. Cardinality(S) < N
  BY <1>4, <1>5, <1>6, SMT DEF PoolAssumption
<1>. QED
  BY <1>7 DEF S

(* The steps of wmtAskQS as steps of the service of tasks.                  *)
LEMMA AskRefines ==
  ASSUME PoolAssumption, Orderly, NEW t \in Threads, Ask(t)
  PROVE  Service!Next \/ Status' = Status
<1>0. TypeOK /\ Told(t)
  BY DEF Orderly
<1>1. CASE Call(t)
  <2>1. StatusOf(t) = "idle"
    BY <1>1 DEF Call, StatusOf, AskerAt
  <2>2. /\ begun' = [begun EXCEPT ![t] = 0] /\ ends' = ends /\ ends[t] = <<>>
        /\ asker'[t].pc = "acquire" /\ \A u \in Threads \ {t} : asker'[u] = asker[u]
    BY <1>0, <1>1, SMT DEF TypeOK, Told, Call, msgs, AskerAt
  <2>3. StatusOf(t)' = "asked"
    BY <1>0, <2>2, SMT DEF TypeOK, StatusOf, AskerAt
  <2>4. \A u \in Threads \ {t} : StatusOf(u)' = StatusOf(u)
    BY <1>0, <2>2, StatusSame DEF TypeOK
  <2>5. Service!Move(t, "idle", "asked")
    BY <2>1, <2>3, <2>4, StatusMoves
  <2>. QED
    BY <2>5, Zenon DEF Service!Ask, Service!Next
<1>2. CASE TakeEnd(t)
  <2>1. StatusOf(t) = "ended"
    BY <1>2 DEF TakeEnd, StatusOf, AskerAt
  <2>2. asker'[t].pc = "out" /\ \A u \in Threads \ {t} : asker'[u] = asker[u]
    BY <1>0, <1>2, SMT DEF TypeOK, TakeEnd
  <2>3. begun' = begun /\ \A u \in Threads \ {t} : ends'[u] = ends[u]
    BY <1>0, <1>2, SMT DEF TypeOK, TakeEnd, past
  <2>4. StatusOf(t)' = "idle"
    BY <2>2 DEF StatusOf, AskerAt
  <2>5. \A u \in Threads \ {t} : StatusOf(u)' = StatusOf(u)
    BY <2>2, <2>3, StatusSame
  <2>6. Service!Move(t, "ended", "idle")
    BY <2>1, <2>4, <2>5, StatusMoves
  <2>. QED
    BY <2>6, Zenon DEF Service!Collect, Service!Next
<1>3. CASE ~Call(t) /\ ~TakeEnd(t)
  <2>1. /\ ends' = ends /\ begun' = begun
    BY <1>3, NoIdleEntryNever, Zenon DEF Ask, AcquireUnit, EnterScan, ScanEntry,
                FindEntry, Claim, FillEntry,
       PublishTask, PostStart, msgs, past
  <2>2. \A u \in Threads : asker'[u].pc = "out" <=> asker[u].pc = "out"
    <3>1. CASE ScanEntry(t)
      BY <3>1, Basics, SMT DEF ScanEntry, Asking
    <3>2. CASE ~ScanEntry(t)
      <4>1. PICK p \in AskerPcs \ {"out"} : AskerTo(t, p) /\ asker[t].pc # "out"
        BY <1>3, <3>2, NoIdleEntryNever, SMT DEF Ask, AcquireUnit, EnterScan,
                    FindEntry, Claim, FillEntry,
           PublishTask, PostStart, AskerAt, AskerPcs
      <4>. QED
        BY <4>1, Basics, AskerMoves
    <3>. QED
      BY <3>1, <3>2
  <2>3. \A u \in Threads : StatusOf(u)' = StatusOf(u)
    BY <2>1, <2>2, StatusSame
  <2>. QED
    BY <2>3, StatusStays
<1>. QED
  BY <1>1, <1>2, <1>3

(* Those of askQS_tm.                                                       *)
LEMMA WorkRefines ==
  ASSUME PoolAssumption, Orderly, NEW i \in Workers, Work(i)
  PROVE  Service!Next \/ Status' = Status
<1>0. TypeOK /\ Calm
  BY DEF Orderly
<1>1. asker' = asker
  BY NeverWhenCalm, Zenon DEF Work, Begin, Finish, Reply, PostEnd, FreeEntry, Release,
              TakeStart
<1>2. CASE Begin(i)
  <2>1. worker[i].pc = "loop"
    BY <1>2 DEF Begin, WorkerAt
  <2>2. PICK c \in Threads : Waiting(c) /\ Pending(c, i) /\ Told(c)
    BY <2>1, Owner, SMT DEF UnderWay, WorkerAt
  <2>3. file[i] = asker[c].task /\ file[i].by = c /\ begun[c] = 0
    BY <2>2 DEF Pending, Told, Waiting, AskerAt
  <2>4. begun' = [begun EXCEPT ![c] = 1] /\ ends' = ends
    BY <1>0, <1>2, <2>3, SMT DEF TypeOK, Begin, msgs
  <2>5. StatusOf(c) = "asked"
    BY <2>2, <2>3, SMT DEF StatusOf, Waiting, AskerAt
  <2>6. StatusOf(c)' = "running"
    BY <1>0, <1>1, <2>2, <2>4, SMT DEF TypeOK, StatusOf, Waiting, AskerAt
  <2>7. \A u \in Threads \ {c} : StatusOf(u)' = StatusOf(u)
    BY <1>0, <1>1, <2>4, StatusSame DEF TypeOK
  <2>8. Service!Move(c, "asked", "running")
    BY <2>5, <2>6, <2>7, StatusMoves
  <2>9. Cardinality(Service!Running) < N
    BY <2>1, RunningFit DEF WorkerAt
  <2>10. Service!Cardinality(Service!Running) = Cardinality(Service!Running)
    BY Zenon DEF Service!Cardinality, Cardinality
  <2>11. Service!Run(c)
    BY <2>8, <2>9, <2>10 DEF Service!Run
  <2>. QED
    BY <2>11, Zenon DEF Service!Next
<1>3. CASE PostEnd(i)
  <2>1. worker[i].pc = "end"
    BY <1>3 DEF PostEnd, WorkerAt
  <2>2. PICK c \in Threads : c = caller[i] /\ Waiting(c) /\ UnderWay(c, i)
    BY <2>1, Owner, SMT DEF Pending, WorkerAt
  <2>3. begun[c] = 1 /\ begun' = begun
    BY <1>3, <2>2 DEF UnderWay, PostEnd, past
  <2>4. ends' = [ends EXCEPT ![c] = <<worker[i].task>>]
    BY <1>0, <1>3, <2>2, SMT DEF PostEnd, TypeOK, Calm, Waiting, Threads
  <2>5. StatusOf(c) = "running"
    BY <2>2, <2>3, SMT DEF StatusOf, Waiting, AskerAt
  <2>6. ends'[c] # <<>>
    BY <1>0, <2>4, SMT DEF TypeOK
  <2>7. StatusOf(c)' = "ended"
    BY <1>1, <2>2, <2>6 DEF StatusOf, Waiting, AskerAt
  <2>8. \A u \in Threads \ {c} : StatusOf(u)' = StatusOf(u)
    BY <1>0, <1>1, <2>3, <2>4, StatusSame DEF TypeOK
  <2>9. Service!Move(c, "running", "ended")
    BY <2>5, <2>7, <2>8, StatusMoves
  <2>. QED
    BY <2>9, Zenon DEF Service!End, Service!Next
<1>4. CASE ~Begin(i) /\ ~PostEnd(i)
  <2>1. ends' = ends /\ begun' = begun
    BY <1>4, NeverWhenCalm, Zenon DEF Work, Finish, Reply, FreeEntry, Release,
                TakeStart, msgs, past
  <2>2. \A u \in Threads : StatusOf(u)' = StatusOf(u)
    BY <1>1, <2>1, StatusSame
  <2>. QED
    BY <2>2, StatusStays
<1>. QED
  BY <1>2, <1>3, <1>4

(* Every step while nothing disturbs the pool.                              *)
LEMMA StepRefines ==
  ASSUME PoolAssumption, PoolInv, [Next]_vars, ~Disturbed, ~Disturbed'
  PROVE  [Service!Next]_Status
<1>. USE DEF PoolInv
<1>1. CASE UNCHANGED vars \/ \E c \in Callers : StopReading(c)
  <2>1. UNCHANGED <<asker, ends, begun>>
    BY <1>1, Zenon DEF vars, StopReading, msgs, past
  <2>. QED
    BY <2>1, StatusSame, StatusStays
<1>2. CASE (\E t \in Threads : Ask(t)) \/ (\E i \in Workers : Work(i))
  BY <1>2, AskRefines, WorkRefines
<1>3. CASE \E i \in Workers : AsqlIdle(i) \/ Detach(i)
  BY <1>3, SMT DEF AsqlIdle, Terminate, Restart, Restarted, Detach, DetachMark,
              DetachClear, DetachPost,
                   DetachNext, Disturbed, Orderly, Calm
<1>4. CASE DetachStart
  BY <1>4, SMT DEF DetachStart, Disturbed
<1>. QED
  BY <1>1, <1>2, <1>3, <1>4 DEF Next

(* Every task that is asked is run once, at most N of them at a time, and   *)
(* its thread told of its end, as TaskService has it.                       *)
THEOREM PoolServesTasks == Spec /\ []~Disturbed => ServesTasks
<1>. USE PoolAssumption
<1>1. Init => Service!Init
  <2>. SUFFICES ASSUME Init PROVE Service!Init
    OBVIOUS
  <2>1. \A t \in Threads : StatusOf(t) = "idle"
    BY DEF Init, Resting, StatusOf, AskerAt
  <2>. QED
    BY <2>1, Zenon DEF Service!Init
<1>2. PoolInv /\ [Next]_vars /\ ~Disturbed /\ ~Disturbed' => [Service!Next]_Status
  BY StepRefines
<1>. QED
  BY <1>1, <1>2, PoolInOrder, PTL DEF Spec, ServesTasks, Service!Spec, Status

====
