---- MODULE AsqlPool ----
(***************************************************************************)
(* The pool of ASQL engines, wmtasql/wmtasql.c.  N worker threads          *)
(* (askQS_tm) wait for a message; a thread that wants a script run         *)
(* (wmtAskQS) takes a unit of the semaphore hAsqlResSem, claims an idle    *)
(* entry of askQS_data under g_CS_ThreadMan, fills it outside and posts    *)
(* ASQL_STARTTASK_MSG; it then waits for ASQL_ENDTASK_MSG.  A script that  *)
(* calls a script (_ASK_CallASQL, calASQLforView) makes its worker ask the *)
(* pool in turn, while it keeps its own unit.                              *)
(*                                                                         *)
(* asqlidle replaces workers that seem to run too long, and ProcessDetach  *)
(* stops the pool; both act on the entries without any lock.               *)
(***************************************************************************)
EXTENDS Integers, Sequences, FiniteSets

CONSTANTS Callers,    \* service threads: they ask tasks again and again
          N,          \* asqlTaskThreadNum
          MaxDepth,   \* how deep scripts call scripts
          MaxKills,   \* bound: replacements of a worker by asqlidle
          Numbers,    \* bound: task numbers that are told apart
          CanDetach,  \* whether ProcessDetach may be called
  MayBeLate,  \* whether a worker may have no message queue yet at the start
          None

Workers == 0 .. N - 1
Threads == Callers \cup Workers

(* A task is named by the thread that asked it, by its number modulo        *)
(* Numbers, which tells a task from the ones before, by its depth, and by   *)
(* the service thread whose exchange buffer its results go to (wmtExbuf).   *)
Tasks == [by : Threads, no : 0 .. Numbers - 1, depth : 1 .. MaxDepth, of : Callers]

ASSUME PoolAssumption ==
  /\ N \in Nat \ {0}
  /\ MaxDepth \in Nat \ {0}
  /\ MaxKills \in Nat
  /\ Numbers \in Nat \ {0}
  /\ CanDetach \in BOOLEAN
  /\ MayBeLate \in BOOLEAN
  /\ IsFiniteSet(Callers)
  /\ Callers \cap Int = {}
  /\ None \notin Callers \cup Int \cup Tasks

VARIABLES
  sem,      \* units of hAsqlResSem
  lock,     \* owner of g_CS_ThreadMan
  it,       \* it[i]: field it of entry i: "start" (not negative, set by the
            \* creator), "idle", "stop", "top" (id of a client), "inner" (-1)
  caller,   \* caller[i]: field callThreadId
  file,     \* file[i]: field FileName, the task to run or None
  asker,    \* asker[t]: [pc, at, task] of thread t inside wmtAskQS
  worker,   \* worker[i]: [pc, task, nested] of askQS_tm
  starts,   \* starts[i]: ASQL_STARTTASK_MSG pending for worker i
  ends,     \* ends[t]: ASQL_ENDTASK_MSG pending for thread t
  queue,    \* queue[i]: whether worker i has a message queue yet
  idler,    \* position of asqlidle: [pc, at]
  kills,
  detach,   \* position of ProcessDetach: [pc, at]
  deaf,     \* service threads whose client takes no further packet
  late,     \* the workers without a message queue when ProcessAttach went on
  begun,    \* history: how often the current task of t was begun
  answered  \* history: whether the client of the current task of t was answered

pool   == <<sem, lock, it, caller, file>>
msgs   == <<starts, ends, queue>>
sides  == <<deaf, late>>
admin  == <<idler, kills, detach, sides>>
past   == <<begun, answered>>
vars   == <<sem, lock, it, caller, file, asker, worker, starts, ends, queue,
            idler, kills, detach, deaf, late, begun, answered>>

AskerPcs  == {"out", "acquire", "enter", "scan", "claim", "fill", "publish", "post", "await"}
WorkerPcs == {"boot", "loop", "run", "reply", "end", "free", "release", "wait",
              "ended", "killed"}

Resting == [pc |-> "out", at |-> 0, task |-> None]

TypeOK ==
  /\ sem \in 0 .. N
  /\ lock \in Threads \cup {None, N}
  /\ it \in [Workers -> {"start", "idle", "stop", "top", "inner"}]
  /\ caller \in [Workers -> Threads \cup {None}]
  /\ file \in [Workers -> Tasks \cup {None}]
  /\ asker \in [Threads -> [pc : AskerPcs, at : 0 .. N, task : Tasks \cup {None}]]
  /\ worker \in [Workers -> [pc : WorkerPcs, task : Tasks \cup {None}, nested : BOOLEAN]]
  /\ starts \in [Workers -> Nat]
  /\ ends \in [Threads -> Seq(Tasks)]
  /\ queue \in [Workers -> BOOLEAN]
  /\ idler \in [pc : {"off", "killed", "restarted"}, at : Workers]
  /\ kills \in 0 .. MaxKills
  /\ detach \in [pc : {"off", "mark", "clear", "post", "wait", "done"}, at : 0 .. N]
  /\ deaf \subseteq Callers
  /\ late \subseteq Workers
  /\ begun \in [Threads -> 0 .. 2]
  /\ answered \in [Threads -> BOOLEAN]

(* ProcessAttach sleeps, then waits until every worker has marked its entry *)
(* idle.  Nothing makes sure that each has come to GetMessage by then: a    *)
(* late one has no message queue yet.                                       *)
Init ==
  /\ sem = N
  /\ lock = None
  /\ it = [i \in Workers |-> "idle"]
  /\ caller = [i \in Workers |-> None]
  /\ file = [i \in Workers |-> None]
  /\ asker = [t \in Threads |-> Resting]
  /\ late \in IF MayBeLate THEN SUBSET Workers ELSE {{}}
  /\ worker = [i \in Workers |->
       [pc |-> IF i \in late THEN "loop" ELSE "wait", task |-> None, nested |-> FALSE]]
  /\ starts = [i \in Workers |-> 0]
  /\ ends = [t \in Threads |-> <<>>]
  /\ queue = [i \in Workers |-> i \notin late]
  /\ idler = [pc |-> "off", at |-> 0]
  /\ kills = 0
  /\ detach = [pc |-> "off", at |-> 0]
  /\ deaf = {}
  /\ begun = [t \in Threads |-> 0]
  /\ answered = [t \in Threads |-> FALSE]

AskerAt(t, pc) == asker[t].pc = pc
AskerTo(t, pc) == asker' = [asker EXCEPT ![t].pc = pc]

WorkerAt(i, pc) == worker[i].pc = pc
WorkerTo(i, pc) == worker' = [worker EXCEPT ![i].pc = pc]

----------------------------------------------------------------------------
(* wmtAskQS, and the wait of its callers for the end of the task. *)

(* Whether t may ask a task: a service thread does so for a request, a      *)
(* worker for a script that its own script calls, here once per script.     *)
MayCall(t) ==
  IF t \in Callers
  THEN TRUE
  ELSE /\ worker[t].pc = "run"
       /\ ~worker[t].nested
       /\ worker[t].task.depth < MaxDepth

DepthOf(t) == IF t \in Callers THEN 1 ELSE worker[t].task.depth + 1

(* A script hands its own exchange buffer on to the script it calls.        *)
ClientOf(t) == IF t \in Callers THEN t ELSE worker[t].task.of

NextNo(t) == IF asker[t].task = None THEN 0 ELSE (asker[t].task.no + 1) % Numbers

(* Mutant: a counter that is decremented before it is tested. *)
AcquireUnitUntested(t) ==
  /\ AskerAt(t, "acquire")
  /\ sem' = sem - 1
  /\ AskerTo(t, "enter")
  /\ UNCHANGED <<lock, it, caller, file, worker, msgs, admin, past>>

Call(t) ==
  /\ AskerAt(t, "out")
  /\ MayCall(t)
  /\ asker' = [asker EXCEPT ![t] =
       [pc |-> "acquire", at |-> 0,
        task |-> [by |-> t, no |-> NextNo(t), depth |-> DepthOf(t), of |-> ClientOf(t)]]]
  /\ worker' = IF t \in Workers THEN [worker EXCEPT ![t].nested = TRUE] ELSE worker
  /\ begun' = [begun EXCEPT ![t] = 0]
  /\ answered' = [answered EXCEPT ![t] = FALSE]
  /\ UNCHANGED <<pool, msgs, admin>>

(* Mutant: the scan runs without the critical section. *)
EnterScanUnlocked(t) ==
  /\ AskerAt(t, "enter")
  /\ AskerTo(t, "scan")
  /\ UNCHANGED <<pool, worker, msgs, admin, past>>

AcquireUnit(t) ==
  /\ AskerAt(t, "acquire")
  /\ sem > 0
  /\ sem' = sem - 1
  /\ AskerTo(t, "enter")
  /\ UNCHANGED <<lock, it, caller, file, worker, msgs, admin, past>>

EnterScan(t) ==
  /\ AskerAt(t, "enter")
  /\ lock = None
  /\ lock' = t
  /\ AskerTo(t, "scan")
  /\ UNCHANGED <<sem, it, caller, file, worker, msgs, admin, past>>

ScanEntry(t) ==
  /\ AskerAt(t, "scan")
  /\ asker[t].at < N
  /\ it[asker[t].at] # "idle"
  /\ asker' = [asker EXCEPT ![t].at = @ + 1]
  /\ UNCHANGED <<pool, worker, msgs, admin, past>>

NoIdleEntry(t) ==
  /\ AskerAt(t, "scan")
  /\ asker[t].at = N
  /\ sem' = sem + 1
  /\ lock' = None
  /\ asker' = [asker EXCEPT ![t].pc = "out", ![t].at = 0]
  /\ UNCHANGED <<it, caller, file, worker, msgs, admin, past>>

Kind(t) == IF t \in Callers THEN "top" ELSE "inner"

(* The loop of the scan has ended on an idle entry; it is marked in a step  *)
(* of its own, which only the critical section keeps together with the test.*)
FindEntry(t) ==
  /\ AskerAt(t, "scan")
  /\ asker[t].at < N
  /\ it[asker[t].at] = "idle"
  /\ AskerTo(t, "claim")
  /\ UNCHANGED <<pool, worker, msgs, admin, past>>

Claim(t) ==
  /\ AskerAt(t, "claim")
  /\ it' = [it EXCEPT ![asker[t].at] = Kind(t)]
  /\ lock' = None
  /\ AskerTo(t, "fill")
  /\ UNCHANGED <<sem, caller, file, worker, msgs, admin, past>>

(* Mutant: callThreadId is set the first time only. *)
FillEntryOnce(t) ==
  /\ AskerAt(t, "fill")
  /\ caller' = [caller EXCEPT ![asker[t].at] = IF @ = None THEN t ELSE @]
  /\ AskerTo(t, "publish")
  /\ UNCHANGED <<sem, lock, it, file, worker, msgs, admin, past>>

FillEntry(t) ==
  /\ AskerAt(t, "fill")
  /\ caller' = [caller EXCEPT ![asker[t].at] = t]
  /\ AskerTo(t, "publish")
  /\ UNCHANGED <<sem, lock, it, file, worker, msgs, admin, past>>

PublishTask(t) ==
  /\ AskerAt(t, "publish")
  /\ file' = [file EXCEPT ![asker[t].at] = asker[t].task]
  /\ AskerTo(t, "post")
  /\ UNCHANGED <<sem, lock, it, caller, worker, msgs, admin, past>>

(* Mutant: the message is looked for, not waited for. *)
TakeEndPolled(t) ==
  /\ AskerAt(t, "await")
  /\ ends' = [ends EXCEPT ![t] = IF @ = <<>> THEN @ ELSE Tail(@)]
  /\ asker' = [asker EXCEPT ![t].pc = "out", ![t].at = 0]
  /\ UNCHANGED <<pool, worker, starts, queue, admin, past>>

(* PostThreadMessage fails when the thread has no message queue yet, or has *)
(* ended; nobody looks at its result.                                       *)
PostStart(t) ==
  LET i == asker[t].at IN
  /\ AskerAt(t, "post")
  /\ starts' = IF queue[i] THEN [starts EXCEPT ![i] = @ + 1] ELSE starts
  /\ AskerTo(t, "await")
  /\ UNCHANGED <<pool, worker, ends, queue, admin, past>>

TakeEnd(t) ==
  /\ AskerAt(t, "await")
  /\ ends[t] # <<>>
  /\ ends' = [ends EXCEPT ![t] = Tail(@)]
  /\ queue' = IF t \in Workers THEN [queue EXCEPT ![t] = TRUE] ELSE queue
  /\ asker' = [asker EXCEPT ![t].pc = "out", ![t].at = 0]
  /\ UNCHANGED <<pool, worker, starts, admin, past>>

----------------------------------------------------------------------------
(* askQS_tm, the worker. *)

(* The mark of asqlidle and ProcessAttach, the number of the entry, is not  *)
(* told from the id of a client: neither is negative.                       *)
NotNegative(i) == it[i] \in {"start", "top"}

(* Mutant: a new worker does not report. *)
BootSilent(i) ==
  /\ WorkerAt(i, "boot")
  /\ WorkerTo(i, "loop")
  /\ UNCHANGED <<pool, asker, msgs, admin, past>>

Boot(i) ==
  /\ WorkerAt(i, "boot")
  /\ it' = IF NotNegative(i) THEN [it EXCEPT ![i] = "idle"] ELSE it
  /\ WorkerTo(i, "loop")
  /\ UNCHANGED <<sem, lock, caller, file, asker, msgs, admin, past>>

Stop(i) ==
  /\ WorkerAt(i, "loop")
  /\ it[i] = "stop"
  /\ it' = [it EXCEPT ![i] = "idle"]
  /\ WorkerTo(i, "ended")
  /\ starts' = [starts EXCEPT ![i] = 0]
  /\ queue' = [queue EXCEPT ![i] = FALSE]
  /\ UNCHANGED <<sem, lock, caller, file, asker, ends, admin, past>>

(* The worker takes the task of its entry and runs it. *)
Begin(i) ==
  /\ WorkerAt(i, "loop")
  /\ it[i] # "stop"
  /\ file[i] # None
  /\ worker' = [worker EXCEPT ![i] = [pc |-> "run", task |-> file[i], nested |-> FALSE]]
  /\ begun' = IF file[i] = asker[file[i].by].task /\ begun[file[i].by] < 2
              THEN [begun EXCEPT ![file[i].by] = @ + 1] ELSE begun
  /\ UNCHANGED <<pool, asker, msgs, admin, answered>>

SkipTask(i) ==
  /\ WorkerAt(i, "loop")
  /\ it[i] # "stop"
  /\ file[i] = None
  /\ WorkerTo(i, "wait")
  /\ UNCHANGED <<pool, asker, msgs, admin, past>>

(* The script is over, with an error or without, or an exception ended it. *)
Finish(i) ==
  /\ WorkerAt(i, "run")
  /\ AskerAt(i, "out")
  /\ file' = [file EXCEPT ![i] = None]
  /\ WorkerTo(i, "reply")
  /\ UNCHANGED <<sem, lock, it, caller, asker, msgs, admin, past>>

(* Only the task of a client, whose id is positive, is answered here; every *)
(* task may send the table of its variables.  SrvWriteExchngBuf waits,      *)
(* without a limit, until the client has taken the packet before.           *)
Reply(i) ==
  /\ WorkerAt(i, "reply")
  /\ it[i] = "top" => worker[i].task.of \notin deaf
  /\ answered' = IF it[i] = "top" /\ caller[i] # None
                 THEN [answered EXCEPT ![caller[i]] = TRUE] ELSE answered
  /\ WorkerTo(i, "end")
  /\ UNCHANGED <<pool, asker, msgs, admin, begun>>

(* Mutant: the unit is given back here, and once more by Release. *)
FreeEntryAndUnit(i) ==
  /\ WorkerAt(i, "free")
  /\ it' = [it EXCEPT ![i] = "idle"]
  /\ sem' = IF sem < N THEN sem + 1 ELSE sem
  /\ WorkerTo(i, "release")
  /\ UNCHANGED <<lock, caller, file, asker, msgs, admin, past>>

(* The message names the thread, not the task: the task in it is for the    *)
(* properties.  Posting it gives the worker a message queue of its own.     *)
PostEnd(i) ==
  /\ WorkerAt(i, "end")
  /\ ends' = IF caller[i] \in Callers \/ (caller[i] \in Workers /\ queue[caller[i]])
             THEN [ends EXCEPT ![caller[i]] = Append(@, worker[i].task)] ELSE ends
  /\ queue' = [queue EXCEPT ![i] = TRUE]
  /\ WorkerTo(i, "free")
  /\ UNCHANGED <<pool, asker, starts, admin, past>>

FreeEntry(i) ==
  /\ WorkerAt(i, "free")
  /\ it' = [it EXCEPT ![i] = "idle"]
  /\ WorkerTo(i, "release")
  /\ UNCHANGED <<sem, lock, caller, file, asker, msgs, admin, past>>

(* Mutant: the unit is not given back. *)
ReleaseForgotten(i) ==
  /\ WorkerAt(i, "release")
  /\ worker' = [worker EXCEPT ![i].pc = "wait", ![i].task = None]
  /\ UNCHANGED <<pool, asker, msgs, admin, past>>

(* Mutant: messages that have arrived meanwhile are thrown away. *)
ReleaseAndFlush(i) ==
  /\ WorkerAt(i, "release")
  /\ sem' = IF sem < N THEN sem + 1 ELSE sem
  /\ starts' = [starts EXCEPT ![i] = 0]
  /\ worker' = [worker EXCEPT ![i].pc = "wait", ![i].task = None]
  /\ UNCHANGED <<lock, it, caller, file, asker, ends, queue, admin, past>>

(* ReleaseSemaphore fails when the semaphore is at its maximum. *)
Release(i) ==
  /\ WorkerAt(i, "release")
  /\ sem' = IF sem < N THEN sem + 1 ELSE sem
  /\ worker' = [worker EXCEPT ![i].pc = "wait", ![i].task = None]
  /\ UNCHANGED <<lock, it, caller, file, asker, msgs, admin, past>>

(* GetMessage creates the message queue of a thread that has none. *)
OpenQueue(i) ==
  /\ WorkerAt(i, "wait")
  /\ ~queue[i]
  /\ queue' = [queue EXCEPT ![i] = TRUE]
  /\ UNCHANGED <<pool, asker, worker, starts, ends, admin, past>>

TakeStart(i) ==
  /\ WorkerAt(i, "wait")
  /\ starts[i] > 0
  /\ starts' = [starts EXCEPT ![i] = @ - 1]
  /\ WorkerTo(i, "loop")
  /\ UNCHANGED <<pool, asker, ends, queue, admin, past>>

----------------------------------------------------------------------------
(* A client stops reading: its agent waits in WriteFile, and the packet in  *)
(* its exchange buffer is not taken any more.  A script sends its results   *)
(* while it runs, or none.                                                  *)
StopReading(c) ==
  /\ c \notin deaf
  /\ \E i \in Workers : worker[i].pc \in {"run", "reply"} /\ worker[i].task.of = c
  /\ deaf' = deaf \cup {c}
  /\ UNCHANGED <<pool, asker, worker, msgs, idler, kills, detach, late, past>>

(* What worker i does may wait for a client that does not read.             *)
Unheard(i) == worker[i].pc \in {"run", "reply"} /\ worker[i].task.of \in deaf

----------------------------------------------------------------------------
(* asqlidle: a worker whose last task was posted too long ago is            *)
(* terminated, whatever it does, and another starts on the same entry.      *)
(* The thread that calls it is taken to be the one that calls               *)
(* ProcessDetach.                                                           *)

Terminate(i) ==
  /\ idler.pc = "off"
  /\ detach.pc = "off"
  /\ kills < MaxKills
  /\ worker[i].pc # "ended"
  /\ idler' = [pc |-> "killed", at |-> i]
  /\ kills' = kills + 1
  /\ worker' = [worker EXCEPT ![i] = [pc |-> "killed", task |-> None, nested |-> FALSE]]
  /\ asker' = [asker EXCEPT ![i] = Resting]
  /\ lock' = IF lock = i THEN N ELSE lock
  /\ starts' = [starts EXCEPT ![i] = 0]
  /\ ends' = [ends EXCEPT ![i] = <<>>]
  /\ queue' = [queue EXCEPT ![i] = FALSE]
  /\ UNCHANGED <<sem, it, caller, file, detach, sides, past>>

(* When the new thread cannot be begun, asqlidle returns at once: the entry *)
(* keeps its mark and has no worker.                                        *)
Restart(i) ==
  /\ idler = [pc |-> "killed", at |-> i]
  /\ it' = [it EXCEPT ![i] = "start"]
  /\ \/ WorkerTo(i, "boot") /\ idler' = [idler EXCEPT !.pc = "restarted"]
     \/ idler' = [pc |-> "off", at |-> 0] /\ UNCHANGED worker
  /\ UNCHANGED <<sem, lock, caller, file, asker, msgs, kills, detach, sides, past>>

Restarted(i) ==
  /\ idler = [pc |-> "restarted", at |-> i]
  /\ ~NotNegative(i)
  /\ idler' = [pc |-> "off", at |-> 0]
  /\ UNCHANGED <<pool, asker, worker, msgs, kills, detach, sides, past>>

----------------------------------------------------------------------------
(* ProcessDetach: each entry in turn is marked, cleared and its worker      *)
(* woken, until the entry reads idle.                                       *)

DetachStart ==
  /\ CanDetach
  /\ idler.pc = "off"
  /\ detach = [pc |-> "off", at |-> 0]
  /\ detach' = [pc |-> "mark", at |-> 0]
  /\ UNCHANGED <<pool, asker, worker, msgs, idler, kills, sides, past>>

DetachMark(i) ==
  /\ detach = [pc |-> "mark", at |-> i]
  /\ it' = [it EXCEPT ![i] = "stop"]
  /\ detach' = [detach EXCEPT !.pc = "clear"]
  /\ UNCHANGED <<sem, lock, caller, file, asker, worker, msgs, idler, kills, sides, past>>

(* Mutant: the worker is not woken. *)
DetachPostNot(i) ==
  /\ detach = [pc |-> "post", at |-> i]
  /\ detach' = [detach EXCEPT !.pc = "wait"]
  /\ UNCHANGED <<pool, asker, worker, msgs, idler, kills, sides, past>>

DetachClear(i) ==
  /\ detach = [pc |-> "clear", at |-> i]
  /\ file' = [file EXCEPT ![i] = None]
  /\ detach' = [detach EXCEPT !.pc = "post"]
  /\ UNCHANGED <<sem, lock, it, caller, asker, worker, msgs, idler, kills, sides, past>>

DetachPost(i) ==
  /\ detach = [pc |-> "post", at |-> i]
  /\ starts' = IF queue[i] THEN [starts EXCEPT ![i] = @ + 1] ELSE starts
  /\ detach' = [detach EXCEPT !.pc = "wait"]
  /\ UNCHANGED <<pool, asker, worker, ends, queue, idler, kills, sides, past>>

DetachNext(i) ==
  /\ detach = [pc |-> "wait", at |-> i]
  /\ it[i] = "idle"
  /\ detach' = [pc |-> IF i + 1 = N THEN "done" ELSE "mark", at |-> i + 1]
  /\ UNCHANGED <<pool, asker, worker, msgs, idler, kills, sides, past>>

----------------------------------------------------------------------------
Ask(t) ==
  \/ Call(t) \/ AcquireUnit(t) \/ EnterScan(t) \/ ScanEntry(t) \/ NoIdleEntry(t)
  \/ FindEntry(t) \/ Claim(t) \/ FillEntry(t) \/ PublishTask(t) \/ PostStart(t) \/ TakeEnd(t)

Work(i) ==
  \/ Boot(i) \/ Stop(i) \/ Begin(i) \/ SkipTask(i) \/ Finish(i) \/ Reply(i)
  \/ PostEnd(i) \/ FreeEntry(i) \/ Release(i) \/ OpenQueue(i) \/ TakeStart(i)

AsqlIdle(i) == Terminate(i) \/ Restart(i) \/ Restarted(i)

Detach(i) == DetachMark(i) \/ DetachClear(i) \/ DetachPost(i) \/ DetachNext(i)

Next ==
  \/ \E t \in Threads : Ask(t)
  \/ \E i \in Workers : Work(i) \/ AsqlIdle(i) \/ Detach(i)
  \/ \E c \in Callers : StopReading(c)
  \/ DetachStart

Spec == Init /\ [][Next]_vars

(* A thread that is not blocked goes on; a script ends; whoever waits for a *)
(* unit or for the critical section again and again gets it at last.  A     *)
(* worker whose client does not read owes nothing.  That a thread asks, or  *)
(* that a worker is replaced, is never assumed.                             *)
Proceed(t) ==
  \/ ScanEntry(t) \/ NoIdleEntry(t) \/ FindEntry(t) \/ Claim(t) \/ FillEntry(t)
  \/ PublishTask(t) \/ PostStart(t) \/ TakeEnd(t)

FairSpec ==
  /\ Spec
  /\ \A t \in Threads : WF_vars(Proceed(t)) /\ SF_vars(AcquireUnit(t)) /\ SF_vars(EnterScan(t))
  /\ \A i \in Workers : /\ WF_vars(~Unheard(i) /\ Work(i))
                        /\ WF_vars(Restart(i) \/ Restarted(i)) /\ WF_vars(Detach(i))

----------------------------------------------------------------------------
Filling(t) == asker[t].pc \in {"fill", "publish", "post"}

(* Between its claim and its message a thread has its entry for itself      *)
(* (wmtAskQS fills the entry outside the critical section): no other thread *)
(* fills the same entry, nobody takes it for idle, and its worker is not    *)
(* about to look at it, until FileName is set last and the start posted.    *)
EntryOwned ==
  \A t \in Threads : Filling(t) =>
    LET i == asker[t].at IN
    /\ \A u \in Threads \ {t} : Filling(u) => asker[u].at # i
    /\ it[i] = Kind(t)
    /\ worker[i].pc \in {"release", "wait"} /\ starts[i] = 0
    /\ IF AskerAt(t, "post")
       THEN file[i] = asker[t].task /\ caller[i] = t
       ELSE file[i] = None

(* The message that ends a wait is about the task that was asked: it was    *)
(* run once, and its client has its answer.                                 *)
EndIsOwn ==
  \A t \in Threads :
    /\ begun[t] <= 1
    /\ Len(ends[t]) <= 1
    /\ ends[t] # <<>> =>
         /\ Head(ends[t]) = asker[t].task
         /\ begun[t] = 1
         /\ t \in Callers => answered[t]

Idle == {i \in Workers : it[i] = "idle"}

(* Every idle entry is covered by one unit: free, held by a thread that has *)
(* not claimed its entry yet, or about to be released.  So a thread with a  *)
(* unit finds an idle entry: the branch of wmtAskQS marked "this should not *)
(* appeares" is never taken.                                                *)
UnitsCounted ==
  /\ sem + Cardinality({t \in Threads : asker[t].pc \in {"enter", "scan", "claim"}})
         + Cardinality({i \in Workers : WorkerAt(i, "release")})
       = Cardinality(Idle)
  /\ \A t \in Threads : ~(AskerAt(t, "scan") /\ asker[t].at = N)

(* The script of worker i waits for the script it calls.                    *)
Nesting(i) ==
  /\ WorkerAt(i, "run")
  /\ AskerAt(i, "acquire") \/ (AskerAt(i, "await") /\ ends[i] = <<>>)

(* No unit is left, and every worker waits for a script that its own script *)
(* has called, or may wait for a client that does not read.                 *)
PoolStuck == sem = 0 /\ \A i \in Workers : Nesting(i) \/ Unheard(i)

(* Whether a thread that has asked, or a worker, can go on.                 *)
AskerReady(t) ==
  \/ AskerAt(t, "acquire") /\ sem > 0
  \/ AskerAt(t, "enter") /\ lock = None
  \/ asker[t].pc \in {"scan", "claim", "fill", "publish", "post"}
  \/ AskerAt(t, "await") /\ ends[t] # <<>>
WorkerReady(i) ==
  \/ worker[i].pc \in {"boot", "loop", "end", "free", "release"}
  \/ WorkerAt(i, "run") /\ AskerAt(i, "out") /\ ~Unheard(i)
  \/ WorkerAt(i, "reply") /\ ~Unheard(i)
  \/ WorkerAt(i, "wait") /\ (queue[i] => starts[i] > 0)

(* As long as somebody waits for a task whose client reads, a thread or a   *)
(* worker can go on, unless the pool is stuck: that takes every worker, and *)
(* each of them waits for a script that its script calls or for a client    *)
(* that does not read (SrvWriteExchngBuf has no time limit).                *)
StopsExplained ==
  (\E t \in Threads : ~AskerAt(t, "out") /\ asker[t].task.of \notin deaf) =>
    \/ \E t \in Threads : AskerReady(t)
    \/ \E i \in Workers : WorkerReady(i)
    \/ PoolStuck

(* The pool is being stopped, asqlidle has replaced a worker - the unit of  *)
(* a worker that is terminated is lost, and so may be the task in its       *)
(* entry - or a worker was late, and may miss its first message.            *)
Disturbed == detach.pc # "off" \/ kills > 0 \/ late # {}

(* Everyone who asks is served, if its client reads: unless the pool is     *)
(* stuck, as it is when the scripts wait for one another and when clients   *)
(* that do not read keep every worker, or is disturbed.                     *)
TaskEnds ==
  \A t \in Threads :
    AskerAt(t, "acquire") ~>
      (AskerAt(t, "out") \/ asker[t].task.of \in deaf \/ PoolStuck \/ Disturbed)

(* asqlidle does not wait for ever for the worker it has begun: the wait is *)
(* over, or the entry is that of a client's task again, whose positive id   *)
(* asqlidle takes for its own mark.                                         *)
IdlerEnds == idler.pc # "off" ~> (idler.pc = "off" \/ it[idler.at] = "top")

(* A task whose thread waits for ever: ProcessDetach has cleared its entry, *)
(* or the worker of the entry has ended.                                    *)
TaskLost ==
  \E t \in Threads :
    /\ AskerAt(t, "await") /\ begun[t] = 0
    /\ file[asker[t].at] = None \/ WorkerAt(asker[t].at, "ended")

(* The entry that ProcessDetach watches was claimed again. *)
Overclaimed == detach.pc = "wait" /\ it[detach.at] \in {"top", "inner"}

(* ProcessDetach comes to its end, unless a thread claims an entry behind   *)
(* its back (the wait for "idle" may then miss it, or wait for a task that  *)
(* is lost), a script waits for one it calls or for a client that does not  *)
(* read, a worker was replaced, or one was late and misses the message.     *)
DetachEnds ==
  detach.pc = "mark" ~>
    \/ detach.pc = "done"
    \/ PoolStuck \/ (\E i \in Workers : Unheard(i))
    \/ TaskLost \/ Overclaimed
    \/ kills > 0 \/ late # {}

StatusOf(t) ==
  IF AskerAt(t, "out") THEN "idle"
  ELSE IF ends[t] # <<>> THEN "ended"
  ELSE IF begun[t] = 0 THEN "asked" ELSE "running"

(* The pool does what a service of tasks promises. *)
Service == INSTANCE TaskService WITH status <- [t \in Threads |-> StatusOf(t)]
ServesTasks == Service!Spec
====
