---- MODULE Tables ----
(***************************************************************************)
(* The tables that the ASQL engines share, wmtasql/diofile.c, dio.c,       *)
(* t_lock_r.c, asqlutl.c and the parts of asqlana.c and askact2.c that     *)
(* open, lock, read, write, commit and close them.                         *)
(*                                                                         *)
(* A worker runs one script at a time: FROM wakes the tables, the actions  *)
(* read a record and change it (calrec) or add one (apprec).  Without      *)
(* UPDATE a change is written at once; with UPDATE it is kept in a log     *)
(* (phuf) that asqlDbCommit writes while it holds every table of FROM.     *)
(* Each table has a critical section with a byte that says it is taken     *)
(* (inCriticalSection), and a small array of record locks.                 *)
(*                                                                         *)
(* The byte is read and written outside the critical section.  A store to  *)
(* it may stay unseen by the others until its thread enters or leaves a    *)
(* critical section: field store of a worker.                              *)
(***************************************************************************)
EXTENDS Integers, Sequences, FiniteSets

CONSTANTS Workers,    \* values of intOfThread; 0 marks a free record lock
          Files,
          Opable,     \* FileManOpable: tables that stay open without users
          Missing,    \* names in a FROM that cannot be opened
          Forbidden,  \* tables the user of the script may not read
          RecNum,     \* RecNum[f]: records of f to begin with
          HandleNum,  \* _DioFileHandleNum_
          LockNum,    \* lock_num, record locks of a table
          Tries,      \* tryCount of asqlDbCommit
          Scripts,    \* [from, exclusive, update, append, acts], see ScriptOK
          MaxScripts, \* bound: scripts that are run
          None

Acts == [op : {"calrec", "apprec"}, table : Nat, rec : Nat]
ScriptOK(s) ==
  /\ s.from \in Seq(Files) /\ s.from # <<>>
  /\ {s.exclusive, s.update, s.append} \subseteq BOOLEAN
  /\ s.acts \in Seq(Acts)
  /\ \A i \in DOMAIN s.acts : /\ s.acts[i].table \in DOMAIN s.from
                              /\ s.acts[i].rec \in 1 .. RecNum[s.from[s.acts[i].table]]

ASSUME TablesAssumption ==
  /\ Workers \subseteq Nat /\ IsFiniteSet(Workers)
  /\ Opable \subseteq Files /\ Missing \subseteq Files /\ Forbidden \subseteq Files
  /\ RecNum \in [Files -> Nat \ {0}]
  /\ {HandleNum, LockNum, MaxScripts} \subseteq Nat \ {0}
  /\ Tries \in Nat
  /\ \A s \in Scripts : ScriptOK(s)
  /\ None \notin Int

VARIABLES
  df,        \* df[f]: the dFILE of table f
  files,     \* _DioOpenFile_: the tables that are open, in order
  dofn,      \* owner of the critical section dofnCE, or None
  job,       \* job[w]: the script of worker w (fFrTo) and how far it is
  data,      \* data[f]: records of f, each the number of its last writer
  number,    \* scripts begun so far
  undefined  \* a thread has left a critical section it does not own

vars == <<df, files, dofn, job, data, number, undefined>>

Elements(s) == {s[i] : i \in DOMAIN s}
Open == Elements(files)
Slots == 0 .. LockNum - 1

Closed == [users |-> 0, gen |-> 0, owner |-> None, depth |-> 0, flag |-> 0,
           locks |-> [i \in Slots |-> 0], lost |-> 0]

(* kept: tables may be left locked; misread: a flag was read as 0 though    *)
(* the table was owned (both only for BlocksExplained)                      *)
Idle(kept) == [at |-> "idle", script |-> None, k |-> 1, handles |-> <<>>, log |-> <<>>,
               tries |-> Tries, store |-> None, seen |-> None, no |-> 0,
               kept |-> kept, misread |-> FALSE]

Init ==
  /\ df = [f \in Files |-> Closed]
  /\ files = <<>>
  /\ dofn = None
  /\ job = [w \in Workers |-> Idle(FALSE)]
  /\ data = [f \in Files |-> [r \in 1 .. RecNum[f] |-> 0]]
  /\ number = 0
  /\ undefined = FALSE

-----------------------------------------------------------------------------
(* The critical section of a table and its flag                             *)

At(w, pc) == ~undefined /\ job[w].at = pc
Landed(w) == job[w].store = None
From(w)   == [i \in DOMAIN job[w].handles |-> job[w].handles[i].file]

CanEnter(w, f) == Landed(w) /\ df[f].owner \in {None, w}

Entered(w, f) == [df EXCEPT ![f].owner = w, ![f].depth = @ + 1]

(* A store to inCriticalSection becomes visible.                            *)
Land(w) ==
  /\ ~undefined
  /\ ~Landed(w)
  /\ df' = [df EXCEPT ![job[w].store.file].flag = job[w].store.flag]
  /\ job' = [job EXCEPT ![w].store = None]
  /\ UNCHANGED <<files, dofn, data, number, undefined>>

(* What w reads of the flag of f: its own store before anybody else's.      *)
Flag(w, f) == IF ~Landed(w) /\ job[w].store.file = f THEN job[w].store.flag ELSE df[f].flag

(* wmtDbfLock, and the end of wmtDbfTryLock                                 *)
Lock(w, f, next) ==
  /\ CanEnter(w, f)
  /\ df' = Entered(w, f)
  /\ job' = [job EXCEPT ![w] = [next EXCEPT !.store = [file |-> f, flag |-> 1]]]
  /\ UNCHANGED undefined

(* wmtDbfUnLock leaves first and clears the flag afterwards.                *)
UnLock(w, f, next) ==
  /\ Landed(w)
  /\ IF df[f].owner = w
     THEN /\ df' = [df EXCEPT ![f].depth = @ - 1,
                              ![f].owner = IF df[f].depth = 1 THEN None ELSE w]
          /\ job' = [job EXCEPT ![w] = [next EXCEPT !.store = [file |-> f, flag |-> 0]]]
          /\ UNCHANGED undefined
     ELSE undefined' = TRUE /\ UNCHANGED <<df, job>>

-----------------------------------------------------------------------------
(* FROM: wake the tables                                                    *)

(* What j does next: its next action; the commit of a script with UPDATE or *)
(* the end of another when there is none.                                   *)
Acting(j) ==
  IF j.k <= Len(j.script.acts) THEN [j EXCEPT !.at = "act"]
  ELSE [j EXCEPT !.at = IF j.script.update THEN "commit" ELSE "target", !.k = 1]

(* What j does once a table of its FROM is ready.                           *)
Ready(j) == IF Len(j.handles) < Len(j.script.from) THEN [j EXCEPT !.at = "from"] ELSE Acting(j)

Begin(w) ==
  /\ At(w, "idle")
  /\ number < MaxScripts
  /\ number' = number + 1
  /\ \E s \in Scripts :
       job' = [job EXCEPT ![w].at = "from", ![w].script = s, ![w].no = number + 1]
  /\ UNCHANGED <<df, files, dofn, data, undefined>>

(* Mutant: a table with one user is taken for an unused one.                *)
LittleUsed == {i \in DOMAIN files : df[files[i]].users <= 1}
(* The list of open tables after dAwake has made room, if it is full, by    *)
(* releasing the first table nobody uses.                                   *)
Unused == {i \in DOMAIN files : df[files[i]].users < 1}
Without(i) == [k \in 1 .. Len(files) - 1 |-> files[IF k < i THEN k ELSE k + 1]]
Roomy ==
  IF Len(files) < HandleNum \/ Unused = {} THEN files
  ELSE Without(CHOOSE i \in Unused : \A j \in Unused : i <= j)

(* Mutant: the limit of the list is tested with > instead of >=.            *)
AwokenOneMore(f) ==
  IF f \in Open THEN files
  ELSE IF f \in Missing \/ Len(Roomy) > HandleNum THEN Roomy
  ELSE Append(Roomy, f)

(* dAwake, all of it under dofnCE                                           *)
Awoken(f) ==
  IF f \in Open THEN files
  ELSE IF f \in Missing \/ Len(Roomy) >= HandleNum THEN Roomy
  ELSE Append(Roomy, f)

Users(f) ==
  [g \in Files |->
     IF g = f /\ g \in Elements(Awoken(f))
     THEN IF g \in Open THEN [df[g] EXCEPT !.users = @ + 1]
          ELSE [Closed EXCEPT !.users = 1, !.gen = df[g].gen + 1]
     ELSE IF g \in Elements(Awoken(f)) THEN df[g] ELSE [Closed EXCEPT !.gen = df[g].gen]]

(* FromPro: the next table of FROM.  If it cannot be opened, or the user    *)
(* has no right to it, FROM fails and forgets the tables it has opened.     *)
AwakeFrom(w) ==
  LET j == job[w]
      f == j.script.from[Len(j.handles) + 1]
      woken == Users(f)
      got == f \in Elements(Awoken(f))
      handles == IF got THEN Append(j.handles, [file |-> f, gen |-> woken[f].gen]) ELSE j.handles
      lost(g) == Cardinality({i \in DOMAIN handles : handles[i].file = g})
      locked == j.script.exclusive /\ j.handles # <<>>
  IN
  /\ At(w, "from")
  /\ dofn = None
  /\ Landed(w)
  /\ files' = Awoken(f)
  /\ IF got /\ f \notin Forbidden
     THEN /\ df' = woken
          /\ job' = [job EXCEPT ![w] =
               LET k == [j EXCEPT !.handles = handles]
               IN IF j.script.exclusive THEN [k EXCEPT !.at = "lock"] ELSE Ready(k)]
     ELSE /\ df' = [g \in Files |-> [woken[g] EXCEPT !.lost = @ + lost(g)]]
          /\ job' = [job EXCEPT ![w] = Idle(j.kept \/ locked)]
  /\ UNCHANGED <<dofn, data, number, undefined>>

(* EXCLUSIVE: FromPro locks each table once it is open.                     *)
LockFrom(w) ==
  LET j == job[w] IN
  /\ At(w, "lock")
  /\ Lock(w, j.handles[Len(j.handles)].file, Ready(j))
  /\ UNCHANGED <<files, dofn, data, number>>

-----------------------------------------------------------------------------
(* The actions of the script                                                *)

Act(w)  == job[w].script.acts[job[w].k]
Table(w) == job[w].handles[Act(w).table].file
Went(j) == Acting([j EXCEPT !.k = @ + 1, !.seen = None])
Failed(j) == [j EXCEPT !.at = IF j.script.update THEN "free" ELSE "target",
                       !.k = Len(j.handles), !.log = <<>>, !.seen = None]

(* get1rec: the record is copied inside the critical section.               *)
Read(w) ==
  /\ At(w, "act")
  /\ CanEnter(w, Table(w))
  /\ job' = [job EXCEPT ![w].at = Act(w).op,
                        ![w].seen = <<Table(w), Act(w).rec, data[Table(w)][Act(w).rec]>>]
  /\ UNCHANGED <<df, files, dofn, data, number, undefined>>

(* toLockRec: the lock that covers record r of f.  The records a lock       *)
(* covers depend on how many records the table has now.                     *)
LockOf(f, r) ==
  LET i == r \div ((Len(data[f]) \div LockNum) + 1)
  IN IF i >= LockNum THEN LockNum - 1 ELSE i

(* Mutant: after its last try toLockRec takes the lock from its holder.     *)
GrantedAtLast(w, f, i) == TRUE

Granted(w, f, i) == df[f].locks[i] \in {0, w}

(* calrec with UPDATE: lock the record, then write the change to the log.   *)
(* The tries of toLockRec are all inside the critical section, so one test  *)
(* of the lock stands for them; if it fails, so does the script.            *)
CalRecLater(w) ==
  LET j == job[w]
      f == Table(w)
      i == LockOf(f, Act(w).rec)
  IN
  /\ At(w, "calrec")
  /\ j.script.update
  /\ CanEnter(w, f)
  /\ IF Granted(w, f, i)
     THEN /\ df' = [df EXCEPT ![f].locks[i] = w]
          /\ job' = [job EXCEPT ![w] = Went([j EXCEPT
               !.log = Append(@, [file |-> f, rec |-> Act(w).rec, slot |-> i])])]
     ELSE job' = [job EXCEPT ![w] = Failed(j)] /\ UNCHANGED df
  /\ UNCHANGED <<files, dofn, data, number, undefined>>

(* calrec without UPDATE: put1rec at once                                   *)
CalRecNow(w) ==
  /\ At(w, "calrec")
  /\ ~job[w].script.update
  /\ CanEnter(w, Table(w))
  /\ data' = [data EXCEPT ![Table(w)][Act(w).rec] = job[w].no]
  /\ job' = [job EXCEPT ![w] = Went(job[w])]
  /\ UNCHANGED <<df, files, dofn, number, undefined>>

(* checkRecValid refuses the new value, or another action of the script     *)
(* fails: the script is given up without a commit.                          *)
ActFails(w) ==
  /\ At(w, "calrec")
  /\ job' = [job EXCEPT ![w] = Failed(job[w])]
  /\ UNCHANGED <<df, files, dofn, data, number, undefined>>

(* apprec: lock the whole table, put a record at its end, unlock.  With     *)
(* UPDATE the table is unlocked before the log is written and once more     *)
(* after it.                                                                *)
AppRecLock(w) ==
  /\ At(w, "apprec")
  /\ Lock(w, Table(w), [job[w] EXCEPT !.at = "append"])
  /\ UNCHANGED <<files, dofn, data, number>>

AppRecPut(w) ==
  /\ At(w, "append")
  /\ CanEnter(w, Table(w))
  /\ data' = [data EXCEPT ![Table(w)] = Append(@, job[w].no)]
  /\ job' = [job EXCEPT ![w].at = IF job[w].script.update THEN "unlock1" ELSE "unlock2",
                        ![w].seen = None]
  /\ UNCHANGED <<df, files, dofn, number, undefined>>

(* put1rec refuses the record or cannot write: apprec unlocks the table     *)
(* once, and the script is given up.                                        *)
AppRecFails(w) ==
  /\ At(w, "append")
  /\ UnLock(w, Table(w), Failed(job[w]))
  /\ UNCHANGED <<files, dofn, data, number>>

AppRecUnLock(w) ==
  LET j == job[w] IN
  /\ \/ /\ At(w, "unlock1")
        /\ UnLock(w, Table(w), [j EXCEPT !.at = "unlock2", !.log = Append(@,
             [file |-> Table(w), rec |-> Len(data[Table(w)]), slot |-> None])])
     \/ /\ At(w, "unlock2")
        /\ UnLock(w, Table(w), Went(j))
  /\ UNCHANGED <<files, dofn, data, number>>

-----------------------------------------------------------------------------
(* asqlDbCommit                                                             *)

(* Mutant: after its last try asqlDbCommit writes the log all the same.     *)
CommitAtLast(w) ==
  LET j == job[w]
      f == From(w)[j.k]
  IN
  /\ At(w, "commit")
  /\ job' = [job EXCEPT ![w] =
       IF Flag(w, f) = 0
       THEN [j EXCEPT !.at = "enter", !.misread = df[f].owner \notin {None, w}]
       ELSE IF j.tries = 0
       THEN [j EXCEPT !.at = IF j.log = <<>> THEN "free" ELSE "write", !.k = 1]
       ELSE [j EXCEPT !.at = IF j.k = 1 THEN "commit" ELSE "retreat",
                      !.k = IF j.k = 1 THEN 1 ELSE j.k - 1, !.tries = @ - 1]]
  /\ UNCHANGED <<df, files, dofn, data, number, undefined>>

(* Mutant: the tries of asqlDbCommit are not counted.                       *)
TryForEver(w) ==
  LET j == job[w]
      f == From(w)[j.k]
  IN
  /\ At(w, "commit")
  /\ job' = [job EXCEPT ![w] =
       IF Flag(w, f) = 0
       THEN [j EXCEPT !.at = "enter", !.misread = df[f].owner \notin {None, w}]
       ELSE [j EXCEPT !.at = IF j.k = 1 THEN "commit" ELSE "retreat",
                      !.k = IF j.k = 1 THEN 1 ELSE j.k - 1]]
  /\ UNCHANGED <<df, files, dofn, data, number, undefined>>

(* wmtDbfTryLock looks at the flag before it enters.  If the table looks    *)
(* taken, asqlDbCommit leaves those it has and tries again later; at the    *)
(* last try it returns at once, and keeps them.                             *)
TryLock(w) ==
  LET j == job[w]
      f == From(w)[j.k]
      last == Len(j.handles)
  IN
  /\ At(w, "commit")
  /\ job' = [job EXCEPT ![w] =
       IF Flag(w, f) = 0
       THEN [j EXCEPT !.at = "enter", !.misread = df[f].owner \notin {None, w}]
       ELSE IF j.tries = 0
       THEN [j EXCEPT !.at = "free", !.k = last, !.log = <<>>, !.kept = @ \/ j.k > 1]
       ELSE [j EXCEPT !.at = IF j.k = 1 THEN "commit" ELSE "retreat",
                      !.k = IF j.k = 1 THEN 1 ELSE j.k - 1, !.tries = @ - 1]]
  /\ UNCHANGED <<df, files, dofn, data, number, undefined>>

(* Mutant: asqlDbCommit tries again without leaving the tables it has.      *)
RetreatNot(w) ==
  /\ At(w, "retreat")
  /\ job' = [job EXCEPT ![w].at = "commit", ![w].k = 1]
  /\ UNCHANGED <<df, files, dofn, data, number, undefined>>

Retreat(w) ==
  LET j == job[w] IN
  /\ At(w, "retreat")
  /\ UnLock(w, From(w)[j.k], IF j.k > 1 THEN [j EXCEPT !.k = @ - 1]
                                        ELSE [j EXCEPT !.at = "commit"])
  /\ UNCHANGED <<files, dofn, data, number>>

Writing(j) ==
  IF j.k <= Len(j.log) THEN [j EXCEPT !.at = "write"]
  ELSE [j EXCEPT !.at = "unlock", !.k = 1, !.log = <<>>]

TryEnter(w) ==
  LET j == [job[w] EXCEPT !.misread = FALSE] IN
  /\ At(w, "enter")
  /\ Lock(w, From(w)[j.k], IF j.k < Len(j.handles)
                           THEN [j EXCEPT !.at = "commit", !.k = @ + 1]
                           ELSE Writing([j EXCEPT !.k = 1]))
  /\ UNCHANGED <<files, dofn, data, number>>

(* The log is written record by record with put1rec; k is the next record.  *)
(* asqlDbCommit does not ask whether put1rec could write it; here it can.   *)
WriteLog(w) ==
  LET j == job[w]
      e == j.log[j.k]
  IN
  /\ At(w, "write")
  /\ CanEnter(w, e.file)
  /\ data' = [data EXCEPT ![e.file][e.rec] = j.no]
  /\ job' = [job EXCEPT ![w] = Writing([j EXCEPT !.k = @ + 1])]
  /\ UNCHANGED <<df, files, dofn, number, undefined>>

UnLockAll(w) ==
  LET j == job[w]
      last == Len(j.handles)
  IN
  /\ At(w, "unlock")
  /\ UnLock(w, From(w)[j.k], IF j.k < last THEN [j EXCEPT !.k = @ + 1]
                                           ELSE [j EXCEPT !.at = "free"])
  /\ UNCHANGED <<files, dofn, data, number>>

-----------------------------------------------------------------------------
(* asqlCloseFiles                                                           *)

(* freeRecLock, from the last table of FROM to the first                    *)
FreeRecLock(w) ==
  LET j == job[w]
      f == From(w)[j.k]
  IN
  /\ At(w, "free")
  /\ CanEnter(w, f)
  /\ df' = [df EXCEPT ![f].locks = [i \in Slots |-> IF @[i] = w THEN 0 ELSE @[i]]]
  /\ job' = [job EXCEPT ![w].k = @ - 1, ![w].at = IF j.k > 1 THEN "free" ELSE "close"]
  /\ UNCHANGED <<files, dofn, data, number, undefined>>

(* Without UPDATE: a target that looks locked is unlocked, whoever has      *)
(* locked it.  The target of TO (APPEND) is the first table of FROM.        *)
CloseTarget(w) ==
  LET j == job[w]
      next == [j EXCEPT !.at = "close"]
      target == From(w)[1]
  IN
  /\ At(w, "target")
  /\ IF j.script.append /\ Flag(w, target) = 1
     THEN UnLock(w, target, next)
     ELSE job' = [job EXCEPT ![w] = next] /\ UNCHANGED <<df, undefined>>
  /\ UNCHANGED <<files, dofn, data, number>>

CloseFrom(w) ==
  LET j == job[w] IN
  /\ At(w, "close")
  /\ IF j.script.exclusive
     THEN UnLock(w, From(w)[1], [j EXCEPT !.at = "sleep"])
     ELSE job' = [job EXCEPT ![w].at = "sleep"] /\ UNCHANGED <<df, undefined>>
  /\ UNCHANGED <<files, dofn, data, number>>

Slept(j) == IF Len(j.handles) = 1 THEN Idle(j.kept)
            ELSE [j EXCEPT !.at = "close", !.handles = Tail(@)]

(* dSleep enters dofnCE; the last user of a table releases it, with its     *)
(* critical section and its record locks.                                   *)
Sleep(w) ==
  LET f == From(w)[1]
      released == df[f].users = 1 /\ f \notin Opable
  IN
  /\ At(w, "sleep")
  /\ dofn = None
  /\ Landed(w)
  /\ IF released
     THEN /\ df' = [df EXCEPT ![f] = [Closed EXCEPT !.gen = df[f].gen]]
          /\ files' = Without(CHOOSE i \in DOMAIN files : files[i] = f)
          /\ job' = [job EXCEPT ![w] = Slept(job[w])]
          /\ UNCHANGED dofn
     ELSE /\ df' = [df EXCEPT ![f].users = @ - 1]
          /\ dofn' = w
          /\ job' = [job EXCEPT ![w].at = "flush"]
          /\ UNCHANGED files
  /\ UNCHANGED <<data, number, undefined>>

(* Otherwise dSleep flushes the table, in its critical section, before it   *)
(* leaves dofnCE.                                                           *)
Flush(w) ==
  /\ At(w, "flush")
  /\ CanEnter(w, From(w)[1])
  /\ dofn' = None
  /\ job' = [job EXCEPT ![w] = Slept(job[w])]
  /\ UNCHANGED <<df, files, data, number, undefined>>

-----------------------------------------------------------------------------
Step(w) ==
  \/ AwakeFrom(w) \/ LockFrom(w)
  \/ Read(w) \/ CalRecLater(w) \/ CalRecNow(w) \/ ActFails(w)
  \/ AppRecLock(w) \/ AppRecPut(w) \/ AppRecFails(w) \/ AppRecUnLock(w)
  \/ TryLock(w) \/ TryEnter(w) \/ Retreat(w) \/ WriteLog(w) \/ UnLockAll(w)
  \/ FreeRecLock(w) \/ CloseTarget(w) \/ CloseFrom(w) \/ Sleep(w) \/ Flush(w)

Next == \E w \in Workers : Begin(w) \/ Land(w) \/ Step(w)

Spec == Init /\ [][Next]_vars

(* The threads of the pool are scheduled by the operating system: one that  *)
(* can go on goes on.                                                       *)
FairSpec == Spec /\ \A w \in Workers : WF_vars(Land(w) \/ Step(w))

-----------------------------------------------------------------------------
(* Properties                                                               *)

Handles == [file : Files, gen : Nat]
Entries == [file : Files, rec : Nat \ {0}, slot : Slots \cup {None}]

dFILE == [users : Nat, gen : Nat, owner : Workers \cup {None}, depth : Nat, flag : {0, 1},
          locks : [Slots -> Workers \cup {0}], lost : Nat]

InAct == {"act", "calrec", "apprec", "append", "unlock1", "unlock2"}
InCommit == {"commit", "retreat", "enter", "unlock", "free"}
InClose == {"close", "sleep", "flush"}
Ats == {"idle", "from", "lock", "write", "target"} \cup InAct \cup InCommit \cup InClose

Jobs == [at : Ats, script : Scripts \cup {None}, k : Nat,
         handles : Seq(Handles), log : Seq(Entries), tries : 0 .. Tries,
         store : [file : Files, flag : {0, 1}] \cup {None},
         seen : (Files \X (Nat \ {0}) \X (0 .. MaxScripts)) \cup {None},
         no : 0 .. MaxScripts, kept : BOOLEAN, misread : BOOLEAN]

(* Every variable holds a value of its type.                                *)
TypeOK ==
  /\ df \in [Files -> dFILE]
  /\ \A f \in Files : df[f].owner = None <=> df[f].depth = 0
  /\ files \in Seq(Files) /\ Len(files) <= HandleNum
  /\ \A i, k \in DOMAIN files : files[i] = files[k] => i = k
  /\ dofn \in Workers \cup {None}
  /\ job \in [Workers -> Jobs]
  /\ data \in [Files -> Seq(0 .. MaxScripts)]
  /\ number \in 0 .. MaxScripts
  /\ undefined \in BOOLEAN

(* SleepDBF counts the scripts that use a table, and those whose FROM       *)
(* failed after it was opened: dAwake counts them and nobody ever uncounts  *)
(* them.  The worker that is flushing a table has been uncounted already.   *)
Flushers(f) == {w \in Workers : job[w].at = "flush" /\ From(w)[1] = f}
Uses(f) == UNION {{w} \X {i \in DOMAIN job[w].handles : From(w)[i] = f} : w \in Workers}
UsersCounted ==
  \A f \in Files :
    df[f].users + Cardinality(Flushers(f)) = df[f].lost + Cardinality(Uses(f))

(* A table a script works on stays the one it has opened: it is neither     *)
(* evicted to make room for another nor released by the end of another      *)
(* script that uses it and reopened behind its back, because its users are  *)
(* counted.                                                                 *)
InUseStaysOpen ==
  /\ UsersCounted
  /\ \A w \in Workers : \A h \in Elements(job[w].handles) :
       h.file \in Open /\ df[h.file].gen = h.gen

(* Two transactions have changes of the same record in their logs only if   *)
(* one is run by worker 0, whose locks look free, or if an append has       *)
(* changed, between the two, which lock covers the record.                  *)
RecordHeld ==
  \A v, w \in Workers \ {0} : \A d \in Elements(job[v].log), e \in Elements(job[w].log) :
    v # w /\ d.file = e.file /\ d.rec = e.rec => d.slot # e.slot

(* How far a script is tells which tables it has and where k points.        *)
Fit(j) ==
  /\ j.at = "idle" => j.handles = <<>> /\ j.k = 1
  /\ j.at # "idle" => j.script \in Scripts
  /\ j.at = "from" => Len(j.handles) < Len(j.script.from) /\ j.k = 1
  /\ j.at = "lock" => Len(j.handles) \in 1 .. Len(j.script.from) /\ j.k = 1
  /\ j.at \in InAct \cup InCommit \cup {"write", "target"} =>
       Len(j.handles) = Len(j.script.from)
  /\ j.at \notin InClose => \A i \in DOMAIN j.handles : j.handles[i].file = j.script.from[i]
  /\ j.at \in InAct => j.k \in DOMAIN j.script.acts
  /\ j.at \in InCommit => j.k \in DOMAIN j.handles
  /\ j.at = "write" => j.k \in DOMAIN j.log
  /\ j.at \in InClose => j.handles # <<>>
  /\ j.log # <<>> =>
       j.at \in InAct \cup {"commit", "retreat", "enter", "write"} /\ j.script.update
  /\ j.at = "unlock1" => j.script.update

ControlInv ==
  \A w \in Workers : Fit(job[w]) /\ (job[w].at = "flush" => dofn = w)

(* A record in the log of a worker is covered by a lock that is still the   *)
(* worker's, or was appended by it while it had the table for itself.       *)
HeldInv ==
  /\ \A f \in Files : RecNum[f] <= Len(data[f])
  /\ \A w \in Workers : job[w].at \in {"append", "unlock1"} => df[Table(w)].owner = w
  /\ \A w \in Workers : \A e \in Elements(job[w].log) :
       /\ e.rec <= Len(data[e.file])
       /\ \E i \in DOMAIN job[w].handles : From(w)[i] = e.file
       /\ w # 0 /\ e.slot # None => df[e.file].locks[e.slot] = w
       /\ e.slot = None => \A v \in Workers :
            /\ v # w => \A d \in Elements(job[v].log) :
                 d.slot = None /\ d.file = e.file => d.rec # e.rec
            /\ job[v].at = "unlock1" /\ Table(v) = e.file => e.rec < Len(data[e.file])

(* The positions in FROM whose tables w has for sure: a commit that has come *)
(* to its k-th table has those before it, one that writes has them all.     *)
Sure(j) ==
  CASE j.at \in {"commit", "enter"} -> 1 .. j.k - 1
    [] j.at = "write" -> DOMAIN j.handles
    [] OTHER -> {}

(* A record that was read is still to be used only where calrec and apprec  *)
(* use it.                                                                  *)
SureInv ==
  \A w \in Workers :
    /\ \A i \in Sure(job[w]) : df[From(w)[i]].owner = w
    /\ job[w].at \notin {"calrec", "apprec", "append"} => job[w].seen = None
    /\ job[w].at # "idle" => job[w].no # 0

(* What a script may hold of its tables, as pairs of a reason and a position *)
(* in FROM: EXCLUSIVE from the moment FROM has locked a table until it is   *)
(* closed, a commit from wmtDbfTryLock to wmtDbfUnLock, apprec around its   *)
(* put1rec (with UPDATE, until the first of its two unlocks).               *)
FromHeld(j) ==
  LET last == Len(j.script.from)
      n == Len(j.handles)
  IN
  CASE j.at = "lock" -> 1 .. n - 1
    [] j.at = "close" -> last - n + 1 .. last
    [] j.at \in {"sleep", "flush"} -> last - n + 2 .. last
    [] OTHER -> 1 .. n
CommitHeld(j) ==
  CASE j.at = "retreat" -> 1 .. j.k
    [] j.at = "unlock" -> j.k .. Len(j.handles)
    [] OTHER -> Sure(j)
AppendHeld(j) ==
  IF j.at \in {"append", "unlock1"} \/ (j.at = "unlock2" /\ ~j.script.update)
  THEN {j.script.acts[j.k].table} ELSE {}
Held(j) ==
  IF j.at = "idle" THEN {}
  ELSE (IF j.script.exclusive THEN {"from"} \X FromHeld(j) ELSE {})
       \cup {"commit"} \X CommitHeld(j)
       \cup {"append"} \X AppendHeld(j)
HeldOf(j, f) == {h \in Held(j) : j.script.from[h[2]] = f}

(* The depth of a critical section is at most what its owner holds it for.  *)
DepthInv ==
  \A w \in Workers :
    /\ job[w].at = "lock" => job[w].script.exclusive
    /\ job[w].at \in InClose => \A i \in DOMAIN job[w].handles :
         From(w)[i] = job[w].script.from[Len(job[w].script.from) - Len(job[w].handles) + i]
    /\ ~job[w].kept => \A f \in Files :
         df[f].owner = w => df[f].depth <= Cardinality(HeldOf(job[w], f))

(* The commits that wait for a table that looked free to them when they     *)
(* tested it do not wait for each other in a circle.                        *)
Entering == {w \in Workers : job[w].at = "enter" /\ ~job[w].misread}
WaitInv ==
  /\ dofn # None => job[dofn].at = "flush"
  /\ \A S \in SUBSET Entering : S # {} =>
       \E w \in S : df[From(w)[job[w].k]].owner \notin S \ {w}

(* The inductive invariant behind InUseStaysOpen, RecordHeld and            *)
(* BlocksExplained (proved in TablesProofs and TablesLockProofs).           *)
KeptInv == TypeOK /\ ControlInv /\ InUseStaysOpen /\ HeldInv
TablesInv == KeptInv /\ SureInv /\ DepthInv /\ WaitInv

(* The worker that w waits for, or w itself if it does not wait             *)
Wanted(w) ==
  LET j == job[w] IN
  CASE j.at = "lock" -> {j.handles[Len(j.handles)].file}
    [] j.at \in {"act", "calrec", "apprec", "append"} -> {Table(w)}
    [] j.at \in {"enter", "free"} -> {From(w)[j.k]}
    [] j.at = "flush" -> {From(w)[1]}
    [] OTHER -> {}
WantsList(w) == job[w].at \in {"from", "sleep"}
Blocker(w) ==
  LET owners == {df[f].owner : f \in Wanted(w)} \cup (IF WantsList(w) THEN {dofn} ELSE {})
  IN IF owners \subseteq {None, w} THEN w ELSE CHOOSE v \in owners : v \notin {None, w}

(* Workers that wait for each other, and one that waits for a worker that   *)
(* has no script                                                            *)
Knot(S) == S # {} /\ \A w \in S : Blocker(w) \in S \ {w}
Abandoned(w) == Blocker(w) # w /\ job[Blocker(w)].at = "idle"

(* A worker that waits for ever if nothing but these waits is considered    *)
Stuck(w) ==
  \E S \in SUBSET Workers : w \in S /\ \A v \in S : Abandoned(v) \/ Blocker(v) \in S \ {v}

(* No ordinary mix of scripts waits for ever.  The workers that wait for    *)
(* each other, or for a worker that has no script, are there because one of *)
(* them left its tables locked when it gave up a commit or a FROM, runs an  *)
(* EXCLUSIVE script, or read the flag of a table as 0 while another worker  *)
(* owned it: the test of wmtDbfTryLock otherwise keeps commits from waiting *)
(* for tables while they hold some.                                         *)
BlocksExplained ==
  /\ \A S \in SUBSET Workers : Knot(S) =>
       \E w \in S : \/ job[w].kept
                    \/ job[w].misread
                    \/ job[w].at # "idle" /\ job[w].script.exclusive
  /\ \A w \in Workers : Abandoned(w) => job[Blocker(w)].kept

(* A commit writes its log only while it owns every table of its FROM, and  *)
(* nobody reads, writes or appends between two records of it: the tables    *)
(* behave like those of Transactions.  A commit happens when the last table *)
(* is locked; the records not yet written are taken for written.            *)
Late(w) == {<<job[w].log[i].file, job[w].log[i].rec>> : i \in job[w].k .. Len(job[w].log)}
Writers(f, r) == {w \in Workers : job[w].at = "write" /\ <<f, r>> \in Late(w)}
Stored ==
  [f \in Files |-> [r \in DOMAIN data[f] |->
     IF Writers(f, r) = {} THEN data[f][r] ELSE job[CHOOSE w \in Writers(f, r) : TRUE].no]]
Pending ==
  [w \in Workers |-> IF job[w].at = "write" THEN {}
                     ELSE {<<e.file, e.rec>> : e \in Elements(job[w].log)}]
Seen == [w \in Workers |-> job[w].seen]
T == INSTANCE Transactions WITH store <- Stored, pending <- Pending, view <- Seen
ImplementsTransactions == T!Spec

(* A script comes to its end, also when its commit finds a table locked     *)
(* again and again, unless it waits for workers that wait for it.           *)
ScriptEnds ==
  \A w \in Workers : job[w].at # "idle" ~> (job[w].at = "idle" \/ undefined \/ Stuck(w))
====
