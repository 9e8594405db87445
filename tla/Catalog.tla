------------------------------- MODULE Catalog -------------------------------
(***************************************************************************)
(* The two catalogues of the server, the user database (tuser.c) and the   *)
(* stored procedures (s_proc.c), as their callers use them: the scheduler, *)
(* which audits one logon after the other (tqueue.c), and the service      *)
(* threads with TUserShell and the handler of stored procedures (shell.c). *)
(*                                                                         *)
(* Each function of tuser.c and s_proc.c runs under the mutex of its       *)
(* catalogue, from its first read to its flush, and is one step here.      *)
(* What takes several steps is what the callers put together: a logon, a   *)
(* change of password, the deletion, update or fetch of a procedure, and   *)
(* the lists, which hold the mutex while they wait for their client.       *)
(* A client that a thread waits for may do nothing more and yet not leave. *)
(*                                                                         *)
(* A procedure is its length.  The rights to it are a list whose last      *)
(* entry is memory that was never written (s_proc.c:234): what an audit    *)
(* says is a choice here.                                                  *)
(***************************************************************************)
EXTENDS Integers, FiniteSets

CONSTANTS Services,   \* service threads
          Scheduler,  \* the thread of Schedule
          Names,      \* names of users
          Passwords,
          CHAR_MAX,   \* cLogonFail is a signed char
          Procs,      \* names of procedures
          MaxLen,     \* bound: length of a procedure
          MaxWork,    \* bound: requests of the service threads
          None

ASSUME CatalogAssumption ==
  /\ Scheduler \notin Services
  /\ None \notin Names \cup Procs \cup Services \cup {Scheduler}
  /\ IsFiniteSet(Names) /\ IsFiniteSet(Procs)
  /\ CHAR_MAX \in Nat /\ MaxLen \in Nat \ {0} /\ MaxWork \in Nat

Threads == Services \cup {Scheduler}

Char == -(CHAR_MAX + 1) .. CHAR_MAX
Infos == [id : Nat, passwd : Passwords, locked : {0, 1}, fails : Char]

VARIABLES
  users,    \* users[u]: the record of u in UserDB, or None
  next,     \* dwUserId of the record "#T_USER"
  userDB,   \* hUserDBMutex: its owner across steps, or None
  procs,    \* procs[p]: length of procedure p in spFile, 0 if there is none
  rights,   \* procedures p with a record "SP.p"
  spFile,   \* hSPMutex
  job,      \* job[t]: what thread t is doing
  work,     \* requests the service threads have got
  undone,   \* history: the user in its logon, if its record has changed since
  spoilt    \* history: an operation of two writes failed at the second, or
            \* TUserWriteTemplate took its number from another record

vars == <<users, next, userDB, procs, rights, spFile, job, work, undone, spoilt>>
userVars == <<users, next, userDB, undone>>
procVars == <<procs, rights, spFile>>

(* key: the user or procedure; info: the record that was read; goal: what an *)
(* audit is for; use: what the procedure is read for; said and room: its    *)
(* length as announced and the buffer for it; left: packets of a list, sent: *)
(* there was one before; deaf: the client for whom the thread waits neither *)
(* sends nor reads any more nor leaves, or the script it runs does not end  *)
Idle == [at |-> "idle", key |-> None, info |-> None, goal |-> None, use |-> "send",
         said |-> 0, room |-> 0, left |-> 0, sent |-> FALSE, deaf |-> FALSE]

Init ==
  /\ users = [u \in Names |-> None]
  /\ next = 1
  /\ userDB = None
  /\ procs = [p \in Procs |-> 0]
  /\ rights = {}
  /\ spFile = None
  /\ job = [t \in Threads |-> Idle]
  /\ work = 0
  /\ undone = {}
  /\ spoilt = FALSE

At(t, pc) == job[t].at = pc
Goto(t, j) == job' = [job EXCEPT ![t] = j]

(* A service thread takes its next request.                                 *)
Request(c) == At(c, "idle") /\ work < MaxWork /\ work' = work + 1

-----------------------------------------------------------------------------
(* tuser.c                                                                  *)

(* Put new into the database.  A logon that has read one of the records     *)
(* that change will write its own copy over it.                             *)
Store(new) ==
  /\ userDB = None
  /\ users' = new
  /\ undone' = undone \cup {u \in Names : At(Scheduler, "logon") /\ u = job[Scheduler].key
                                             /\ new[u] # users[u]}
  /\ UNCHANGED userDB

NewUser(p) == [id |-> next, passwd |-> p, locked |-> 0, fails |-> 0]

(* A new user gets the number of the template, which is counted up in a     *)
(* second write.                                                            *)
TUserAdd(c) ==
  /\ Request(c)
  /\ \E u \in Names, p \in Passwords :
       /\ users[u] = None
       /\ Store([users EXCEPT ![u] = NewUser(p)])
  /\ \/ next' = next + 1 /\ UNCHANGED spoilt
     \/ spoilt' = TRUE /\ UNCHANGED next
  /\ UNCHANGED <<procVars, job>>

TUserDelete(c) ==
  /\ Request(c)
  /\ \E u \in Names : users[u] # None /\ Store([users EXCEPT ![u] = None])
  /\ UNCHANGED <<procVars, job, next, spoilt>>

(* The record is written under its new name, over a user who has that name, *)
(* and then removed under its old one.                                      *)
TUserRename(c) ==
  /\ Request(c)
  /\ \E u, v \in Names :
       /\ u # v
       /\ users[u] # None
       /\ \/ Store([users EXCEPT ![v] = users[u], ![u] = None]) /\ UNCHANGED spoilt
          \/ Store([users EXCEPT ![v] = users[u]]) /\ spoilt' = TRUE
  /\ UNCHANGED <<procVars, job, next>>

(* What the functions that change one record make of it.                    *)
TUserSetInfo(r) ==
  {[r EXCEPT !.passwd = p] : p \in Passwords} \cup {[r EXCEPT !.locked = b] : b \in {0, 1}}
    \cup {[r EXCEPT !.fails = n] : n \in Char}
(* Mutant: the number of the caller's record is kept.                       *)
TUserSetAllInfoWhole(r, info) == info

TUserSetAllInfo(r, info) == [info EXCEPT !.id = r.id]
TUserLock(r) == [r EXCEPT !.locked = 1]
TUserClearLogonFailCount(r) == [r EXCEPT !.fails = 0]

(* The commands of TUserShell that change one record.  The command to       *)
(* unlock a user calls TUserLock.                                           *)
ChangeUser(c) ==
  /\ Request(c)
  /\ \E u \in Names :
       /\ users[u] # None
       /\ \E r \in TUserSetInfo(users[u])
                   \cup {TUserLock(users[u]), TUserClearLogonFailCount(users[u])}
                   \cup {TUserSetAllInfo(users[u], NewUser(p)) : p \in Passwords} :
            Store([users EXCEPT ![u] = r])
  /\ UNCHANGED <<procVars, job, next, spoilt>>

(* The name under which TUserWriteTemplate reads the old template was never *)
(* set: it may be any name, or none that is in the database.                *)
TUserWriteTemplate(c) ==
  /\ Request(c)
  /\ userDB = None
  /\ \/ UNCHANGED <<next, spoilt>>
     \/ \E u \in Names : users[u] # None /\ next' = users[u].id /\ spoilt' = TRUE
  /\ UNCHANGED <<users, userDB, undone, procVars, job>>

(* cmTS_USER_CHNG_PWD: the old password is read and compared ...            *)
ReadPasswd(c) ==
  /\ Request(c)
  /\ userDB = None
  /\ \E u \in Names, old \in Passwords :
       IF users[u] # None /\ users[u].passwd = old
       THEN Goto(c, [Idle EXCEPT !.at = "passwd", !.key = u])
       ELSE UNCHANGED job
  /\ UNCHANGED <<userVars, procVars, spoilt>>

(* ... and the new one written.                                             *)
WritePasswd(c) ==
  LET u == job[c].key IN
  /\ At(c, "passwd")
  /\ userDB = None
  /\ Goto(c, Idle)
  /\ IF users[u] = None
     THEN UNCHANGED <<users, userDB, undone>>
     ELSE \E p \in Passwords : Store([users EXCEPT ![u].passwd = p])
  /\ UNCHANGED <<procVars, next, work, spoilt>>

-----------------------------------------------------------------------------
(* TUserLogon, by the scheduler                                             *)

(* A request reaches the scheduler.                                         *)
BeginLogon ==
  /\ At(Scheduler, "idle")
  /\ \E u \in Names : Goto(Scheduler, [Idle EXCEPT !.at = "audit", !.key = u])
  /\ UNCHANGED <<userVars, procVars, work, spoilt>>

(* Mutant: the counter is as wide as it needs.                             *)
OneMoreWide(n) == n + 1

OneMore(n) == IF n = CHAR_MAX THEN -(CHAR_MAX + 1) ELSE n + 1

(* What the logon makes of its copy of the record: the password or the      *)
(* computer is refused, or the user is locked, or everything is right.      *)
Audited(r) ==
  {[r EXCEPT !.fails = OneMore(@)], IF r.locked = 1 THEN r ELSE [r EXCEPT !.fails = 0]}

ReadUser ==
  LET u == job[Scheduler].key IN
  /\ At(Scheduler, "audit")
  /\ userDB = None
  /\ IF users[u] = None
     THEN Goto(Scheduler, Idle)
     ELSE \E r \in Audited(users[u]) :
            Goto(Scheduler, [Idle EXCEPT !.at = "logon", !.key = u, !.info = r])
  /\ UNCHANGED <<userVars, procVars, work, spoilt>>

(* Mutant: a user who has logged on is unlocked.                            *)
WriteUserUnlocked ==
  LET u == job[Scheduler].key IN
  /\ At(Scheduler, "logon")
  /\ userDB = None
  /\ users' = IF users[u] = None THEN users
              ELSE [users EXCEPT ![u] = [TUserSetAllInfo(@, job[Scheduler].info)
                                         EXCEPT !.locked = 0]]
  /\ undone' = {}
  /\ Goto(Scheduler, Idle)
  /\ UNCHANGED <<next, userDB, procVars, work, spoilt>>

(* The whole copy is written back, whatever is in the record by now.        *)
WriteUser ==
  LET u == job[Scheduler].key IN
  /\ At(Scheduler, "logon")
  /\ userDB = None
  /\ users' = IF users[u] = None THEN users
              ELSE [users EXCEPT ![u] = TUserSetAllInfo(@, job[Scheduler].info)]
  /\ undone' = {}
  /\ Goto(Scheduler, Idle)
  /\ UNCHANGED <<next, userDB, procVars, work, spoilt>>

-----------------------------------------------------------------------------
(* s_proc.c                                                                 *)

(* The number of the user is read from UserDB before anything else.  The    *)
(* text of a procedure comes after the packet that names it: if that packet *)
(* is the only one the length is 0, and nothing is written.                 *)
BeginProc(c) ==
  /\ Request(c)
  /\ userDB = None
  /\ \E p \in Procs :
       \/ \E goal \in {"new", "update"} :
            Goto(c, [Idle EXCEPT !.at = "receive", !.key = p, !.goal = goal])
       \/ Goto(c, [Idle EXCEPT !.at = "grant", !.key = p])
       \/ \E goal \in {"delete", "size"} :
            Goto(c, [Idle EXCEPT !.at = "audit", !.key = p, !.goal = goal])
       \/ Goto(c, [Idle EXCEPT !.at = "audit", !.key = p, !.goal = "size", !.use = "run"])
  /\ UNCHANGED <<userVars, procVars, spoilt>>

(* The rest of the text is there, or it is too long or the agent has left.  *)
Receive(c) ==
  LET j == job[c] IN
  /\ At(c, "receive")
  /\ ~j.deaf
  /\ \/ Goto(c, Idle)
     \/ Goto(c, [j EXCEPT !.at = IF j.goal = "new" THEN "new" ELSE "audit"])
  /\ UNCHANGED <<userVars, procVars, work, spoilt>>

(* GetStoredProcSize fails.  Execution goes on all the same, with a length  *)
(* of 0xFFFFFFFF and a buffer of 15 bytes.                                  *)
NoSize(j) ==
  IF j.use = "run" THEN [j EXCEPT !.at = "audit", !.goal = "read", !.said = MaxLen + 1, !.room = 0]
  ELSE Idle

spAuditUserPrivilege(c) ==
  LET j == job[c] IN
  /\ At(c, "audit")
  /\ spFile = None
  /\ \/ j.key \in rights /\ Goto(c, [j EXCEPT !.at = j.goal])
     \/ Goto(c, IF j.goal = "size" THEN NoSize(j) ELSE Idle)
  /\ UNCHANGED <<userVars, procVars, work, spoilt>>

(* The procedure is written, and then a record of rights for its owner; if  *)
(* that fails the procedure is removed again.                               *)
NewStoredProc(c) ==
  LET p == job[c].key IN
  /\ At(c, "new")
  /\ spFile = None
  /\ Goto(c, Idle)
  /\ \/ UNCHANGED <<procs, rights, spoilt>>
     \/ /\ procs[p] = 0
        /\ \E n \in 1 .. MaxLen : procs' = [procs EXCEPT ![p] = n]
        /\ \/ rights' = rights \cup {p} /\ UNCHANGED spoilt
           \/ UNCHANGED rights /\ spoilt' = TRUE
  /\ UNCHANGED <<userVars, spFile, work>>

(* cmTS_PROC_GRANT by the first user: nobody asks whether the procedure     *)
(* exists.                                                                  *)
spGrantUserPrivilege(c) ==
  /\ At(c, "grant")
  /\ spFile = None
  /\ Goto(c, Idle)
  /\ rights' \in {rights, rights \cup {job[c].key}}
  /\ UNCHANGED <<userVars, procs, spFile, work, spoilt>>

(* The procedure is removed, then its rights; either may fail.              *)
DeleteStoredProc(c) ==
  LET p == job[c].key IN
  /\ At(c, "delete")
  /\ spFile = None
  /\ Goto(c, Idle)
  /\ \/ UNCHANGED <<procs, rights>>
     \/ /\ procs[p] # 0
        /\ procs' = [procs EXCEPT ![p] = 0]
        /\ rights' \in {rights, rights \ {p}}
  /\ UNCHANGED <<userVars, spFile, work, spoilt>>

(* Mutant: the procedure is written whether it still exists or not.         *)
UpdateUntested(c) ==
  LET p == job[c].key IN
  /\ At(c, "update")
  /\ spFile = None
  /\ Goto(c, Idle)
  /\ \/ UNCHANGED procs
     \/ \E n \in 1 .. MaxLen : procs' = [procs EXCEPT ![p] = n]
  /\ UNCHANGED <<userVars, rights, spFile, work, spoilt>>

UpdateStoredProc(c) ==
  LET p == job[c].key IN
  /\ At(c, "update")
  /\ spFile = None
  /\ Goto(c, Idle)
  /\ \/ UNCHANGED procs
     \/ /\ procs[p] # 0
        /\ \E n \in 1 .. MaxLen : procs' = [procs EXCEPT ![p] = n]
  /\ UNCHANGED <<userVars, rights, spFile, work, spoilt>>

(* The caller allocates a buffer of the size it is told.                    *)
GetStoredProcSize(c) ==
  LET j == job[c]
      n == procs[j.key]
  IN
  /\ At(c, "size")
  /\ spFile = None
  /\ Goto(c, IF n = 0 THEN NoSize(j)
             ELSE [j EXCEPT !.at = "audit", !.goal = "read", !.said = n, !.room = n])
  /\ UNCHANGED <<userVars, procVars, work, spoilt>>

ReadStoredProc(c) ==
  LET j == job[c]
      n == procs[j.key]
  IN
  /\ At(c, "read")
  /\ spFile = None
  /\ Goto(c, IF n = 0 \/ j.said < n THEN Idle ELSE [j EXCEPT !.at = "copied", !.said = n])
  /\ UNCHANGED <<userVars, procVars, work, spoilt>>

(* The procedure is sent to the client, each packet but the first when the  *)
(* client has read the one before; or the client sends its variables and    *)
(* the procedure is run.                                                    *)
UseProc(c) ==
  /\ At(c, "copied")
  /\ ~job[c].deaf
  /\ Goto(c, Idle)
  /\ UNCHANGED <<userVars, procVars, work, spoilt>>

-----------------------------------------------------------------------------
(* TUserEnum and TSprocEnum: a packet for each entry and one more to end    *)
(* the list, or a single one (UserListProc).                                *)

Lists(n) == {1, n + 1}

BeginUserList(c) ==
  /\ Request(c)
  /\ userDB = None
  /\ userDB' = c
  /\ \E n \in Lists(Cardinality({u \in Names : users[u] # None})) :
       Goto(c, [Idle EXCEPT !.at = "users", !.left = n])
  /\ UNCHANGED <<users, next, undone, procVars, spoilt>>

BeginProcList(c) ==
  /\ Request(c)
  /\ spFile = None
  /\ spFile' = c
  /\ Goto(c, [Idle EXCEPT !.at = "procs",
                          !.left = Cardinality({p \in Procs : procs[p] # 0}) + 1])
  /\ UNCHANGED <<userVars, procs, rights, spoilt>>

Listing(c) == At(c, "users") \/ At(c, "procs")

(* SrvWriteExchngBuf returns because the client has read the packet before, *)
(* or because there was none.                                               *)
SendEntry(c) ==
  /\ Listing(c)
  /\ ~job[c].deaf
  /\ job[c].left > 1
  /\ Goto(c, [job[c] EXCEPT !.left = @ - 1, !.sent = TRUE])
  /\ UNCHANGED <<userVars, procVars, work, spoilt>>


(* The last packet is sent, or SrvWriteExchngBuf fails because the agent    *)
(* has left.                                                                *)
EndList(c) ==
  /\ Listing(c)
  /\ ~job[c].deaf
  /\ Goto(c, Idle)
  /\ userDB' = IF At(c, "users") THEN None ELSE userDB
  /\ spFile' = IF At(c, "procs") THEN None ELSE spFile
  /\ UNCHANGED <<users, next, undone, procs, rights, work, spoilt>>

-----------------------------------------------------------------------------
(* Where a service thread waits, without limit, for what its client does.   *)
Waits(c) ==
  \/ At(c, "receive")
  \/ At(c, "copied") /\ (job[c].use = "run" \/ job[c].said > 1)
  \/ Listing(c) /\ job[c].sent

ClientStops(c) ==
  /\ Waits(c)
  /\ ~job[c].deaf
  /\ Goto(c, [job[c] EXCEPT !.deaf = TRUE])
  /\ UNCHANGED <<userVars, procVars, work, spoilt>>

-----------------------------------------------------------------------------
LogonStep == ReadUser \/ WriteUser

ServiceStep(c) ==
  \/ WritePasswd(c) \/ Receive(c)
  \/ spAuditUserPrivilege(c) \/ NewStoredProc(c) \/ spGrantUserPrivilege(c)
  \/ DeleteStoredProc(c) \/ UpdateStoredProc(c)
  \/ GetStoredProcSize(c) \/ ReadStoredProc(c) \/ UseProc(c)
  \/ SendEntry(c) \/ EndList(c)

ServiceBegin(c) ==
  \/ TUserAdd(c) \/ TUserDelete(c) \/ TUserRename(c) \/ ChangeUser(c)
  \/ TUserWriteTemplate(c) \/ ReadPasswd(c) \/ BeginProc(c)
  \/ BeginUserList(c) \/ BeginProcList(c)

Next ==
  \/ BeginLogon \/ LogonStep
  \/ \E c \in Services : ServiceBegin(c) \/ ServiceStep(c) \/ ClientStops(c)

Spec == Init /\ [][Next]_vars

(* Threads are scheduled, and a mutex that is free is given to one that     *)
(* waits for it.  A client does what its thread waits for, or leaves, until *)
(* ClientStops.                                                             *)
FairSpec ==
  Spec /\ WF_vars(LogonStep) /\ \A c \in Services : WF_vars(ServiceStep(c))

-----------------------------------------------------------------------------
(* Properties                                                               *)

Jobs == [at : {"idle", "receive", "audit", "logon", "passwd", "new", "grant", "delete",
               "update", "size", "read", "copied", "users", "procs"},
         key : Names \cup Procs \cup {None},
         info : Infos \cup {None},
         goal : {"new", "delete", "update", "size", "read", None},
         use : {"send", "run"}, said : Nat, room : Nat, left : Nat,
         sent : BOOLEAN, deaf : BOOLEAN]

SchedulerJob(j) ==
  /\ j.at \in {"idle", "audit", "logon"}
  /\ j.at # "idle" => j.key \in Names
  /\ j.at = "logon" => j.info \in Infos

ServiceJob(j) ==
  /\ j.at # "logon"
  /\ j.at = "passwd" => j.key \in Names
  /\ j.at \in {"receive", "audit", "new", "grant", "delete", "update", "size", "read"}
       => j.key \in Procs
  /\ j.at = "receive" => j.goal \in {"new", "update"}
  /\ j.at = "audit" => j.goal \in {"delete", "update", "size", "read"}

(* Every variable holds a value of its type.  The scheduler only logs users *)
(* on, with the record it has read; a service thread only audits            *)
(* procedures.                                                              *)
TypeOK ==
  /\ users \in [Names -> Infos \cup {None}]
  /\ next \in Nat
  /\ userDB \in Services \cup {None} /\ spFile \in Services \cup {None}
  /\ procs \in [Procs -> 0 .. MaxLen]
  /\ rights \subseteq Procs
  /\ job \in [Threads -> Jobs]
  /\ SchedulerJob(job[Scheduler])
  /\ \A c \in Services : ServiceJob(job[c])
  /\ work \in 0 .. MaxWork
  /\ undone \subseteq Names
  /\ spoilt \in BOOLEAN

(* No two users have the same number, and none has a number that is still   *)
(* to be given, whatever additions, renamings, changes and logons overlap:  *)
(* rights to procedures are given to numbers.  Excepted are a failed second *)
(* write and the template that is taken from another record.  That somebody *)
(* renames "#T_USER" itself, which TUserRename does not forbid, is no step  *)
(* of this module.                                                          *)
IdsUnique ==
  ~spoilt => /\ \A u \in Names : users[u] # None => users[u].id < next
             /\ \A u, v \in Names :
                  u # v /\ users[u] # None /\ users[v] # None => users[u].id # users[v].id

(* A logon does not touch the password, the lock or the number of a user,   *)
(* unless the record has changed since the logon read it; the number is the *)
(* user's own even then.                                                    *)
LogonKeeps ==
  [][At(Scheduler, "logon") /\ job'[Scheduler].at = "idle" =>
       \A u \in Names : users[u] # None =>
         /\ users'[u].id = users[u].id
         /\ u \notin undone => /\ users'[u].passwd = users[u].passwd
                               /\ users'[u].locked = users[u].locked]_vars

(* Whatever New, Update, Delete and Grant interleave, a procedure has a     *)
(* record of rights, without which nobody could ever delete it, unless      *)
(* NewStoredProc failed between its two writes; and one that grows between  *)
(* GetStoredProcSize and ReadStoredProc is not copied into the buffer of    *)
(* its old size.  An execution that was told no size (room 0) is excepted:  *)
(* there the copy does not fit.                                             *)
ProcsWhole ==
  /\ ~spoilt => \A p \in Procs : procs[p] # 0 => p \in rights
  /\ \A c \in Services : At(c, "copied") /\ job[c].room # 0 => job[c].said <= job[c].room

=============================================================================
