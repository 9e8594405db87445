---------------------------- MODULE CatalogProofs ----------------------------
(***************************************************************************)
(* The numbers of the users stay unique, a logon changes no password and   *)
(* no lock of a record that stayed as it was read, and procedures keep     *)
(* their rights and fit their buffers, for any number of service threads,  *)
(* users and procedures.                                                   *)
(***************************************************************************)
EXTENDS Catalog, FiniteSetTheorems, TLAPS

(* Numbers and lengths that the actions compute.                            *)
LEMMA OneMoreType ==
  ASSUME CatalogAssumption, NEW n \in Char
  PROVE  OneMore(n) \in Char
  BY SMT DEF OneMore, Char, CatalogAssumption

(* What the functions of tuser.c make of a record is a record.              *)
LEMMA RecordsType ==
  ASSUME CatalogAssumption, NEW r \in Infos
  PROVE  /\ TUserSetInfo(r) \subseteq Infos
         /\ TUserLock(r) \in Infos
         /\ TUserClearLogonFailCount(r) \in Infos
         /\ Audited(r) \subseteq Infos
         /\ \A i \in Infos : TUserSetAllInfo(r, i) \in Infos
<1>1. 0 \in Char
  BY SMT DEF Char, CatalogAssumption
<1>2. OneMore(r.fails) \in Char
  BY OneMoreType DEF Infos
<1>3. TUserSetInfo(r) \subseteq Infos
  BY SMT DEF TUserSetInfo, Infos
<1>4. TUserLock(r) \in Infos
  BY SMT DEF TUserLock, Infos
<1>7. TUserClearLogonFailCount(r) \in Infos
  BY <1>1, SMT DEF TUserClearLogonFailCount, Infos
<1>5. Audited(r) \subseteq Infos
  BY <1>1, <1>2, SMT DEF Audited, Infos
<1>6. \A i \in Infos : TUserSetAllInfo(r, i) \in Infos
  BY SMT DEF TUserSetAllInfo, Infos
<1>. QED
  BY <1>3, <1>4, <1>5, <1>6, <1>7

(* ... with the number it had.                                              *)
LEMMA NumbersKept ==
  ASSUME CatalogAssumption, NEW r \in Infos
  PROVE  /\ \A s \in TUserSetInfo(r) : s.id = r.id
         /\ TUserLock(r).id = r.id
         /\ TUserClearLogonFailCount(r).id = r.id
         /\ \A i \in Infos : TUserSetAllInfo(r, i).id = r.id
<1>1. \A s \in TUserSetInfo(r) : s.id = r.id
  BY SMT DEF TUserSetInfo, Infos
<1>2. TUserLock(r).id = r.id /\ TUserClearLogonFailCount(r).id = r.id
  BY SMT DEF TUserLock, TUserClearLogonFailCount, Infos
<1>3. \A i \in Infos : TUserSetAllInfo(r, i).id = r.id
  BY SMT DEF TUserSetAllInfo, Infos
<1>. QED
  BY <1>1, <1>2, <1>3

LEMMA NewUserType ==
  ASSUME CatalogAssumption, next \in Nat, NEW p \in Passwords
  PROVE  NewUser(p) \in Infos /\ NewUser(p).id = next
<1>1. 0 \in Char
  BY SMT DEF Char, CatalogAssumption
<1>. QED
  BY <1>1, SMT DEF NewUser, Infos

LEMMA IdleType ==
  CatalogAssumption => Idle \in Jobs /\ SchedulerJob(Idle) /\ ServiceJob(Idle)
  BY SMT DEF Idle, Jobs, SchedulerJob, ServiceJob

-----------------------------------------------------------------------------
(* TypeOK                                                                   *)

JobsOK ==
  /\ job \in [Threads -> Jobs]
  /\ SchedulerJob(job[Scheduler])
  /\ \A c \in Services : ServiceJob(job[c])

(* A service thread goes on to a job of its own.                            *)
LEMMA ServiceGoes ==
  ASSUME CatalogAssumption, JobsOK,
         NEW c \in Services, NEW j \in Jobs, ServiceJob(j), Goto(c, j)
  PROVE  JobsOK'
<1>1. c \in Threads /\ Scheduler \in Threads /\ c # Scheduler
  BY DEF Threads, CatalogAssumption
<1>2. job' \in [Threads -> Jobs]
  BY <1>1 DEF Goto, JobsOK
<1>3. job'[Scheduler] = job[Scheduler]
  BY <1>1 DEF Goto, JobsOK
<1>4. \A d \in Services : job'[d] = IF d = c THEN j ELSE job[d]
  BY <1>1 DEF Goto, JobsOK, Threads
<1>. QED
  BY <1>2, <1>3, <1>4 DEF JobsOK

LEMMA SchedulerGoes ==
  ASSUME CatalogAssumption, JobsOK, NEW j \in Jobs, SchedulerJob(j), Goto(Scheduler, j)
  PROVE  JobsOK'
<1>1. Scheduler \in Threads /\ Scheduler \notin Services
  BY DEF Threads, CatalogAssumption
<1>2. job' \in [Threads -> Jobs]
  BY <1>1 DEF Goto, JobsOK
<1>3. job'[Scheduler] = j
  BY <1>1 DEF Goto, JobsOK
<1>4. \A d \in Services : job'[d] = job[d]
  BY <1>1 DEF Goto, JobsOK, Threads
<1>. QED
  BY <1>2, <1>3, <1>4 DEF JobsOK

(* The jobs a service thread begins with are its own.                       *)
LEMMA BegunJobs ==
  ASSUME CatalogAssumption
  PROVE  /\ \A u \in Names : LET k == [Idle EXCEPT !.at = "passwd", !.key = u]
                             IN k \in Jobs /\ ServiceJob(k)
         /\ \A p \in Procs :
              LET k == [Idle EXCEPT !.at = "grant", !.key = p] IN k \in Jobs /\ ServiceJob(k)
         /\ \A p \in Procs, g \in {"new", "update"} :
              LET k == [Idle EXCEPT !.at = "receive", !.key = p, !.goal = g]
              IN k \in Jobs /\ ServiceJob(k)
         /\ \A p \in Procs, g \in {"delete", "size"} :
              LET k == [Idle EXCEPT !.at = "audit", !.key = p, !.goal = g]
              IN k \in Jobs /\ ServiceJob(k)
         /\ \A p \in Procs :
              LET k == [Idle EXCEPT !.at = "audit", !.key = p, !.goal = "size", !.use = "run"]
              IN k \in Jobs /\ ServiceJob(k)
         /\ \A n \in Nat, a \in {"users", "procs"} :
              LET k == [Idle EXCEPT !.at = a, !.left = n] IN k \in Jobs /\ ServiceJob(k)
<1>1. ASSUME NEW u \in Names
      PROVE  LET k == [Idle EXCEPT !.at = "passwd", !.key = u] IN k \in Jobs /\ ServiceJob(k)
  <2>. DEFINE k == [Idle EXCEPT !.at = "passwd", !.key = u]
  <2>1. k \in Jobs
    BY ZenonT(30) DEF Idle, Jobs
  <2>2. k.at = "passwd" /\ k.key = u
    BY SMT DEF Idle
  <2>3. ServiceJob(k)
    BY <2>2, SMT DEF ServiceJob
  <2>. QED
    BY <2>1, <2>3
<1>2. ASSUME NEW p \in Procs
      PROVE  LET k == [Idle EXCEPT !.at = "grant", !.key = p] IN k \in Jobs /\ ServiceJob(k)
  <2>. DEFINE k == [Idle EXCEPT !.at = "grant", !.key = p]
  <2>1. k \in Jobs
    BY ZenonT(30) DEF Idle, Jobs
  <2>2. k.at = "grant" /\ k.key = p
    BY SMT DEF Idle
  <2>3. ServiceJob(k)
    BY <2>2, SMT DEF ServiceJob
  <2>. QED
    BY <2>1, <2>3
<1>6. ASSUME NEW p \in Procs, NEW g \in {"new", "update"}
      PROVE  LET k == [Idle EXCEPT !.at = "receive", !.key = p, !.goal = g]
             IN k \in Jobs /\ ServiceJob(k)
  <2>. DEFINE k == [Idle EXCEPT !.at = "receive", !.key = p, !.goal = g]
  <2>1. k \in Jobs
    BY ZenonT(30) DEF Idle, Jobs
  <2>2. k.at = "receive" /\ k.key = p /\ k.goal = g
    BY SMT DEF Idle
  <2>3. ServiceJob(k)
    BY <2>2, SMT DEF ServiceJob
  <2>. QED
    BY <2>1, <2>3
<1>3. ASSUME NEW p \in Procs, NEW g \in {"delete", "size"}
      PROVE  LET k == [Idle EXCEPT !.at = "audit", !.key = p, !.goal = g]
             IN k \in Jobs /\ ServiceJob(k)
  <2>. DEFINE k == [Idle EXCEPT !.at = "audit", !.key = p, !.goal = g]
  <2>1. k \in Jobs
    BY ZenonT(30) DEF Idle, Jobs
  <2>2. k.at = "audit" /\ k.key = p /\ k.goal = g
    BY SMT DEF Idle
  <2>3. ServiceJob(k)
    BY <2>2, SMT DEF ServiceJob
  <2>. QED
    BY <2>1, <2>3
<1>4. ASSUME NEW p \in Procs
      PROVE  LET k == [Idle EXCEPT !.at = "audit", !.key = p, !.goal = "size", !.use = "run"]
             IN k \in Jobs /\ ServiceJob(k)
  <2>. DEFINE k == [Idle EXCEPT !.at = "audit", !.key = p, !.goal = "size", !.use = "run"]
  <2>1. k \in Jobs
    BY ZenonT(30) DEF Idle, Jobs
  <2>2. k.at = "audit" /\ k.key = p /\ k.goal = "size"
    BY SMT DEF Idle
  <2>3. ServiceJob(k)
    BY <2>2, SMT DEF ServiceJob
  <2>. QED
    BY <2>1, <2>3
<1>5. ASSUME NEW n \in Nat, NEW a \in {"users", "procs"}
      PROVE  LET k == [Idle EXCEPT !.at = a, !.left = n] IN k \in Jobs /\ ServiceJob(k)
  <2>. DEFINE k == [Idle EXCEPT !.at = a, !.left = n]
  <2>1. k \in Jobs
    BY ZenonT(30) DEF Idle, Jobs
  <2>2. k.at = a
    BY SMT DEF Idle
  <2>3. ServiceJob(k)
    BY <2>2, SMT DEF ServiceJob
  <2>. QED
    BY <2>1, <2>3
<1>. QED
  BY <1>1, <1>2, <1>3, <1>4, <1>5, <1>6

(* ... and so are those it goes on to.                                      *)
LEMMA FollowingJobs ==
  ASSUME CatalogAssumption, NEW j \in Jobs, ServiceJob(j)
  PROVE  /\ j.at = "audit" => LET k == [j EXCEPT !.at = j.goal] IN k \in Jobs /\ ServiceJob(k)
         /\ j.at \in {"audit", "size"} => NoSize(j) \in Jobs /\ ServiceJob(NoSize(j))
         /\ \A n \in Nat : j.at = "size" =>
              LET k == [j EXCEPT !.at = "audit", !.goal = "read", !.said = n, !.room = n]
              IN k \in Jobs /\ ServiceJob(k)
         /\ \A n \in Nat : LET k == [j EXCEPT !.at = "copied", !.said = n]
                           IN k \in Jobs /\ ServiceJob(k)
         /\ j.left > 1 => LET k == [j EXCEPT !.left = @ - 1, !.sent = TRUE]
                          IN k \in Jobs /\ ServiceJob(k)
         /\ j.at = "receive" => LET k == [j EXCEPT !.at = IF j.goal = "new" THEN "new" ELSE "audit"]
                                IN k \in Jobs /\ ServiceJob(k)
         /\ LET k == [j EXCEPT !.deaf = TRUE] IN k \in Jobs /\ ServiceJob(k)
<1>. j = [at |-> j.at, key |-> j.key, info |-> j.info, goal |-> j.goal, use |-> j.use,
          said |-> j.said, room |-> j.room, left |-> j.left, sent |-> j.sent,
          deaf |-> j.deaf]
  BY SMT DEF Jobs
<1>1. ASSUME j.at = "audit"
      PROVE  LET k == [j EXCEPT !.at = j.goal] IN k \in Jobs /\ ServiceJob(k)
  <2>. DEFINE k == [j EXCEPT !.at = j.goal]
  <2>1. j.goal \in {"delete", "update", "size", "read"} /\ j.key \in Procs
    BY <1>1, SMT DEF ServiceJob
  <2>2. k \in Jobs
    BY <2>1, SMT DEF Jobs
  <2>3. k.at = j.goal /\ k.key = j.key
    BY SMT DEF Jobs
  <2>4. ServiceJob(k)
    BY <2>1, <2>3, SMT DEF ServiceJob
  <2>. QED
    BY <2>2, <2>4
<1>2. ASSUME NEW m \in Nat, NEW n \in Nat, j.at \in {"audit", "size"}
      PROVE  LET k == [j EXCEPT !.at = "audit", !.goal = "read", !.said = m, !.room = n]
             IN k \in Jobs /\ ServiceJob(k)
  <2>. DEFINE k == [j EXCEPT !.at = "audit", !.goal = "read", !.said = m, !.room = n]
  <2>1. j.key \in Procs
    BY <1>2, SMT DEF ServiceJob
  <2>2. k \in Jobs
    BY ZenonT(30) DEF Jobs
  <2>3. k.at = "audit" /\ k.key = j.key /\ k.goal = "read"
    BY SMT DEF Jobs
  <2>4. ServiceJob(k)
    BY <2>1, <2>3, SMT DEF ServiceJob
  <2>. QED
    BY <2>2, <2>4
<1>3. ASSUME j.at \in {"audit", "size"}
      PROVE  NoSize(j) \in Jobs /\ ServiceJob(NoSize(j))
  <2>1. MaxLen + 1 \in Nat
    BY SMT DEF CatalogAssumption
  <2>2. Idle \in Jobs /\ ServiceJob(Idle)
    BY IdleType
  <2>. QED
    BY <1>2, <1>3, <2>1, <2>2 DEF NoSize
<1>4. ASSUME NEW n \in Nat
      PROVE  LET k == [j EXCEPT !.at = "copied", !.said = n] IN k \in Jobs /\ ServiceJob(k)
  <2>. DEFINE k == [j EXCEPT !.at = "copied", !.said = n]
  <2>1. k \in Jobs
    BY ZenonT(30) DEF Jobs
  <2>2. k.at = "copied"
    BY SMT DEF Jobs
  <2>3. ServiceJob(k)
    BY <2>2, SMT DEF ServiceJob
  <2>. QED
    BY <2>1, <2>3
<1>5. ASSUME j.left > 1
      PROVE  LET k == [j EXCEPT !.left = @ - 1, !.sent = TRUE] IN k \in Jobs /\ ServiceJob(k)
  <2>. DEFINE k == [j EXCEPT !.left = @ - 1, !.sent = TRUE]
  <2>4. j.left - 1 \in Nat
    BY <1>5, SMT DEF Jobs
  <2>1. k \in Jobs
    BY <2>4, ZenonT(30) DEF Jobs
  <2>2. k.at = j.at /\ k.key = j.key /\ k.goal = j.goal
    BY SMT DEF Jobs
  <2>3. ServiceJob(k)
    BY <2>2, SMT DEF ServiceJob
  <2>. QED
    BY <2>1, <2>3
<1>6. ASSUME j.at = "receive"
      PROVE  LET k == [j EXCEPT !.at = IF j.goal = "new" THEN "new" ELSE "audit"]
             IN k \in Jobs /\ ServiceJob(k)
  <2>. DEFINE a == IF j.goal = "new" THEN "new" ELSE "audit"
              k == [j EXCEPT !.at = a]
  <2>1. j.goal \in {"new", "update"} /\ j.key \in Procs
    BY <1>6, SMT DEF ServiceJob
  <2>2. k \in Jobs
    BY SMT DEF Jobs
  <2>3. k.at = a /\ k.key = j.key /\ k.goal = j.goal
    BY SMT DEF Jobs
  <2>4. ServiceJob(k)
    BY <2>1, <2>3, SMT DEF ServiceJob
  <2>. QED
    BY <2>2, <2>4
<1>7. LET k == [j EXCEPT !.deaf = TRUE] IN k \in Jobs /\ ServiceJob(k)
  <2>. DEFINE k == [j EXCEPT !.deaf = TRUE]
  <2>1. k \in Jobs
    BY ZenonT(30) DEF Jobs
  <2>2. k.at = j.at /\ k.key = j.key /\ k.goal = j.goal
    BY SMT DEF Jobs
  <2>3. ServiceJob(k)
    BY <2>2, SMT DEF ServiceJob
  <2>. QED
    BY <2>1, <2>3
<1>. QED
  BY <1>1, <1>2, <1>3, <1>4, <1>5, <1>6, <1>7

-----------------------------------------------------------------------------
(* The steps of the user database                                           *)

UsersOK == users \in [Names -> Infos \cup {None}]

LEMMA UsersType ==
  ASSUME CatalogAssumption, TypeOK, NEW c \in Services,
         \/ TUserAdd(c) \/ TUserDelete(c) \/ TUserRename(c) \/ ChangeUser(c)
         \/ WritePasswd(c)
  PROVE  UsersOK' /\ undone' \subseteq Names /\ next' \in Nat /\ userDB' = userDB
<1>. DEFINE Old == [Names -> Infos \cup {None}]
<1>0. users \in Old /\ undone \subseteq Names /\ next \in Nat
  BY DEF TypeOK
<1>1. ASSUME NEW new \in Old, Store(new)
      PROVE  UsersOK' /\ undone' \subseteq Names /\ userDB' = userDB
  BY <1>0, <1>1 DEF Store, UsersOK
<1>2. CASE TUserAdd(c)
  <2>1. PICK u \in Names, p \in Passwords : Store([users EXCEPT ![u] = NewUser(p)])
    BY <1>2 DEF TUserAdd
  <2>2. [users EXCEPT ![u] = NewUser(p)] \in Old
    BY <1>0, NewUserType
  <2>3. next' = next + 1 \/ next' = next
    BY <1>2 DEF TUserAdd
  <2>4. next' \in Nat
    BY <1>0, <2>3, SMT
  <2>. QED
    BY <1>1, <2>1, <2>2, <2>4
<1>3. CASE TUserDelete(c)
  <2>1. PICK u \in Names : Store([users EXCEPT ![u] = None])
    BY <1>3 DEF TUserDelete
  <2>2. [users EXCEPT ![u] = None] \in Old
    BY <1>0
  <2>. QED
    BY <1>0, <1>1, <1>3, <2>1, <2>2 DEF TUserDelete
<1>4. CASE TUserRename(c)
  <2>1. PICK u \in Names, v \in Names :
          \/ Store([users EXCEPT ![v] = users[u], ![u] = None])
          \/ Store([users EXCEPT ![v] = users[u]])
    BY <1>4 DEF TUserRename
  <2>2. [users EXCEPT ![v] = users[u]] \in Old
    BY <1>0
  <2>3. [users EXCEPT ![v] = users[u], ![u] = None] \in Old
    BY <1>0
  <2>. QED
    BY <1>0, <1>1, <1>4, <2>1, <2>2, <2>3 DEF TUserRename
<1>5. CASE ChangeUser(c)
  <2>1. PICK u \in Names : 
          /\ users[u] # None
          /\ \E r \in TUserSetInfo(users[u])
                       \cup {TUserLock(users[u]), TUserClearLogonFailCount(users[u])}
                       \cup {TUserSetAllInfo(users[u], NewUser(p)) : p \in Passwords} :
                Store([users EXCEPT ![u] = r])
    BY <1>5 DEF ChangeUser
  <2>2. users[u] \in Infos
    BY <1>0, <2>1
  <2>3. PICK r \in Infos : Store([users EXCEPT ![u] = r])
    BY <1>0, <2>1, <2>2, RecordsType, NewUserType
  <2>4. [users EXCEPT ![u] = r] \in Old
    BY <1>0
  <2>. QED
    BY <1>0, <1>1, <1>5, <2>3, <2>4 DEF ChangeUser
<1>6. CASE WritePasswd(c)
  <2>. DEFINE u == job[c].key
  <2>1. CASE users[u] = None
    BY <1>0, <1>6, <2>1 DEF WritePasswd, UsersOK
  <2>2. CASE users[u] # None
    <3>1. u \in Names
      BY <1>6 DEF WritePasswd, At, TypeOK, ServiceJob
    <3>2. users[u] \in Infos
      BY <1>0, <2>2, <3>1
    <3>3. PICK p \in Passwords : Store([users EXCEPT ![u].passwd = p])
      BY <1>6, <2>2 DEF WritePasswd
    <3>4. [users[u] EXCEPT !.passwd = p] \in Infos
      BY <3>2, SMT DEF Infos
    <3>5. [users EXCEPT ![u].passwd = p] = [users EXCEPT ![u] = [users[u] EXCEPT !.passwd = p]]
      BY <1>0, <3>1
    <3>6. [users EXCEPT ![u].passwd = p] \in Old
      BY <1>0, <3>4, <3>5
    <3>. QED
      BY <1>0, <1>1, <1>6, <3>3, <3>6 DEF WritePasswd
  <2>. QED
    BY <2>1, <2>2
<1>. QED
  BY <1>2, <1>3, <1>4, <1>5, <1>6

-----------------------------------------------------------------------------
(* The steps of the threads                                                 *)

(* What becomes of the job of a service thread.                             *)
LEMMA ServiceJobs ==
  ASSUME CatalogAssumption, TypeOK, NEW c \in Services,
         ServiceBegin(c) \/ ServiceStep(c) \/ ClientStops(c)
  PROVE  JobsOK'
<1>0. JobsOK
  BY DEF TypeOK, JobsOK
<1>1. c \in Threads /\ job[c] \in Jobs /\ ServiceJob(job[c])
  BY DEF TypeOK, Threads
<1>2. Idle \in Jobs /\ ServiceJob(Idle)
  BY IdleType
<1>3. ASSUME UNCHANGED job
      PROVE  JobsOK'
  BY <1>0, <1>3 DEF JobsOK
<1>4. CASE \E j \in Jobs : ServiceJob(j) /\ Goto(c, j)
  BY <1>0, <1>4, ServiceGoes
<1>5. CASE ServiceBegin(c)
  <2>1. CASE TUserAdd(c) \/ TUserDelete(c) \/ TUserRename(c) \/ ChangeUser(c)
             \/ TUserWriteTemplate(c)
    BY <1>3, <2>1 DEF TUserAdd, TUserDelete, TUserRename, ChangeUser, TUserWriteTemplate
  <2>2. CASE ReadPasswd(c)
    BY <1>3, <1>4, <2>2, BegunJobs DEF ReadPasswd
  <2>3. CASE BeginProc(c)
    <3>1. PICK p \in Procs :
            \/ \E goal \in {"new", "update"} :
                 Goto(c, [Idle EXCEPT !.at = "receive", !.key = p, !.goal = goal])
            \/ Goto(c, [Idle EXCEPT !.at = "grant", !.key = p])
            \/ \E goal \in {"delete", "size"} :
                 Goto(c, [Idle EXCEPT !.at = "audit", !.key = p, !.goal = goal])
            \/ Goto(c, [Idle EXCEPT !.at = "audit", !.key = p, !.goal = "size", !.use = "run"])
      BY <2>3 DEF BeginProc
    <3>. QED
      BY <1>4, <3>1, BegunJobs
  <2>4. CASE BeginUserList(c)
    <3>. DEFINE N == Cardinality({u \in Names : users[u] # None})
    <3>1. N \in Nat
      BY FS_Subset, FS_CardinalityType DEF CatalogAssumption
    <3>2. Lists(N) \subseteq Nat
      BY <3>1, SMT DEF Lists
    <3>. QED
      BY <1>4, <2>4, <3>2, BegunJobs DEF BeginUserList
  <2>5. CASE BeginProcList(c)
    <3>. DEFINE N == Cardinality({p \in Procs : procs[p] # 0})
    <3>1. N \in Nat
      BY FS_Subset, FS_CardinalityType DEF CatalogAssumption
    <3>2. N + 1 \in Nat
      BY <3>1, SMT
    <3>. QED
      BY <1>4, <2>5, <3>2, BegunJobs DEF BeginProcList
  <2>. QED
    BY <1>5, <2>1, <2>2, <2>3, <2>4, <2>5 DEF ServiceBegin
<1>6. CASE ServiceStep(c)
  <2>1. CASE WritePasswd(c) \/ NewStoredProc(c) \/ spGrantUserPrivilege(c)
             \/ DeleteStoredProc(c) \/ UpdateStoredProc(c) \/ UseProc(c)
    BY <1>2, <1>4, <2>1 DEF WritePasswd, NewStoredProc, spGrantUserPrivilege,
                            DeleteStoredProc, UpdateStoredProc, UseProc
  <2>2. CASE spAuditUserPrivilege(c)
    BY <1>1, <1>2, <1>4, <2>2, FollowingJobs DEF spAuditUserPrivilege, At
  <2>3. procs[job[c].key] \in Nat \/ ~(At(c, "size") \/ At(c, "read"))
    BY <1>1, SMT DEF TypeOK, ServiceJob, At, CatalogAssumption
  <2>4. CASE GetStoredProcSize(c)
    BY <1>1, <1>2, <1>4, <2>3, <2>4, FollowingJobs DEF GetStoredProcSize, At
  <2>5. CASE ReadStoredProc(c)
    BY <1>1, <1>2, <1>4, <2>3, <2>5, FollowingJobs DEF ReadStoredProc, At
  <2>6. CASE Receive(c)
    BY <1>1, <1>2, <1>4, <2>6, FollowingJobs DEF Receive, At
  <2>7. CASE SendEntry(c)
    BY <1>1, <1>4, <2>7, FollowingJobs DEF SendEntry
  <2>8. CASE EndList(c)
    BY <1>2, <1>4, <2>8 DEF EndList
  <2>. QED
    BY <1>6, <2>1, <2>2, <2>4, <2>5, <2>6, <2>7, <2>8 DEF ServiceStep
<1>7. CASE ClientStops(c)
  BY <1>1, <1>4, <1>7, FollowingJobs DEF ClientStops
<1>. QED
  BY <1>5, <1>6, <1>7

LEMMA SchedulerJobs ==
  ASSUME CatalogAssumption, TypeOK, BeginLogon \/ LogonStep
  PROVE  JobsOK'
<1>0. JobsOK
  BY DEF TypeOK, JobsOK
<1>1. CASE \E j \in Jobs : SchedulerJob(j) /\ Goto(Scheduler, j)
  BY <1>0, <1>1, SchedulerGoes
<1>2. Idle \in Jobs /\ SchedulerJob(Idle)
  BY IdleType
<1>3. CASE BeginLogon
  <2>1. PICK u \in Names : Goto(Scheduler, [Idle EXCEPT !.at = "audit", !.key = u])
    BY <1>3 DEF BeginLogon
  <2>. DEFINE k == [Idle EXCEPT !.at = "audit", !.key = u]
  <2>2. k \in Jobs
    BY ZenonT(30) DEF Idle, Jobs
  <2>3. k.at = "audit" /\ k.key = u
    BY SMT DEF Idle
  <2>4. SchedulerJob(k)
    BY <2>3, SMT DEF SchedulerJob
  <2>. QED
    BY <1>1, <2>1, <2>2, <2>4
<1>4. CASE ReadUser
  <2>. DEFINE u == job[Scheduler].key
  <2>1. CASE users[u] = None
    BY <1>1, <1>2, <1>4, <2>1 DEF ReadUser
  <2>2. CASE users[u] # None
    <3>1. u \in Names
      BY <1>4 DEF ReadUser, At, TypeOK, SchedulerJob
    <3>2. users[u] \in Infos
      BY <2>2, <3>1 DEF TypeOK
    <3>3. PICK r \in Infos :
            Goto(Scheduler, [Idle EXCEPT !.at = "logon", !.key = u, !.info = r])
      BY <1>4, <2>2, <3>2, RecordsType DEF ReadUser
    <3>. DEFINE k == [Idle EXCEPT !.at = "logon", !.key = u, !.info = r]
    <3>4. k \in Jobs
      BY <3>1, ZenonT(30) DEF Idle, Jobs
    <3>5. k.at = "logon" /\ k.key = u /\ k.info = r
      BY SMT DEF Idle
    <3>6. SchedulerJob(k)
      BY <3>1, <3>5, SMT DEF SchedulerJob
    <3>. QED
      BY <1>1, <3>3, <3>4, <3>6
  <2>. QED
    BY <2>1, <2>2
<1>5. CASE WriteUser
  BY <1>1, <1>2, <1>5 DEF WriteUser
<1>. QED
  BY <1>3, <1>4, <1>5 DEF LogonStep

(* What the steps leave of the procedures, the mutexes and the bounds.      *)
RestOK ==
  /\ userDB \in Services \cup {None} /\ spFile \in Services \cup {None}
  /\ procs \in [Procs -> 0 .. MaxLen]
  /\ rights \subseteq Procs
  /\ work \in 0 .. MaxWork
  /\ spoilt \in BOOLEAN

LEMMA ServiceRest ==
  ASSUME CatalogAssumption, TypeOK, NEW c \in Services,
         ServiceBegin(c) \/ ServiceStep(c) \/ ClientStops(c)
  PROVE  RestOK'
<1>0. RestOK
  BY DEF TypeOK, RestOK
<1>1. CASE ServiceBegin(c)
  <2>1. Request(c) => work' \in 0 .. MaxWork
    BY <1>0, SMT DEF Request, RestOK, CatalogAssumption
  <2>. QED
    BY <1>0, <1>1, <2>1
    DEF ServiceBegin, TUserAdd, TUserDelete, TUserRename, ChangeUser, TUserWriteTemplate,
        ReadPasswd, BeginProc, BeginUserList, BeginProcList, Store, RestOK, procVars, userVars
<1>2. CASE ServiceStep(c)
  <2>. DEFINE p == job[c].key
  <2>0. p \in Procs \/ ~(At(c, "new") \/ At(c, "grant") \/ At(c, "delete") \/ At(c, "update"))
    BY DEF TypeOK, ServiceJob, At
  <2>1. CASE WritePasswd(c)
    BY <1>0, <2>1 DEF WritePasswd, Store, RestOK, procVars
  <2>2. CASE \/ spAuditUserPrivilege(c) \/ GetStoredProcSize(c) \/ ReadStoredProc(c)
             \/ UseProc(c) \/ Receive(c) \/ SendEntry(c)
    BY <1>0, <2>2 DEF spAuditUserPrivilege, GetStoredProcSize, ReadStoredProc, UseProc,
                      Receive, SendEntry, RestOK, procVars, userVars
  <2>3. \A n \in 1 .. MaxLen : n \in 0 .. MaxLen
    BY SMT DEF CatalogAssumption
  <2>4. 0 \in 0 .. MaxLen
    BY SMT DEF CatalogAssumption
  <2>5. CASE NewStoredProc(c)
    BY <1>0, <2>0, <2>3, <2>5 DEF NewStoredProc, RestOK, userVars
  <2>6. CASE spGrantUserPrivilege(c)
    BY <1>0, <2>0, <2>6 DEF spGrantUserPrivilege, RestOK, userVars
  <2>7. CASE DeleteStoredProc(c)
    BY <1>0, <2>0, <2>4, <2>7 DEF DeleteStoredProc, RestOK, userVars
  <2>8. CASE UpdateStoredProc(c)
    BY <1>0, <2>0, <2>3, <2>8 DEF UpdateStoredProc, RestOK, userVars
  <2>9. CASE EndList(c)
    BY <1>0, <2>9 DEF EndList, RestOK
  <2>. QED
    BY <1>2, <2>1, <2>2, <2>5, <2>6, <2>7, <2>8, <2>9 DEF ServiceStep
<1>3. CASE ClientStops(c)
  BY <1>0, <1>3 DEF ClientStops, RestOK, procVars, userVars
<1>. QED
  BY <1>1, <1>2, <1>3

(* The steps that leave the records of the users alone.                     *)
LEMMA UsersRest ==
  ASSUME NEW c \in Services,
         \/ TUserWriteTemplate(c) \/ ReadPasswd(c) \/ BeginProc(c)
         \/ BeginUserList(c) \/ BeginProcList(c)
         \/ ServiceStep(c) /\ ~WritePasswd(c)
         \/ ClientStops(c) \/ BeginLogon \/ ReadUser
  PROVE  UNCHANGED <<users, undone>> /\ (~spoilt' => ~spoilt /\ next' = next)
<1>1. CASE TUserWriteTemplate(c)
  BY <1>1 DEF TUserWriteTemplate
<1>2. CASE ReadPasswd(c) \/ BeginProc(c) \/ BeginUserList(c) \/ BeginProcList(c)
  <2>1. CASE ReadPasswd(c)
    BY <2>1 DEF ReadPasswd, userVars
  <2>2. CASE BeginProc(c)
    BY <2>2 DEF BeginProc, userVars
  <2>3. CASE BeginUserList(c)
    BY <2>3 DEF BeginUserList
  <2>4. CASE BeginProcList(c)
    BY <2>4 DEF BeginProcList, userVars
  <2>. QED
    BY <1>2, <2>1, <2>2, <2>3, <2>4
<1>3. CASE ServiceStep(c) /\ ~WritePasswd(c)
  <2>1. CASE NewStoredProc(c)
    BY <2>1 DEF NewStoredProc, userVars
  <2>2. CASE \/ spAuditUserPrivilege(c) \/ spGrantUserPrivilege(c)
             \/ DeleteStoredProc(c) \/ UpdateStoredProc(c)
    BY <2>2 DEF spAuditUserPrivilege, spGrantUserPrivilege, DeleteStoredProc,
                UpdateStoredProc, userVars
  <2>3. CASE GetStoredProcSize(c) \/ ReadStoredProc(c) \/ UseProc(c) \/ Receive(c)
    BY <2>3 DEF GetStoredProcSize, ReadStoredProc, UseProc, Receive, userVars
  <2>4. CASE SendEntry(c) \/ EndList(c)
    BY <2>4 DEF SendEntry, EndList, userVars
  <2>. QED
    BY <1>3, <2>1, <2>2, <2>3, <2>4 DEF ServiceStep
<1>4. CASE ClientStops(c)
  BY <1>4 DEF ClientStops, userVars
<1>5. CASE BeginLogon
  BY <1>5 DEF BeginLogon, userVars
<1>6. CASE ReadUser
  BY <1>6 DEF ReadUser, userVars
<1>. QED
  BY <1>1, <1>2, <1>3, <1>4, <1>5, <1>6

(* The types hold initially and in every state that a step leads to.        *)
LEMMA TypeInit == CatalogAssumption /\ Init => TypeOK
<1>. SUFFICES ASSUME CatalogAssumption, Init
              PROVE  TypeOK
  OBVIOUS
<1>1. job \in [Threads -> Jobs] /\ SchedulerJob(job[Scheduler])
      /\ \A c \in Services : ServiceJob(job[c])
  BY IdleType DEF Init, Threads
<1>2. procs \in [Procs -> 0 .. MaxLen] /\ work \in 0 .. MaxWork /\ next \in Nat
  BY SMT DEF Init, CatalogAssumption
<1>. QED
  BY <1>1, <1>2 DEF Init, TypeOK

LEMMA TypeNext == CatalogAssumption /\ TypeOK /\ [Next]_vars => TypeOK'
<1>. SUFFICES ASSUME CatalogAssumption, TypeOK, [Next]_vars
              PROVE  TypeOK'
  OBVIOUS
<1>. DEFINE ServiceNext(c) == ServiceBegin(c) \/ ServiceStep(c) \/ ClientStops(c)
<1>0. UsersOK /\ JobsOK /\ RestOK /\ undone \subseteq Names /\ next \in Nat
  BY DEF TypeOK, UsersOK, JobsOK, RestOK
<1>1. ASSUME UsersOK', JobsOK', RestOK', undone' \subseteq Names, next' \in Nat
      PROVE  TypeOK'
  BY <1>1 DEF TypeOK, UsersOK, JobsOK, RestOK
<1>2. CASE UNCHANGED vars
  BY <1>0, <1>1, <1>2 DEF vars, UsersOK, JobsOK, RestOK
<1>3. ASSUME NEW c \in Services, ServiceNext(c)
      PROVE  TypeOK'
  <2>1. JobsOK' /\ RestOK'
    BY <1>3, ServiceJobs, ServiceRest
  <2>2. CASE \/ TUserAdd(c) \/ TUserDelete(c) \/ TUserRename(c) \/ ChangeUser(c)
             \/ WritePasswd(c)
    BY <1>1, <2>1, <2>2, UsersType
  <2>3. CASE TUserWriteTemplate(c)
    <3>1. next' = next \/ \E u \in Names : users[u] # None /\ next' = users[u].id
      BY <2>3 DEF TUserWriteTemplate
    <3>2. \A u \in Names : users[u] # None => users[u].id \in Nat
      BY <1>0, SMT DEF UsersOK, Infos
    <3>3. next' \in Nat
      BY <1>0, <3>1, <3>2
    <3>. QED
      BY <1>0, <1>1, <2>1, <2>3, <3>3, UsersRest DEF UsersOK
  <2>4. CASE \/ ReadPasswd(c) \/ BeginProc(c) \/ BeginUserList(c) \/ BeginProcList(c)
             \/ (ServiceStep(c) /\ ~WritePasswd(c)) \/ ClientStops(c)
    <3>1. next' \in Nat
      BY <1>0, <2>4 DEF ReadPasswd, BeginProc, BeginUserList, BeginProcList,
         ServiceStep, spAuditUserPrivilege, NewStoredProc, spGrantUserPrivilege,
         DeleteStoredProc, UpdateStoredProc, GetStoredProcSize, ReadStoredProc, UseProc,
         Receive, SendEntry, EndList, ClientStops, userVars
    <3>. QED
      BY <1>0, <1>1, <2>1, <2>4, <3>1, UsersRest DEF UsersOK
  <2>. QED
    BY <1>3, <2>2, <2>3, <2>4 DEF ServiceBegin
<1>4. CASE BeginLogon \/ LogonStep
  <2>1. JobsOK'
    BY <1>4, SchedulerJobs
  <2>2. RestOK'
    BY <1>0, <1>4 DEF BeginLogon, LogonStep, ReadUser, WriteUser, RestOK, userVars, procVars
  <2>3. CASE BeginLogon \/ ReadUser
    BY <1>0, <1>1, <2>1, <2>2, <2>3 DEF BeginLogon, ReadUser, userVars, UsersOK
  <2>4. CASE WriteUser
    <3>. DEFINE u == job[Scheduler].key
    <3>1. u \in Names /\ job[Scheduler].info \in Infos
      BY <2>4 DEF WriteUser, At, TypeOK, SchedulerJob
    <3>2. users[u] # None => TUserSetAllInfo(users[u], job[Scheduler].info) \in Infos
      BY <1>0, <3>1, RecordsType DEF UsersOK
    <3>3. UsersOK' /\ undone' \subseteq Names /\ next' = next
      BY <1>0, <2>4, <3>1, <3>2 DEF WriteUser, UsersOK
    <3>. QED
      BY <1>0, <1>1, <2>1, <2>2, <3>3
  <2>. QED
    BY <1>4, <2>3, <2>4 DEF LogonStep
<1>. QED
  BY <1>2, <1>3, <1>4 DEF Next

(* TypeOK: the variables keep their types, the scheduler only logs users    *)
(* on, service threads only audit procedures.                               *)
THEOREM CatalogTypeCorrect == Spec => []TypeOK
<1>1. Init => TypeOK
  BY TypeInit, CatalogAssumption
<1>2. TypeOK /\ [Next]_vars => TypeOK'
  BY TypeNext, CatalogAssumption
<1>. QED
  BY <1>1, <1>2, PTL DEF Spec

-----------------------------------------------------------------------------
(* IdsUnique                                                                *)

(* No number is new, and each stays with its user.                          *)
LEMMA SameNumbers ==
  ASSUME IdsUnique, ~spoilt' => ~spoilt /\ next' = next,
         \A u \in Names : users'[u] # None => users[u] # None /\ users'[u].id = users[u].id
  PROVE  IdsUnique'
  BY DEF IdsUnique

LEMMA UsersNumbers ==
  ASSUME CatalogAssumption, TypeOK, IdsUnique, NEW c \in Services,
         \/ TUserAdd(c) \/ TUserDelete(c) \/ TUserRename(c) \/ ChangeUser(c)
         \/ WritePasswd(c)
  PROVE  IdsUnique'
<1>0. users \in [Names -> Infos \cup {None}] /\ next \in Nat
  BY DEF TypeOK
<1>. DEFINE Kept(u) == users'[u] # None => users[u] # None /\ users'[u].id = users[u].id
<1>1. CASE TUserAdd(c)
  <2>1. PICK u \in Names, p \in Passwords :
          users[u] = None /\ users' = [users EXCEPT ![u] = NewUser(p)]
    BY <1>1 DEF TUserAdd, Store
  <2>2. NewUser(p).id = next
    BY <1>0, NewUserType
  <2>3. SUFFICES ASSUME ~spoilt'
                 PROVE  IdsUnique'
    BY DEF IdsUnique
  <2>4. ~spoilt /\ next' = next + 1
    BY <1>1, <2>3 DEF TUserAdd
  <2>5. \A v \in Names : users'[v] = IF v = u THEN NewUser(p) ELSE users[v]
    BY <1>0, <2>1
  <2>6. \A v \in Names : users[v] # None => users[v].id \in Nat /\ users[v].id < next
    BY <1>0, <2>4, SMT DEF IdsUnique, Infos
  <2>7. \A v \in Names : users'[v] # None => users'[v].id < next'
    BY <1>0, <2>2, <2>4, <2>5, <2>6, SMT
  <2>8. \A v \in Names : v # u /\ users[v] # None => users[v].id # next
    BY <1>0, <2>6, SMT
  <2>9. \A v, w \in Names : v # w /\ users'[v] # None /\ users'[w] # None
                              => users'[v].id # users'[w].id
    BY <2>2, <2>4, <2>5, <2>8 DEF IdsUnique
  <2>. QED
    BY <2>7, <2>9 DEF IdsUnique
<1>2. CASE TUserDelete(c)
  <2>1. PICK u \in Names : users' = [users EXCEPT ![u] = None]
    BY <1>2 DEF TUserDelete, Store
  <2>2. \A v \in Names : Kept(v)
    BY <1>0, <2>1
  <2>. QED
    BY <1>2, <2>2, SameNumbers DEF TUserDelete
<1>3. CASE TUserRename(c)
  <2>1. PICK u \in Names, v \in Names :
          /\ u # v /\ users[u] # None
          /\ \/ users' = [users EXCEPT ![v] = users[u], ![u] = None] /\ UNCHANGED spoilt
             \/ spoilt' = TRUE
    BY <1>3 DEF TUserRename, Store
  <2>2. SUFFICES ASSUME ~spoilt'
                 PROVE  IdsUnique'
    BY DEF IdsUnique
  <2>3. ~spoilt /\ next' = next
    BY <1>3, <2>1, <2>2 DEF TUserRename
  <2>4. \A w \in Names : users'[w] = IF w = u THEN None ELSE IF w = v THEN users[u] ELSE users[w]
    BY <1>0, <2>1, <2>2
  <2>. QED
    BY <2>1, <2>3, <2>4 DEF IdsUnique
<1>4. CASE ChangeUser(c)
  <2>1. PICK u \in Names :
          /\ users[u] # None
          /\ \E r \in TUserSetInfo(users[u])
                      \cup {TUserLock(users[u]), TUserClearLogonFailCount(users[u])}
                      \cup {TUserSetAllInfo(users[u], NewUser(p)) : p \in Passwords} :
               users' = [users EXCEPT ![u] = r]
    BY <1>4 DEF ChangeUser, Store
  <2>2. users[u] \in Infos
    BY <1>0, <2>1
  <2>3. PICK r \in TUserSetInfo(users[u])
                    \cup {TUserLock(users[u]), TUserClearLogonFailCount(users[u])}
                    \cup {TUserSetAllInfo(users[u], NewUser(p)) : p \in Passwords} :
          users' = [users EXCEPT ![u] = r]
    BY <2>1
  <2>4. ASSUME r \in TUserSetInfo(users[u])
        PROVE  r.id = users[u].id
    BY <2>2, <2>4, NumbersKept
  <2>5. ASSUME r \in {TUserLock(users[u]), TUserClearLogonFailCount(users[u])}
        PROVE  r.id = users[u].id
    BY <2>2, <2>5, NumbersKept
  <2>6. ASSUME NEW p \in Passwords, r = TUserSetAllInfo(users[u], NewUser(p))
        PROVE  r.id = users[u].id
    BY <1>0, <2>2, <2>6, NumbersKept, NewUserType
  <2>7. r.id = users[u].id
    BY <2>3, <2>4, <2>5, <2>6
  <2>8. \A v \in Names : Kept(v)
    BY <1>0, <2>1, <2>3, <2>7
  <2>. QED
    BY <1>4, <2>8, SameNumbers DEF ChangeUser
<1>5. CASE WritePasswd(c)
  <2>. DEFINE u == job[c].key
  <2>1. u \in Names
    BY <1>5 DEF WritePasswd, At, TypeOK, ServiceJob
  <2>2. CASE users[u] = None
    BY <1>5, <2>2, SameNumbers DEF WritePasswd
  <2>3. CASE users[u] # None
    <3>1. PICK p \in Passwords : users' = [users EXCEPT ![u].passwd = p]
      BY <1>5, <2>3 DEF WritePasswd, Store
    <3>2. users[u] \in Infos
      BY <1>0, <2>1, <2>3
    <3>3. [users[u] EXCEPT !.passwd = p].id = users[u].id
      BY <3>2, SMT DEF Infos
    <3>4. \A v \in Names : users'[v] = IF v = u THEN [users[u] EXCEPT !.passwd = p] ELSE users[v]
      BY <1>0, <2>1, <3>1
    <3>5. \A v \in Names : Kept(v)
      BY <2>3, <3>3, <3>4
    <3>. QED
      BY <1>5, <3>5, SameNumbers DEF WritePasswd
  <2>. QED
    BY <2>2, <2>3
<1>. QED
  BY <1>1, <1>2, <1>3, <1>4, <1>5

LEMMA LogonNumbers ==
  ASSUME CatalogAssumption, TypeOK, IdsUnique, WriteUser
  PROVE  IdsUnique'
<1>. DEFINE u == job[Scheduler].key
<1>1. users \in [Names -> Infos \cup {None}]
  BY DEF TypeOK
<1>2. u \in Names /\ job[Scheduler].info \in Infos
  BY DEF WriteUser, At, TypeOK, SchedulerJob
<1>3. users[u] # None => TUserSetAllInfo(users[u], job[Scheduler].info).id = users[u].id
  BY <1>1, <1>2, NumbersKept
<1>4. \A v \in Names : users'[v] # None => users[v] # None /\ users'[v].id = users[v].id
  BY <1>1, <1>2, <1>3 DEF WriteUser
<1>. QED
  BY <1>4, SameNumbers DEF WriteUser

LEMMA NumbersNext == CatalogAssumption /\ TypeOK /\ IdsUnique /\ [Next]_vars => IdsUnique'
<1>. SUFFICES ASSUME CatalogAssumption, TypeOK, IdsUnique, [Next]_vars
              PROVE  IdsUnique'
  OBVIOUS
<1>1. CASE UNCHANGED vars
  BY <1>1 DEF vars, IdsUnique
<1>2. ASSUME UNCHANGED users, ~spoilt' => ~spoilt /\ next' = next
      PROVE  IdsUnique'
  BY <1>2, SameNumbers
<1>3. ASSUME NEW c \in Services,
             ServiceBegin(c) \/ ServiceStep(c) \/ ClientStops(c)
      PROVE  IdsUnique'
  BY <1>2, <1>3, UsersNumbers, UsersRest DEF ServiceBegin
<1>4. CASE BeginLogon \/ ReadUser
  BY <1>2, <1>4 DEF BeginLogon, ReadUser, userVars
<1>5. CASE WriteUser
  BY <1>5, LogonNumbers
<1>. QED
  BY <1>1, <1>3, <1>4, <1>5 DEF Next, LogonStep

(* IdsUnique: whatever additions, renamings, changes of records and logons  *)
(* overlap, no two users have the same number, for any number of threads,   *)
(* as long as no second write failed, no template was read from another     *)
(* record, and nobody renamed "#T_USER", for which there is no step.        *)
THEOREM NumbersUnique == Spec => []IdsUnique
<1>1. Init => IdsUnique
  BY DEF Init, IdsUnique
<1>2. TypeOK /\ IdsUnique /\ [Next]_vars => IdsUnique'
  BY NumbersNext, CatalogAssumption
<1>. QED
  BY <1>1, <1>2, CatalogTypeCorrect, PTL DEF Spec

-----------------------------------------------------------------------------
(* ProcsWhole                                                               *)

HasRights == ~spoilt => \A p \in Procs : procs[p] # 0 => p \in rights

(* The length that a thread was told is that of the buffer it has.          *)
Told(j) == j.room # 0 => j.said <= j.room
AllTold == \A c \in Services : Told(job[c])

LEMMA RightsNext ==
  ASSUME CatalogAssumption, TypeOK, HasRights, [Next]_vars
  PROVE  HasRights'
<1>0. procs \in [Procs -> 0 .. MaxLen] /\ rights \subseteq Procs
  BY DEF TypeOK
<1>1. ASSUME UNCHANGED <<procs, rights>>, ~spoilt' => ~spoilt
      PROVE  HasRights'
  BY <1>1 DEF HasRights
<1>2. CASE UNCHANGED vars
  BY <1>1, <1>2 DEF vars
<1>3. ASSUME NEW c \in Services, ServiceBegin(c)
      PROVE  HasRights'
  <2>1. UNCHANGED <<procs, rights>>
    BY <1>3 DEF ServiceBegin, TUserAdd, TUserDelete, TUserRename, ChangeUser,
                TUserWriteTemplate, ReadPasswd, BeginProc, BeginUserList, BeginProcList, procVars
  <2>2. CASE TUserAdd(c)
    BY <2>2 , <1>1, <2>1 DEF TUserAdd
  <2>3. CASE TUserRename(c)
    BY <2>3 , <1>1, <2>1 DEF TUserRename
  <2>4. CASE TUserWriteTemplate(c)
    BY <2>4 , <1>1, <2>1 DEF TUserWriteTemplate
  <2>5. CASE TUserDelete(c) \/ ChangeUser(c) \/ ReadPasswd(c) \/ BeginProc(c)
             \/ BeginUserList(c) \/ BeginProcList(c)
    BY <1>1, <2>1, <2>5 DEF TUserDelete, ChangeUser, ReadPasswd, BeginProc,
                            BeginUserList, BeginProcList
  <2>. QED
    BY <1>3, <2>2, <2>3, <2>4, <2>5 DEF ServiceBegin
<1>4. ASSUME NEW c \in Services, ServiceStep(c)
      PROVE  HasRights'
  <2>. DEFINE p == job[c].key
  <2>1. CASE NewStoredProc(c)
    <3>1. p \in Procs
      BY <2>1 DEF NewStoredProc, At, TypeOK, ServiceJob
    <3>2. CASE UNCHANGED <<procs, rights, spoilt>>
      BY <1>1, <3>2
    <3>3. CASE spoilt' = TRUE
      BY <3>3 DEF HasRights
    <3>4. CASE /\ \E n \in 1 .. MaxLen : procs' = [procs EXCEPT ![p] = n]
               /\ rights' = rights \cup {p} /\ UNCHANGED spoilt
      BY <1>0, <3>1, <3>4 DEF HasRights
    <3>. QED
      BY <2>1, <3>2, <3>3, <3>4 DEF NewStoredProc
  <2>2. CASE spGrantUserPrivilege(c)
    BY <1>0, <2>2 DEF spGrantUserPrivilege, HasRights
  <2>3. CASE DeleteStoredProc(c)
    <3>1. p \in Procs
      BY <2>3 DEF DeleteStoredProc, At, TypeOK, ServiceJob
    <3>. QED
      BY <1>0, <1>1, <2>3, <3>1 DEF DeleteStoredProc, HasRights
  <2>4. CASE UpdateStoredProc(c)
    <3>1. p \in Procs
      BY <2>4 DEF UpdateStoredProc, At, TypeOK, ServiceJob
    <3>. QED
      BY <1>0, <1>1, <2>4, <3>1 DEF UpdateStoredProc, HasRights
  <2>5. CASE WritePasswd(c)
    BY <1>1, <2>5 DEF WritePasswd, procVars
  <2>6. CASE \/ spAuditUserPrivilege(c) \/ GetStoredProcSize(c) \/ ReadStoredProc(c)
             \/ UseProc(c)
    BY <1>1, <2>6 DEF spAuditUserPrivilege, GetStoredProcSize, ReadStoredProc, UseProc, procVars
  <2>7. CASE Receive(c) \/ SendEntry(c) \/ EndList(c)
    BY <1>1, <2>7 DEF Receive, SendEntry, EndList, procVars
  <2>. QED
    BY <1>4, <2>1, <2>2, <2>3, <2>4, <2>5, <2>6, <2>7 DEF ServiceStep
<1>5. ASSUME NEW c \in Services, ClientStops(c)
      PROVE  HasRights'
  BY <1>1, <1>5 DEF ClientStops, procVars
<1>6. CASE BeginLogon \/ LogonStep
  <2>1. UNCHANGED <<procVars, spoilt>>
    BY <1>6 DEF BeginLogon, LogonStep, ReadUser, WriteUser
  <2>. QED
    BY <1>1, <2>1 DEF procVars
<1>. QED
  BY <1>2, <1>3, <1>4, <1>5, <1>6 DEF Next

LEMMA TellingGoes ==
  ASSUME CatalogAssumption, TypeOK, AllTold, NEW c \in Services, NEW j, Told(j), Goto(c, j)
  PROVE  AllTold'
<1>1. \A d \in Services : job'[d] = IF d = c THEN j ELSE job[d]
  BY DEF Goto, TypeOK, Threads
<1>. QED
  BY <1>1 DEF AllTold

(* A job that is begun has no buffer.                                       *)
LEMMA BegunTold ==
  /\ Told(Idle)
  /\ \A a, u : Told([Idle EXCEPT !.at = a, !.key = u])
  /\ \A a, p, g : Told([Idle EXCEPT !.at = a, !.key = p, !.goal = g])
  /\ \A a, p, g, e : Told([Idle EXCEPT !.at = a, !.key = p, !.goal = g, !.use = e])
  /\ \A a, n : Told([Idle EXCEPT !.at = a, !.left = n])
<1>1. Told(Idle)
  BY SMT DEF Told, Idle
<1>2. ASSUME NEW a, NEW u
      PROVE  Told([Idle EXCEPT !.at = a, !.key = u])
  BY SMT DEF Told, Idle
<1>3. ASSUME NEW a, NEW p, NEW g
      PROVE  Told([Idle EXCEPT !.at = a, !.key = p, !.goal = g])
  BY SMT DEF Told, Idle
<1>4. ASSUME NEW a, NEW p, NEW g, NEW e
      PROVE  Told([Idle EXCEPT !.at = a, !.key = p, !.goal = g, !.use = e])
  BY SMT DEF Told, Idle
<1>5. ASSUME NEW a, NEW n
      PROVE  Told([Idle EXCEPT !.at = a, !.left = n])
  BY SMT DEF Told, Idle
<1>. QED
  BY <1>1, <1>2, <1>3, <1>4, <1>5

LEMMA FollowingTold ==
  ASSUME CatalogAssumption, NEW j \in Jobs, Told(j)
  PROVE  /\ Told([j EXCEPT !.at = j.goal])
         /\ Told(NoSize(j))
         /\ \A n \in Nat : Told([j EXCEPT !.at = "audit", !.goal = "read", !.said = n, !.room = n])
         /\ \A n \in Nat : n <= j.said => Told([j EXCEPT !.at = "copied", !.said = n])
         /\ Told([j EXCEPT !.left = @ - 1, !.sent = TRUE])
         /\ \A a : Told([j EXCEPT !.at = a])
         /\ Told([j EXCEPT !.deaf = TRUE])
<1>1. Told([j EXCEPT !.at = j.goal]) /\ Told([j EXCEPT !.left = @ - 1, !.sent = TRUE])
  BY SMT DEF Told, Jobs
<1>6. (\A a : Told([j EXCEPT !.at = a])) /\ Told([j EXCEPT !.deaf = TRUE])
  BY SMT DEF Told, Jobs
<1>2. \A n \in Nat : Told([j EXCEPT !.at = "audit", !.goal = "read", !.said = n, !.room = n])
  BY SMT DEF Told, Jobs
<1>3. ASSUME NEW n \in Nat, n <= j.said
      PROVE  Told([j EXCEPT !.at = "copied", !.said = n])
  BY <1>3, SMT DEF Told, Jobs
<1>4. Told([j EXCEPT !.at = "audit", !.goal = "read", !.said = MaxLen + 1, !.room = 0])
  BY SMT DEF Told, Jobs
<1>5. Told(NoSize(j))
  BY <1>4, BegunTold DEF NoSize
<1>. QED
  BY <1>1, <1>2, <1>3, <1>5, <1>6

LEMMA ToldNext ==
  ASSUME CatalogAssumption, TypeOK, AllTold, [Next]_vars
  PROVE  AllTold'
<1>1. ASSUME UNCHANGED job
      PROVE  AllTold'
  BY <1>1 DEF AllTold
<1>2. CASE UNCHANGED vars
  BY <1>1, <1>2 DEF vars
<1>3. ASSUME NEW c \in Services, ServiceBegin(c)
      PROVE  AllTold'
  <2>1. CASE TUserAdd(c) \/ TUserDelete(c) \/ TUserRename(c) \/ ChangeUser(c)
             \/ TUserWriteTemplate(c)
    BY <1>1, <2>1 DEF TUserAdd, TUserDelete, TUserRename, ChangeUser, TUserWriteTemplate
  <2>2. CASE ReadPasswd(c)
    BY <1>1, <2>2, TellingGoes, BegunTold DEF ReadPasswd
  <2>3. CASE BeginProc(c)
    BY <2>3, TellingGoes, BegunTold DEF BeginProc
  <2>4. CASE BeginUserList(c)
    BY <2>4, TellingGoes, BegunTold DEF BeginUserList
  <2>5. CASE BeginProcList(c)
    BY <2>5, TellingGoes, BegunTold DEF BeginProcList
  <2>. QED
    BY <1>3, <2>1, <2>2, <2>3, <2>4, <2>5 DEF ServiceBegin
<1>4. ASSUME NEW c \in Services, ServiceStep(c)
      PROVE  AllTold'
  <2>. DEFINE j == job[c]
  <2>0. j \in Jobs /\ Told(j)
    BY DEF TypeOK, AllTold, Threads
  <2>1. CASE WritePasswd(c) \/ NewStoredProc(c) \/ spGrantUserPrivilege(c)
             \/ DeleteStoredProc(c) \/ UpdateStoredProc(c) \/ UseProc(c)
    BY <2>1, TellingGoes, BegunTold DEF WritePasswd, NewStoredProc, spGrantUserPrivilege,
                            DeleteStoredProc, UpdateStoredProc, UseProc
  <2>2. CASE spAuditUserPrivilege(c)
    BY <2>0, <2>2, TellingGoes, BegunTold, FollowingTold DEF spAuditUserPrivilege
  <2>3. At(c, "size") \/ At(c, "read") => procs[j.key] \in Nat
    BY SMT DEF TypeOK, ServiceJob, At, CatalogAssumption
  <2>4. CASE GetStoredProcSize(c)
    BY <2>0, <2>3, <2>4, TellingGoes, FollowingTold DEF GetStoredProcSize
  <2>5. CASE ReadStoredProc(c)
    <3>. DEFINE n == procs[j.key]
    <3>1. n \in Nat /\ j.said \in Nat
      BY <2>0, <2>3, <2>5, SMT DEF ReadStoredProc, Jobs
    <3>2. j.said < n \/ n <= j.said
      BY <3>1, SMT
    <3>. QED
      BY <2>0, <2>5, <3>1, <3>2, TellingGoes, BegunTold, FollowingTold DEF ReadStoredProc
  <2>6. CASE Receive(c)
    BY <2>0, <2>6, TellingGoes, BegunTold, FollowingTold DEF Receive
  <2>7. CASE SendEntry(c) \/ EndList(c)
    BY <2>0, <2>7, TellingGoes, BegunTold, FollowingTold DEF SendEntry, EndList
  <2>. QED
    BY <1>4, <2>1, <2>2, <2>4, <2>5, <2>6, <2>7 DEF ServiceStep
<1>5. ASSUME NEW c \in Services, ClientStops(c)
      PROVE  AllTold'
  <2>1. job[c] \in Jobs /\ Told(job[c])
    BY DEF TypeOK, AllTold, Threads
  <2>. QED
    BY <1>5, <2>1, TellingGoes, FollowingTold DEF ClientStops
<1>6. CASE BeginLogon \/ LogonStep
  <2>1. \A c \in Services : job'[c] = job[c]
    BY <1>6 DEF BeginLogon, LogonStep, ReadUser, WriteUser, Goto, TypeOK, Threads,
                CatalogAssumption
  <2>. QED
    BY <2>1 DEF AllTold
<1>. QED
  BY <1>2, <1>3, <1>4, <1>5, <1>6 DEF Next

(* ProcsWhole: whatever New, Update, Delete and Grant interleave, a         *)
(* procedure has its record of rights unless a second write failed, and it  *)
(* is copied into a buffer of its size unless the thread was told no size.  *)
THEOREM ProceduresWhole == Spec => []ProcsWhole
<1>1. Init => HasRights /\ AllTold
  BY BegunTold DEF Init, HasRights, AllTold, Threads
<1>2. TypeOK /\ HasRights /\ AllTold /\ [Next]_vars => HasRights' /\ AllTold'
  BY RightsNext, ToldNext, CatalogAssumption
<1>3. HasRights /\ AllTold => ProcsWhole
  BY DEF HasRights, AllTold, Told, ProcsWhole
<1>. QED
  BY <1>1, <1>2, <1>3, CatalogTypeCorrect, PTL DEF Spec

-----------------------------------------------------------------------------
(* LogonKeeps                                                               *)

(* Until its record changes, a user in his logon has the password and the   *)
(* lock that the logon has in its copy.                                     *)
CopyFresh ==
  At(Scheduler, "logon") =>
    LET u == job[Scheduler].key IN
    u \notin undone => users[u] # None /\ job[Scheduler].info \in Audited(users[u])

LEMMA CopyStays ==
  ASSUME CopyFresh, UNCHANGED <<users, undone>>, UNCHANGED job[Scheduler]
  PROVE  CopyFresh'
BY DEF CopyFresh, At

(* A step that changes records says so in undone.                           *)
LEMMA CopyStored ==
  ASSUME TypeOK, CopyFresh, UNCHANGED job[Scheduler], NEW new, Store(new)
  PROVE  CopyFresh'
<1>1. SUFFICES ASSUME At(Scheduler, "logon"), job[Scheduler].key \notin undone'
               PROVE  /\ users'[job[Scheduler].key] # None
                      /\ job[Scheduler].info \in Audited(users'[job[Scheduler].key])
  BY DEF CopyFresh, At
<1>. DEFINE u == job[Scheduler].key
<1>2. u \in Names
  BY <1>1 DEF At, TypeOK, SchedulerJob
<1>3. u \notin undone /\ users'[u] = users[u]
  BY <1>1, <1>2 DEF Store
<1>. QED
  BY <1>1, <1>3 DEF CopyFresh

LEMMA ServiceLogon ==
  ASSUME CatalogAssumption, TypeOK, NEW c \in Services,
         ServiceBegin(c) \/ ServiceStep(c) \/ ClientStops(c)
  PROVE  job'[Scheduler] = job[Scheduler]
<1>1. Scheduler \in Threads /\ c # Scheduler /\ job \in [Threads -> Jobs]
  BY DEF Threads, CatalogAssumption, TypeOK
<1>2. ASSUME NEW j, Goto(c, j)
      PROVE  job'[Scheduler] = job[Scheduler]
  BY <1>1, <1>2 DEF Goto
<1>3. CASE UNCHANGED job
  BY <1>3
<1>4. CASE ServiceBegin(c)
  BY <1>2, <1>3, <1>4 DEF ServiceBegin, TUserAdd, TUserDelete, TUserRename, ChangeUser,
     TUserWriteTemplate, ReadPasswd, BeginProc, BeginUserList, BeginProcList
<1>5. CASE ServiceStep(c)
  BY <1>2, <1>5 DEF ServiceStep, WritePasswd, spAuditUserPrivilege, NewStoredProc,
     spGrantUserPrivilege, DeleteStoredProc, UpdateStoredProc, GetStoredProcSize,
     ReadStoredProc, UseProc, Receive, SendEntry, EndList
<1>. QED
  BY <1>2, <1>4, <1>5 DEF ClientStops

LEMMA ServiceCopy ==
  ASSUME CatalogAssumption, TypeOK, CopyFresh, NEW c \in Services,
         ServiceBegin(c) \/ ServiceStep(c) \/ ClientStops(c)
  PROVE  CopyFresh'
<1>1. UNCHANGED job[Scheduler]
  BY ServiceLogon
<1>2. CASE \E new : Store(new)
  BY <1>1, <1>2, CopyStored
<1>3. CASE UNCHANGED <<users, undone>>
  BY <1>1, <1>3, CopyStays
<1>4. CASE TUserAdd(c) \/ TUserDelete(c) \/ TUserRename(c) \/ ChangeUser(c) \/ WritePasswd(c)
  BY <1>2, <1>3, <1>4 DEF TUserAdd, TUserDelete, TUserRename, ChangeUser, WritePasswd
<1>5. CASE TUserWriteTemplate(c) \/ ReadPasswd(c) \/ BeginProc(c) \/ BeginUserList(c)
           \/ BeginProcList(c)
  BY <1>3, <1>5 DEF TUserWriteTemplate, ReadPasswd, BeginProc, BeginUserList, BeginProcList,
     userVars
<1>6. CASE \/ spAuditUserPrivilege(c) \/ NewStoredProc(c) \/ spGrantUserPrivilege(c)
           \/ DeleteStoredProc(c) \/ UpdateStoredProc(c)
           \/ GetStoredProcSize(c) \/ ReadStoredProc(c) \/ UseProc(c)
  BY <1>3, <1>6 DEF spAuditUserPrivilege, NewStoredProc, spGrantUserPrivilege,
     DeleteStoredProc, UpdateStoredProc, GetStoredProcSize, ReadStoredProc, UseProc, userVars
<1>7. CASE Receive(c) \/ SendEntry(c) \/ EndList(c) \/ ClientStops(c)
  BY <1>3, <1>7 DEF Receive, SendEntry, EndList, ClientStops, userVars
<1>. QED
  BY <1>4, <1>5, <1>6, <1>7 DEF ServiceBegin, ServiceStep

LEMMA CopyNext == CatalogAssumption /\ TypeOK /\ CopyFresh /\ [Next]_vars => CopyFresh'
<1>. SUFFICES ASSUME CatalogAssumption, TypeOK, CopyFresh, [Next]_vars
              PROVE  CopyFresh'
  OBVIOUS
<1>0. Scheduler \in Threads /\ job \in [Threads -> Jobs]
  BY DEF Threads, TypeOK
<1>1. CASE UNCHANGED vars
  BY <1>1, CopyStays DEF vars
<1>2. ASSUME NEW c \in Services,
             ServiceBegin(c) \/ ServiceStep(c) \/ ClientStops(c)
      PROVE  CopyFresh'
  BY <1>2, ServiceCopy
<1>3. ASSUME NEW j, j.at # "logon", Goto(Scheduler, j)
      PROVE  CopyFresh'
  BY <1>0, <1>3 DEF Goto, CopyFresh, At
<1>4. Idle.at # "logon" /\ \A u : [Idle EXCEPT !.at = "audit", !.key = u].at # "logon"
  BY SMT DEF Idle
<1>5. CASE BeginLogon
  BY <1>3, <1>4, <1>5 DEF BeginLogon
<1>6. CASE ReadUser
  <2>. DEFINE u == job[Scheduler].key
              Read(r) == [Idle EXCEPT !.at = "logon", !.key = u, !.info = r]
  <2>1. CASE users[u] = None
    BY <1>3, <1>4, <1>6, <2>1 DEF ReadUser
  <2>2. CASE users[u] # None
    <3>1. PICK r \in Audited(users[u]) : Goto(Scheduler, Read(r))
      BY <1>6, <2>2 DEF ReadUser
    <3>2. Read(r).key = u /\ Read(r).info = r
      BY SMT DEF Idle
    <3>3. job'[Scheduler] = Read(r)
      BY <1>0, <3>1 DEF Goto
    <3>4. users' = users
      BY <1>6 DEF ReadUser, userVars
    <3>. QED
      BY <2>2, <3>2, <3>3, <3>4 DEF CopyFresh
  <2>. QED
    BY <2>1, <2>2
<1>7. CASE WriteUser
  BY <1>3, <1>4, <1>7 DEF WriteUser
<1>. QED
  BY <1>1, <1>2, <1>5, <1>6, <1>7 DEF Next, LogonStep

(* What a logon writes back has the number, and when its copy is fresh the  *)
(* password and the lock, of the record it is written over.                 *)
LEMMA AuditedKeeps ==
  ASSUME NEW r \in Infos, NEW i \in Infos
  PROVE  /\ TUserSetAllInfo(r, i).id = r.id
         /\ i \in Audited(r) => /\ TUserSetAllInfo(r, i).passwd = r.passwd
                                /\ TUserSetAllInfo(r, i).locked = r.locked
<1>1. TUserSetAllInfo(r, i).id = r.id
  BY SMT DEF TUserSetAllInfo, Infos
<1>2. TUserSetAllInfo(r, i).passwd = i.passwd /\ TUserSetAllInfo(r, i).locked = i.locked
  BY SMT DEF TUserSetAllInfo, Infos
<1>3. \A n : LET s == [r EXCEPT !.fails = n] IN s.passwd = r.passwd /\ s.locked = r.locked
  BY SMT DEF Infos
<1>4. i \in Audited(r) => i = r \/ \E n : i = [r EXCEPT !.fails = n]
  BY DEF Audited
<1>. QED
  BY <1>1, <1>2, <1>3, <1>4

(* LogonKeeps: the logon that writes its copy of a user's record back       *)
(* changes neither password nor lock, unless somebody else changed the      *)
(* record since it was read, and never the number.                          *)
THEOREM LogonsKeep == Spec => LogonKeeps
<1>. DEFINE Kept == At(Scheduler, "logon") /\ job'[Scheduler].at = "idle" =>
                      \A u \in Names : users[u] # None =>
                        /\ users'[u].id = users[u].id
                        /\ u \notin undone => /\ users'[u].passwd = users[u].passwd
                                              /\ users'[u].locked = users[u].locked
<1>1. Init => CopyFresh
  BY SMT DEF Init, CopyFresh, At, Idle, Threads
<1>2. TypeOK /\ CopyFresh /\ [Next]_vars => CopyFresh'
  BY CopyNext, CatalogAssumption
<1>3. TypeOK /\ CopyFresh /\ [Next]_vars => [Kept]_vars
  <2>. SUFFICES ASSUME TypeOK, CopyFresh, Next, At(Scheduler, "logon"),
                       job'[Scheduler].at = "idle", NEW u \in Names, users[u] # None
                PROVE  /\ users'[u].id = users[u].id
                       /\ u \notin undone => /\ users'[u].passwd = users[u].passwd
                                             /\ users'[u].locked = users[u].locked
    OBVIOUS
  <2>1. WriteUser
    BY CatalogAssumption, ServiceLogon DEF Next, LogonStep, BeginLogon, ReadUser, At
  <2>2. users \in [Names -> Infos \cup {None}] /\ users[u] \in Infos
    BY DEF TypeOK
  <2>3. CASE u = job[Scheduler].key
    <3>1. job[Scheduler].info \in Infos
      BY DEF TypeOK, SchedulerJob, At
    <3>2. users'[u] = TUserSetAllInfo(users[u], job[Scheduler].info)
      BY <2>1, <2>2, <2>3 DEF WriteUser
    <3>. QED
      BY <2>2, <2>3, <3>1, <3>2, AuditedKeeps DEF CopyFresh
  <2>4. CASE u # job[Scheduler].key
    BY <2>1, <2>2, <2>4 DEF WriteUser
  <2>. QED
    BY <2>3, <2>4
<1>. QED
  BY <1>1, <1>2, <1>3, CatalogTypeCorrect, PTL DEF Spec, LogonKeeps
=============================================================================
