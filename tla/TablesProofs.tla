---------------------------- MODULE TablesProofs ----------------------------
(***************************************************************************)
(* Theorems about Tables: types, InUseStaysOpen, RecordHeld.               *)
(*                                                                         *)
(* KeptInv is inductive.  Fit and ControlInv follow a script: which of     *)
(* its tables it has, where k points, and that only the owner of the list  *)
(* of open tables is asleep or flushes one.  InUseStaysOpen carries the    *)
(* balance of each table: its users and the threads that flush it are the  *)
(* handles on it and those lost with a FROM that failed.  HeldInv says     *)
(* what a log may rely on: the records it names exist, its worker has the  *)
(* table, and each entry has its record lock, or is an append, whose       *)
(* record nobody else's append can have.                                   *)
(*                                                                         *)
(* Most actions leave the counts and the logs alone (QuietStep); a count   *)
(* changes by what one worker's handles change (UsedChange), and a log of  *)
(* one worker is disturbed by another only through the locks and lengths   *)
(* of KeptFor (HeldStep).  dSleep (SleepReleases, SleepGoesOn, FlushKeeps) *)
(* and dAwake (AwakenStep) change counts; toLockRec and apprec             *)
(* (CalRecLaterKeeps, AppRecUnLockKeeps) add to logs.                      *)
(***************************************************************************)
EXTENDS Tables, FiniteSetTheorems, TLAPS

USE TablesAssumption

-----------------------------------------------------------------------------
(* Sequences                                                                *)

(* An element is added at the end, or the first is dropped.                 *)
LEMMA AppendSeq ==
  ASSUME NEW S, NEW s \in Seq(S), NEW x \in S
  PROVE  /\ Append(s, x) \in Seq(S) /\ Len(Append(s, x)) = Len(s) + 1
         /\ DOMAIN Append(s, x) = 1 .. Len(s) + 1
         /\ \A i \in 1 .. Len(s) : Append(s, x)[i] = s[i]
         /\ Append(s, x)[Len(s) + 1] = x
         /\ Elements(Append(s, x)) = Elements(s) \cup {x}
<1>1. /\ Append(s, x) \in Seq(S) /\ Len(Append(s, x)) = Len(s) + 1
      /\ DOMAIN Append(s, x) = 1 .. Len(s) + 1
      /\ \A i \in 1 .. Len(s) : Append(s, x)[i] = s[i]
      /\ Append(s, x)[Len(s) + 1] = x
  BY SMT
<1>2. DOMAIN s = 1 .. Len(s) /\ Len(s) \in Nat
  BY SMT
<1>3. Elements(Append(s, x)) = Elements(s) \cup {x}
  BY <1>1, <1>2, SMT DEF Elements
<1> QED BY <1>1, <1>3

LEMMA TailSeq ==
  ASSUME NEW S, NEW s \in Seq(S), s # <<>>
  PROVE  /\ Tail(s) \in Seq(S) /\ Len(s) \in Nat \ {0} /\ Len(Tail(s)) = Len(s) - 1
         /\ DOMAIN s = 1 .. Len(s) /\ DOMAIN Tail(s) = 1 .. Len(s) - 1
         /\ \A i \in 1 .. Len(s) - 1 : Tail(s)[i] = s[i + 1]
         /\ s[1] \in S
BY SMT

LEMMA EmptySeq ==
  ASSUME NEW S, NEW s \in Seq(S), Len(s) = 0
  PROVE  s = <<>>
BY SMT

LEMMA FunctionSeq ==
  ASSUME NEW S, NEW n \in Nat, NEW s \in [1 .. n -> S]
  PROVE  s \in Seq(S) /\ Len(s) = n /\ DOMAIN s = 1 .. n
BY SMT

\* The list of open tables without its i-th (the shift in dAwake).
LEMMA WithoutSeq ==
  ASSUME NEW i \in DOMAIN files, files \in Seq(Files)
  PROVE  /\ Without(i) \in Seq(Files) /\ Len(files) \in Nat /\ Len(Without(i)) = Len(files) - 1
         /\ DOMAIN Without(i) = 1 .. Len(files) - 1 /\ DOMAIN files = 1 .. Len(files)
         /\ \A k \in 1 .. Len(files) - 1 :
              Without(i)[k] = IF k < i THEN files[k] ELSE files[k + 1]
<1> DEFINE W == [k \in 1 .. Len(files) - 1 |-> files[IF k < i THEN k ELSE k + 1]]
<1>1. /\ Len(files) \in Nat /\ DOMAIN files = 1 .. Len(files) /\ i \in 1 .. Len(files)
      /\ \A k \in 1 .. Len(files) : files[k] \in Files
  BY SMT
<1>2. ASSUME NEW k \in 1 .. Len(files) - 1
      PROVE  files[IF k < i THEN k ELSE k + 1] \in Files
  BY <1>1, SMT
<1>3. W \in Seq(Files) /\ Len(W) = Len(files) - 1
  <2> DEFINE n == Len(files) - 1
  <2>1. n \in Nat
    BY <1>1, SMT
  <2>2. W \in [1 .. n -> Files]
    BY <1>2
  <2> HIDE DEF W, n
  <2>3. W \in Seq(Files) /\ Len(W) = n
    BY <2>1, <2>2, FunctionSeq
  <2> QED BY <2>3 DEF n
<1> QED BY <1>1, <1>3, SMT DEF Without

LEMMA WithoutElements ==
  ASSUME NEW i \in DOMAIN files, files \in Seq(Files),
         \A k, l \in DOMAIN files : files[k] = files[l] => k = l
  PROVE  /\ Elements(Without(i)) = Open \ {files[i]}
         /\ \A k, l \in DOMAIN Without(i) : Without(i)[k] = Without(i)[l] => k = l
<1> DEFINE W == Without(i)
<1>1. /\ Len(files) \in Nat /\ DOMAIN files = 1 .. Len(files)
      /\ DOMAIN W = 1 .. Len(files) - 1
      /\ \A k \in 1 .. Len(files) - 1 : W[k] = IF k < i THEN files[k] ELSE files[k + 1]
  BY WithoutSeq
<1> HIDE DEF W
<1> DEFINE m(k) == IF k < i THEN k ELSE k + 1
<1>2. \A k \in DOMAIN W : m(k) \in DOMAIN files /\ m(k) # i /\ W[k] = files[m(k)]
  BY <1>1, SMTT(30)
<1>3. ASSUME NEW k \in DOMAIN W, NEW l \in DOMAIN W, W[k] = W[l] PROVE k = l
  <2>1. m(k) = m(l)
    BY <1>2, <1>3
  <2> QED BY <1>1, <2>1, SMTT(30)
<1> HIDE DEF m
<1>4. ASSUME NEW x \in Elements(W) PROVE x \in Open \ {files[i]}
  <2>1. PICK k \in DOMAIN W : x = W[k]
    BY <1>4 DEF Elements
  <2> QED BY <1>2, <2>1 DEF Open, Elements
<1>5. ASSUME NEW x \in Open \ {files[i]} PROVE x \in Elements(W)
  <2>1. PICK k \in DOMAIN files : x = files[k] /\ k # i
    BY <1>5 DEF Open, Elements
  <2>2. CASE k < i
    <3>1. k \in DOMAIN W /\ W[k] = x
      BY <1>1, <2>1, <2>2, SMT
    <3> QED BY <3>1 DEF Elements
  <2>3. CASE k > i
    <3>1. k - 1 \in DOMAIN W /\ W[k - 1] = x
      BY <1>1, <2>1, <2>3, SMT
    <3> QED BY <3>1 DEF Elements
  <2> QED BY <1>1, <2>1, <2>2, <2>3, SMT
<1>6. Elements(W) = Open \ {files[i]}
  BY <1>4, <1>5
<1> QED BY <1>3, <1>6 DEF W
-----------------------------------------------------------------------------
(* Scripts and jobs                                                         *)

LEMMA ScriptFacts ==
  ASSUME NEW s \in Scripts
  PROVE  /\ s.from \in Seq(Files) /\ Len(s.from) \in Nat \ {0}
         /\ s.exclusive \in BOOLEAN /\ s.update \in BOOLEAN /\ s.append \in BOOLEAN
         /\ s.acts \in Seq(Acts) /\ Len(s.acts) \in Nat /\ DOMAIN s.acts = 1 .. Len(s.acts)
         /\ \A i \in DOMAIN s.acts :
              /\ s.acts[i].op \in {"calrec", "apprec"}
              /\ s.acts[i].table \in 1 .. Len(s.from)
              /\ s.acts[i].rec \in Nat \ {0}
              /\ s.acts[i].rec <= RecNum[s.from[s.acts[i].table]]
<1>1. ScriptOK(s)
  OBVIOUS
<1>2. s.from \in Seq(Files) /\ Len(s.from) \in Nat \ {0} /\ DOMAIN s.from = 1 .. Len(s.from)
  BY <1>1, SMT DEF ScriptOK
<1>3. s.exclusive \in BOOLEAN /\ s.update \in BOOLEAN /\ s.append \in BOOLEAN
  BY <1>1 DEF ScriptOK
<1>4. s.acts \in Seq(Acts) /\ Len(s.acts) \in Nat /\ DOMAIN s.acts = 1 .. Len(s.acts)
  BY <1>1, SMT DEF ScriptOK
<1>5. ASSUME NEW i \in DOMAIN s.acts
      PROVE  /\ s.acts[i].op \in {"calrec", "apprec"}
             /\ s.acts[i].table \in 1 .. Len(s.from)
             /\ s.acts[i].rec \in Nat \ {0}
             /\ s.acts[i].rec <= RecNum[s.from[s.acts[i].table]]
  <2>1. s.acts[i] \in Acts
    BY <1>4
  <2>2. /\ s.acts[i].table \in DOMAIN s.from
        /\ s.acts[i].rec \in 1 .. RecNum[s.from[s.acts[i].table]]
    BY <1>1 DEF ScriptOK
  <2>3. s.from[s.acts[i].table] \in Files
    BY <1>2, <2>2
  <2>4. RecNum[s.from[s.acts[i].table]] \in Nat
    BY <2>3
  <2> QED BY <1>2, <2>1, <2>2, <2>4, SMT DEF Acts
<1> QED BY <1>2, <1>3, <1>4, <1>5

\* The handles of j are those of the first tables of its FROM.
Matched(j) == \A i \in DOMAIN j.handles : j.handles[i].file = j.script.from[i]

\* A job on which no lock of a table or of the list depends.
Plain(j) == j.at \notin {"append", "unlock1", "flush"}

\* The jobs that the helpers of the actions return are at a point of their script.
LEMMA IdleFit ==
  ASSUME NEW b \in BOOLEAN
  PROVE  /\ Idle(b) \in Jobs /\ Fit(Idle(b)) /\ Plain(Idle(b))
         /\ Idle(b).handles = <<>> /\ Idle(b).log = <<>> /\ Idle(b).store = None
<1>1. <<>> \in Seq(Handles) /\ <<>> \in Seq(Entries) /\ Len(<<>>) = 0
  BY SMT
<1>2. Tries \in 0 .. Tries /\ 0 \in 0 .. MaxScripts /\ DOMAIN <<>> = {}
  BY SMT
<1> QED
  BY <1>1, <1>2, SMT DEF Idle, Jobs, Ats, InAct, InCommit, InClose, Fit, Plain

LEMMA ActingFit ==
  ASSUME NEW j \in Jobs, j.script \in Scripts, Len(j.handles) = Len(j.script.from), Matched(j),
         j.k \in 1 .. Len(j.script.acts) + 1, j.log # <<>> => j.script.update
  PROVE  /\ Acting(j) \in Jobs /\ Fit(Acting(j)) /\ Plain(Acting(j))
         /\ Acting(j).handles = j.handles /\ Acting(j).log = j.log
         /\ Acting(j).store = j.store
<1>0. DOMAIN j.handles = 1 .. Len(j.handles) /\ Len(j.script.from) \in Nat \ {0}
  BY ScriptFacts, SMT DEF Jobs
<1>3. DOMAIN j.script.acts = 1 .. Len(j.script.acts) /\ Len(j.script.acts) \in Nat
      /\ j.script.update \in BOOLEAN /\ j.k \in Nat
  BY ScriptFacts DEF Jobs
<1>1. CASE j.k <= Len(j.script.acts)
  <2> DEFINE o == [j EXCEPT !.at = "act"]
  <2>1. o \in Jobs
    BY SMTT(30) DEF Jobs, Ats, InAct
  <2>2. /\ o.at = "act" /\ o.script = j.script /\ o.k = j.k /\ o.handles = j.handles
        /\ o.log = j.log /\ o.store = j.store
    BY SMT DEF Jobs
  <2>3. Acting(j) = o
    BY <1>1 DEF Acting
  <2> HIDE DEF o
  <2>4. j.k \in DOMAIN j.script.acts
    BY <1>1, <1>3, SMT
  <2>5. Fit(o)
    BY <2>2, <2>4 DEF Fit, Matched, InAct, InCommit, InClose
  <2>6. Plain(o)
    BY <2>2 DEF Plain
  <2> QED BY <2>1, <2>2, <2>3, <2>5, <2>6
<1>2. CASE ~(j.k <= Len(j.script.acts))
  <2> DEFINE a == IF j.script.update THEN "commit" ELSE "target"
             o == [j EXCEPT !.at = a, !.k = 1]
  <2>0. a \in Ats /\ 1 \in Nat
    BY SMT DEF Ats, InCommit
  <2> HIDE DEF a
  <2>1. o \in Jobs
    BY <2>0 DEF Jobs
  <2>2. /\ o.at = a /\ o.script = j.script /\ o.k = 1 /\ o.handles = j.handles
        /\ o.log = j.log /\ o.store = j.store
    BY SMT DEF Jobs
  <2>3. Acting(j) = o
    BY <1>2 DEF Acting, a
  <2> HIDE DEF o
  <2> USE DEF a
  <2>4. 1 \in DOMAIN j.handles
    BY <1>0, SMT
  <2>5. Fit(o)
    BY <2>2, <2>4 DEF Fit, Matched, InAct, InCommit, InClose
  <2>6. Plain(o)
    BY <2>2 DEF Plain
  <2> QED BY <2>1, <2>2, <2>3, <2>5, <2>6
<1> QED BY <1>1, <1>2

LEMMA ReadyFit ==
  ASSUME NEW j \in Jobs, j.script \in Scripts, Len(j.handles) \in 1 .. Len(j.script.from),
         Matched(j), j.k = 1, j.log = <<>>
  PROVE  /\ Ready(j) \in Jobs /\ Fit(Ready(j)) /\ Plain(Ready(j))
         /\ Ready(j).handles = j.handles /\ Ready(j).log = <<>> /\ Ready(j).store = j.store
<1>1. CASE Len(j.handles) < Len(j.script.from)
  <2> DEFINE o == [j EXCEPT !.at = "from"]
  <2>0. "from" \in Ats
    BY DEF Ats
  <2>1. o \in Jobs
    BY <2>0 DEF Jobs
  <2>2. /\ o.at = "from" /\ o.script = j.script /\ o.k = j.k /\ o.handles = j.handles
        /\ o.log = j.log /\ o.store = j.store
    BY SMT DEF Jobs
  <2>3. Ready(j) = o
    BY <1>1 DEF Ready
  <2> HIDE DEF o
  <2>5. Fit(o)
    BY <1>1, <2>2 DEF Fit, Matched, InAct, InCommit, InClose
  <2>6. Plain(o)
    BY <2>2 DEF Plain
  <2> QED BY <2>1, <2>2, <2>3, <2>5, <2>6
<1>2. CASE ~(Len(j.handles) < Len(j.script.from))
  <2>1. Len(j.handles) = Len(j.script.from) /\ j.k \in 1 .. Len(j.script.acts) + 1
    BY <1>2, ScriptFacts, SMT
  <2> QED BY <1>2, <2>1, ActingFit DEF Ready
<1> QED BY <1>1, <1>2

LEMMA WentFit ==
  ASSUME NEW j \in Jobs, Fit(j), j.at \in InAct
  PROVE  /\ Went(j) \in Jobs /\ Fit(Went(j)) /\ Plain(Went(j))
         /\ Went(j).handles = j.handles /\ Went(j).log = j.log /\ Went(j).store = j.store
<1> DEFINE o == [j EXCEPT !.k = @ + 1, !.seen = None]
<1>0. j.k \in Nat /\ j.k + 1 \in Nat
  BY SMT DEF Jobs
<1>1. o \in Jobs
  BY <1>0 DEF Jobs
<1>6. /\ o.script = j.script /\ o.handles = j.handles /\ o.log = j.log
      /\ o.store = j.store /\ o.k = j.k + 1
  BY SMT DEF Jobs
<1>2. /\ j.script \in Scripts /\ Len(j.handles) = Len(j.script.from) /\ Matched(j)
      /\ j.k \in DOMAIN j.script.acts /\ (j.log # <<>> => j.script.update)
  BY DEF Fit, InAct, InClose, Matched
<1> HIDE DEF o
<1>3. o.k \in 1 .. Len(o.script.acts) + 1
  <2>1. DOMAIN j.script.acts = 1 .. Len(j.script.acts) /\ Len(j.script.acts) \in Nat
    BY <1>2, ScriptFacts
  <2> QED BY <1>2, <1>6, <2>1, SMT
<1>4. Matched(o)
  BY <1>6, <1>2 DEF Matched
<1>5. /\ Acting(o) \in Jobs /\ Fit(Acting(o)) /\ Plain(Acting(o))
      /\ Acting(o).handles = j.handles /\ Acting(o).log = j.log /\ Acting(o).store = j.store
  BY <1>1, <1>2, <1>3, <1>4, <1>6, ActingFit
<1> QED BY <1>5 DEF Went, o

LEMMA FailedFit ==
  ASSUME NEW j \in Jobs, Fit(j), j.at \in InAct
  PROVE  /\ Failed(j) \in Jobs /\ Fit(Failed(j)) /\ Plain(Failed(j))
         /\ Failed(j).handles = j.handles /\ Failed(j).log = <<>> /\ Failed(j).store = j.store
<1> DEFINE a == IF j.script.update THEN "free" ELSE "target"
           o == [j EXCEPT !.at = a, !.k = Len(j.handles), !.log = <<>>, !.seen = None]
<1>1. /\ j.script \in Scripts /\ Len(j.handles) = Len(j.script.from) /\ Matched(j)
  BY DEF Fit, InAct, InClose, Matched
<1>2. Len(j.handles) \in DOMAIN j.handles /\ Len(j.handles) \in Nat
  BY <1>1, ScriptFacts, SMT DEF Jobs
<1>3. a \in Ats /\ <<>> \in Seq(Entries)
  BY SMT DEF Ats, InCommit
<1>4. o \in Jobs
  BY <1>2, <1>3 DEF Jobs
<1>5. /\ o.at = a /\ o.script = j.script /\ o.k = Len(j.handles) /\ o.handles = j.handles
      /\ o.log = <<>> /\ o.store = j.store
  BY SMT DEF Jobs
<1>6. Failed(j) = o
  BY DEF Failed
<1> HIDE DEF o
<1>7. Fit(o)
  BY <1>1, <1>2, <1>5 DEF Fit, Matched, InAct, InCommit, InClose
<1>8. Plain(o)
  BY <1>5 DEF Plain
<1> QED BY <1>4, <1>5, <1>6, <1>7, <1>8

LEMMA WritingFit ==
  ASSUME NEW j \in Jobs, j.script \in Scripts, Len(j.handles) = Len(j.script.from), Matched(j),
         j.k \in 1 .. Len(j.log) + 1, j.log # <<>> => j.script.update
  PROVE  /\ Writing(j) \in Jobs /\ Fit(Writing(j)) /\ Plain(Writing(j))
         /\ Writing(j).handles = j.handles /\ Writing(j).log \in {j.log, <<>>}
         /\ Writing(j).store = j.store
<1>1. /\ DOMAIN j.handles = 1 .. Len(j.handles) /\ DOMAIN j.log = 1 .. Len(j.log)
      /\ Len(j.log) \in Nat /\ <<>> \in Seq(Entries)
  BY SMT DEF Jobs
<1>2. CASE j.k <= Len(j.log)
  <2> DEFINE o == [j EXCEPT !.at = "write"]
  <2>0. "write" \in Ats
    BY DEF Ats
  <2>1. o \in Jobs
    BY <2>0 DEF Jobs
  <2>2. /\ o.at = "write" /\ o.script = j.script /\ o.k = j.k /\ o.handles = j.handles
        /\ o.log = j.log /\ o.store = j.store
    BY SMT DEF Jobs
  <2>3. Writing(j) = o
    BY <1>2 DEF Writing
  <2> HIDE DEF o
  <2>4. j.k \in DOMAIN j.log
    BY <1>1, <1>2, SMT
  <2>5. Fit(o)
    BY <2>2, <2>4 DEF Fit, Matched, InAct, InCommit, InClose
  <2>6. Plain(o)
    BY <2>2 DEF Plain
  <2> QED BY <2>1, <2>2, <2>3, <2>5, <2>6
<1>3. CASE ~(j.k <= Len(j.log))
  <2> DEFINE o == [j EXCEPT !.at = "unlock", !.k = 1, !.log = <<>>]
  <2>0. "unlock" \in Ats /\ 1 \in Nat
    BY SMT DEF Ats, InCommit
  <2>1. o \in Jobs
    BY <1>1, <2>0 DEF Jobs
  <2>2. /\ o.at = "unlock" /\ o.script = j.script /\ o.k = 1 /\ o.handles = j.handles
        /\ o.log = <<>> /\ o.store = j.store
    BY SMT DEF Jobs
  <2>3. Writing(j) = o
    BY <1>3 DEF Writing
  <2> HIDE DEF o
  <2>4. 1 \in DOMAIN j.handles
    <3>1. Len(j.handles) \in Nat \ {0}
      BY ScriptFacts
    <3> QED BY <1>1, <3>1, SMT
  <2>5. Fit(o)
    BY <2>2, <2>4 DEF Fit, Matched, InAct, InCommit, InClose
  <2>6. Plain(o)
    BY <2>2 DEF Plain
  <2> QED BY <2>1, <2>2, <2>3, <2>5, <2>6
<1> QED BY <1>2, <1>3

LEMMA SleptFit ==
  ASSUME NEW j \in Jobs, Fit(j), j.at \in InClose, j.store = None
  PROVE  /\ Slept(j) \in Jobs /\ Fit(Slept(j)) /\ Plain(Slept(j))
         /\ Slept(j).handles = Tail(j.handles) /\ Slept(j).log = <<>> /\ j.log = <<>>
         /\ Slept(j).store = None
<1>1. j.handles # <<>> /\ j.handles \in Seq(Handles) /\ j.log = <<>> /\ j.script \in Scripts
  BY SMT DEF Fit, InClose, InAct, Jobs
<1>2. /\ Tail(j.handles) \in Seq(Handles) /\ Len(Tail(j.handles)) = Len(j.handles) - 1
      /\ Len(j.handles) \in Nat \ {0}
  BY <1>1, TailSeq
<1>3. CASE Len(j.handles) = 1
  <2> DEFINE t == Tail(j.handles)
  <2>1. t \in Seq(Handles) /\ Len(t) = 0
    BY <1>2, <1>3
  <2> HIDE DEF t
  <2>2. t = <<>>
    BY <2>1, EmptySeq
  <2>3. j.kept \in BOOLEAN
    BY DEF Jobs
  <2> QED BY <1>1, <1>3, <2>2, <2>3, IdleFit DEF Slept, t
<1>4. CASE Len(j.handles) # 1
  <2> DEFINE t == Tail(j.handles)
             o == [j EXCEPT !.at = "close", !.handles = t]
  <2>1. t \in Seq(Handles) /\ Len(t) # 0
    BY <1>2, <1>4, SMT
  <2>2. Len(<<>>) = 0
    BY SMT
  <2>3. Slept(j) = o
    BY <1>4 DEF Slept
  <2>4. "close" \in Ats
    BY DEF Ats, InClose
  <2> HIDE DEF t
  <2>5. t # <<>>
    BY <2>1, <2>2
  <2>6. o \in Jobs
    BY <2>1, <2>4 DEF Jobs
  <2>7. /\ o.at = "close" /\ o.script = j.script /\ o.handles = t
        /\ o.log = j.log /\ o.store = j.store
    BY SMT DEF Jobs
  <2> HIDE DEF o
  <2>8. Fit(o)
    BY <1>1, <2>5, <2>7 DEF Fit, InAct, InCommit, InClose
  <2>9. Plain(o)
    BY <2>7 DEF Plain
  <2> QED BY <1>1, <2>3, <2>6, <2>7, <2>8, <2>9 DEF t
<1> QED BY <1>3, <1>4
-----------------------------------------------------------------------------
(* The handles on a table, counted                                          *)

\* The handles of hs on table f, those of the workers of S, and those of all.
Index(hs, f) == {i \in DOMAIN hs : hs[i].file = f}
Among(S, jobs, f) == UNION {{w} \X Index(jobs[w].handles, f) : w \in S}
Used(jobs, f) == Among(Workers, jobs, f)
Others(jobs, w, f) == Among(Workers \ {w}, jobs, f)

LEMMA UsesUsed ==
  ASSUME NEW f
  PROVE  Uses(f) = Used(job, f) /\ (Uses(f))' = Used(job', f)
<1>1. ASSUME NEW w \in Workers
      PROVE  {i \in DOMAIN job[w].handles : From(w)[i] = f} = Index(job[w].handles, f)
  BY DEF From, Index
<1>2. ASSUME NEW w \in Workers
      PROVE  {i \in DOMAIN job'[w].handles : (From(w))'[i] = f} = Index(job'[w].handles, f)
  BY DEF From, Index
<1>3. Uses(f) = Used(job, f)
  BY <1>1 DEF Uses, Used, Among
<1>4. (Uses(f))' = Used(job', f)
  BY <1>2 DEF Uses, Used, Among
<1> QED BY <1>3, <1>4

\* The handles on one table are finitely many, also one more or one less.
LEMMA IndexFinite ==
  ASSUME NEW hs \in Seq(Handles), NEW f
  PROVE  IsFiniteSet(Index(hs, f)) /\ Cardinality(Index(hs, f)) \in Nat
<1>1. DOMAIN hs = 1 .. Len(hs) /\ Len(hs) \in Int
  BY SMT
<1>2. IsFiniteSet(1 .. Len(hs))
  BY <1>1, FS_Interval
<1>3. Index(hs, f) \in SUBSET (1 .. Len(hs))
  BY <1>1 DEF Index
<1> QED BY <1>2, <1>3, FS_Subset, FS_CardinalityType

LEMMA IndexAppend ==
  ASSUME NEW hs \in Seq(Handles), NEW h \in Handles, NEW f
  PROVE  Cardinality(Index(Append(hs, h), f)) =
           Cardinality(Index(hs, f)) + (IF h.file = f THEN 1 ELSE 0)
<1> DEFINE a == Append(hs, h)
<1>1. /\ DOMAIN a = 1 .. Len(hs) + 1 /\ DOMAIN hs = 1 .. Len(hs) /\ Len(hs) \in Nat
      /\ \A i \in 1 .. Len(hs) : a[i] = hs[i]
      /\ a[Len(hs) + 1] = h
  BY AppendSeq, SMT
<1>2. IsFiniteSet(Index(hs, f)) /\ Cardinality(Index(hs, f)) \in Nat
  BY IndexFinite
<1> HIDE DEF a
<1> DEFINE n == Len(hs) + 1
<1>3. n \notin DOMAIN hs /\ DOMAIN a = DOMAIN hs \cup {n} /\ a[n] = h
      /\ \A i \in DOMAIN hs : a[i] = hs[i]
  BY <1>1, SMT
<1> HIDE DEF n
<1>4. CASE h.file = f
  <2>1. Index(a, f) = Index(hs, f) \cup {n} /\ n \notin Index(hs, f)
    BY <1>3, <1>4 DEF Index
  <2> QED BY <1>2, <1>4, <2>1, FS_AddElement DEF a
<1>5. CASE h.file # f
  <2>1. Index(a, f) = Index(hs, f)
    BY <1>3, <1>5 DEF Index
  <2> QED BY <1>2, <1>5, <2>1, SMT DEF a
<1> QED BY <1>4, <1>5

LEMMA IndexTail ==
  ASSUME NEW hs \in Seq(Handles), hs # <<>>, NEW f
  PROVE  Cardinality(Index(hs, f)) =
           Cardinality(Index(Tail(hs), f)) + (IF hs[1].file = f THEN 1 ELSE 0)
<1> DEFINE t == Tail(hs)
           S == Index(hs, f) \ {1}
           m == [i \in Index(t, f) |-> i + 1]
<1>1. /\ Len(hs) \in Nat \ {0}
      /\ DOMAIN hs = 1 .. Len(hs) /\ DOMAIN t = 1 .. Len(hs) - 1
      /\ \A i \in 1 .. Len(hs) - 1 : t[i] = hs[i + 1]
      /\ t \in Seq(Handles)
  BY TailSeq
<1>2. IsFiniteSet(Index(hs, f)) /\ Cardinality(Index(hs, f)) \in Nat
      /\ IsFiniteSet(Index(t, f)) /\ Cardinality(Index(t, f)) \in Nat
  BY <1>1, IndexFinite
<1> HIDE DEF t
<1>3. \A i \in Index(t, f) : i \in Nat /\ i + 1 \in S
  BY <1>1, SMT DEF Index
<1>4. \A i \in S : i - 1 \in Index(t, f) /\ (i - 1) + 1 = i
  BY <1>1, SMT DEF Index
<1>5. m \in Bijection(Index(t, f), S)
  <2>1. m \in [Index(t, f) -> S]
    BY <1>3
  <2>2. DOMAIN m = Index(t, f) /\ \A i, k \in Index(t, f) : m[i] = m[k] => i = k
    BY <1>3, SMT
  <2>3. \A i \in S : \E k \in Index(t, f) : m[k] = i
    BY <1>4
  <2> HIDE DEF m, S
  <2> QED BY <2>1, <2>2, <2>3 DEF Bijection, Injection, IsInjective, Surjection
<1>6. Cardinality(S) = Cardinality(Index(t, f))
  BY <1>2, <1>5, FS_Bijection DEF ExistsBijection
<1>7. 1 \in Index(hs, f) <=> hs[1].file = f
  BY <1>1, SMT DEF Index
<1>8. Cardinality(S) = IF 1 \in Index(hs, f) THEN Cardinality(Index(hs, f)) - 1
                       ELSE Cardinality(Index(hs, f))
  BY <1>2, FS_RemoveElement
<1> QED BY <1>2, <1>6, <1>7, <1>8, SMT DEF t

\* The handles of all workers on one table are those of one worker and of the others.
LEMMA PairsCount ==
  ASSUME NEW w, NEW I, IsFiniteSet(I)
  PROVE  IsFiniteSet({w} \X I) /\ Cardinality({w} \X I) = Cardinality(I)
<1>1. IsFiniteSet({w}) /\ Cardinality({w}) = 1 /\ Cardinality(I) \in Nat
  BY FS_Singleton, FS_CardinalityType
<1>2. IsFiniteSet({w} \X I) /\ Cardinality({w} \X I) = Cardinality({w}) * Cardinality(I)
  BY <1>1, FS_Product
<1> QED BY <1>1, <1>2, SMT

LEMMA UnionFinite ==
  ASSUME NEW S \in SUBSET Workers, NEW jobs \in [Workers -> Jobs], NEW f
  PROVE  IsFiniteSet(Among(S, jobs, f))
<1> DEFINE P(w) == {w} \X Index(jobs[w].handles, f)
           parts == {P(w) : w \in S}
           g == [w \in S |-> P(w)]
<1>1. \A w \in S : IsFiniteSet(P(w))
  <2>1. \A w \in S : jobs[w].handles \in Seq(Handles)
    BY DEF Jobs
  <2> QED BY <2>1, IndexFinite, PairsCount
<1>2. g \in Surjection(S, parts)
  BY DEF Surjection
<1>3. IsFiniteSet(parts)
  <2>1. IsFiniteSet(S)
    BY FS_Subset
  <2> HIDE DEF g, parts
  <2> QED BY <1>2, <2>1, FS_Surjection
<1>4. IsFiniteSet(UNION parts)
  <2> HIDE DEF P
  <2> QED BY <1>1, <1>3, FS_UNION
<1> QED BY <1>4 DEF Among

LEMMA UsedSplit ==
  ASSUME NEW jobs \in [Workers -> Jobs], NEW w \in Workers, NEW f
  PROVE  /\ IsFiniteSet(Used(jobs, f)) /\ Cardinality(Used(jobs, f)) \in Nat
         /\ Cardinality(Others(jobs, w, f)) \in Nat
         /\ Cardinality(Used(jobs, f)) =
              Cardinality(Others(jobs, w, f)) + Cardinality(Index(jobs[w].handles, f))
<1> DEFINE O == Others(jobs, w, f)
           M == {w} \X Index(jobs[w].handles, f)
<1>1. jobs[w].handles \in Seq(Handles)
  BY DEF Jobs
<1>0. Workers \in SUBSET Workers /\ Workers \ {w} \in SUBSET Workers
  OBVIOUS
<1>2. IsFiniteSet(Used(jobs, f)) /\ IsFiniteSet(O)
  BY <1>0, UnionFinite DEF Used, Others
<1>3. IsFiniteSet(M) /\ Cardinality(M) = Cardinality(Index(jobs[w].handles, f))
  BY <1>1, IndexFinite, PairsCount
<1>4. Used(jobs, f) = O \cup M
  BY DEF Used, Others, Among
<1>5. O \cap M = {}
  BY DEF Others, Among
<1>6. Cardinality(O) \in Nat /\ Cardinality(M) \in Nat /\ Cardinality(Used(jobs, f)) \in Nat
  BY <1>2, <1>3, FS_CardinalityType
<1>7. Cardinality(O \cup M) = Cardinality(O) + Cardinality(M) - Cardinality(O \cap M)
  BY <1>2, <1>3, FS_Union
<1>8. Cardinality(O \cap M) = 0
  BY <1>5, FS_EmptySet
<1> HIDE DEF O, M
<1>9. Cardinality(Used(jobs, f)) = Cardinality(O) + Cardinality(M)
  BY <1>4, <1>6, <1>7, <1>8, SMT
<1> QED BY <1>2, <1>3, <1>6, <1>9 DEF O

\* What a worker takes up or gives back is what the count of the table changes by.
LEMMA UsedChange ==
  ASSUME NEW jobs \in [Workers -> Jobs], NEW w \in Workers, NEW f,
         NEW next \in [Workers -> Jobs], \A v \in Workers \ {w} : next[v] = jobs[v]
  PROVE  /\ Cardinality(Used(jobs, f)) \in Nat /\ Cardinality(Used(next, f)) \in Nat
         /\ Cardinality(Index(jobs[w].handles, f)) \in Nat
         /\ Cardinality(Index(next[w].handles, f)) \in Nat
         /\ Cardinality(Index(jobs[w].handles, f)) <= Cardinality(Used(jobs, f))
         /\ Cardinality(Used(next, f)) + Cardinality(Index(jobs[w].handles, f)) =
              Cardinality(Used(jobs, f)) + Cardinality(Index(next[w].handles, f))
<1>1. Others(next, w, f) = Others(jobs, w, f)
  BY DEF Others, Among
<1>2. jobs[w].handles \in Seq(Handles) /\ next[w].handles \in Seq(Handles)
  BY DEF Jobs
<1>3. Cardinality(Index(jobs[w].handles, f)) \in Nat /\ Cardinality(Index(next[w].handles, f)) \in Nat
  BY <1>2, IndexFinite
<1>4. /\ Cardinality(Used(jobs, f)) \in Nat /\ Cardinality(Others(jobs, w, f)) \in Nat
      /\ Cardinality(Used(jobs, f)) =
           Cardinality(Others(jobs, w, f)) + Cardinality(Index(jobs[w].handles, f))
  BY UsedSplit
<1>5. /\ Cardinality(Used(next, f)) \in Nat
      /\ Cardinality(Used(next, f)) =
           Cardinality(Others(next, w, f)) + Cardinality(Index(next[w].handles, f))
  BY UsedSplit
<1> QED BY <1>1, <1>3, <1>4, <1>5, SMT

LEMMA UsedNow ==
  ASSUME job \in [Workers -> Jobs], job' \in [Workers -> Jobs], NEW w \in Workers, NEW f,
         \A v \in Workers \ {w} : job'[v] = job[v]
  PROVE  /\ Cardinality(Used(job, f)) \in Nat /\ Cardinality(Used(job', f)) \in Nat
         /\ Cardinality(Index(job[w].handles, f)) \in Nat
         /\ Cardinality(Index(job'[w].handles, f)) \in Nat
         /\ Cardinality(Index(job[w].handles, f)) <= Cardinality(Used(job, f))
         /\ Cardinality(Used(job', f)) + Cardinality(Index(job[w].handles, f)) =
              Cardinality(Used(job, f)) + Cardinality(Index(job'[w].handles, f))
<1>1. ASSUME NEW js \in [Workers -> Jobs], \A v \in Workers \ {w} : js[v] = job[v]
      PROVE  /\ Cardinality(Used(job, f)) \in Nat /\ Cardinality(Used(js, f)) \in Nat
             /\ Cardinality(Index(job[w].handles, f)) \in Nat
             /\ Cardinality(Index(js[w].handles, f)) \in Nat
             /\ Cardinality(Index(job[w].handles, f)) <= Cardinality(Used(job, f))
             /\ Cardinality(Used(js, f)) + Cardinality(Index(job[w].handles, f)) =
                  Cardinality(Used(job, f)) + Cardinality(Index(js[w].handles, f))
  BY <1>1, UsedChange
<1> QED BY <1>1

\* A table that nobody counts is in no handle.
LEMMA UsedNone ==
  ASSUME NEW jobs \in [Workers -> Jobs], NEW f
  PROVE  Cardinality(Used(jobs, f)) = 0 <=>
           \A w \in Workers : \A i \in DOMAIN jobs[w].handles : jobs[w].handles[i].file # f
<1>0. Workers \in SUBSET Workers
  OBVIOUS
<1>1. IsFiniteSet(Used(jobs, f))
  BY <1>0, UnionFinite DEF Used
<1>2. Cardinality(Used(jobs, f)) = 0 <=> Used(jobs, f) = {}
  BY <1>1, FS_EmptySet
<1>3. Used(jobs, f) = {} <=> \A w \in Workers : Index(jobs[w].handles, f) = {}
  <2>1. ASSUME NEW w \in Workers, NEW i \in Index(jobs[w].handles, f)
        PROVE  <<w, i>> \in Used(jobs, f)
    BY DEF Used, Among
  <2>2. ASSUME NEW p \in Used(jobs, f)
        PROVE  \E w \in Workers : Index(jobs[w].handles, f) # {}
    BY DEF Used, Among
  <2> QED BY <2>1, <2>2
<1>4. \A w \in Workers : Index(jobs[w].handles, f) = {} <=>
        \A i \in DOMAIN jobs[w].handles : jobs[w].handles[i].file # f
  BY DEF Index
<1> QED BY <1>2, <1>3, <1>4
-----------------------------------------------------------------------------
(* What a step of one worker leaves alone                                   *)

LEMMA ElementsIn ==
  ASSUME NEW S, NEW s \in Seq(S)
  PROVE  Elements(s) \subseteq S
<1>1. \A i \in DOMAIN s : s[i] \in S
  BY SMT
<1> QED BY <1>1 DEF Elements

LEMMA JobTypes ==
  ASSUME TypeOK, NEW w \in Workers
  PROVE  /\ job[w] \in Jobs /\ job[w].handles \in Seq(Handles) /\ job[w].log \in Seq(Entries)
         /\ Elements(job[w].handles) \subseteq Handles /\ Elements(job[w].log) \subseteq Entries
<1>1. job[w] \in Jobs
  BY DEF TypeOK
<1>2. job[w].handles \in Seq(Handles) /\ job[w].log \in Seq(Entries)
  BY <1>1 DEF Jobs
<1> QED BY <1>1, <1>2, ElementsIn

\* The action of the script a worker is at names a table of its FROM and a record of it.
LEMMA ActFacts ==
  ASSUME TypeOK, ControlInv, NEW w \in Workers, job[w].at \in InAct
  PROVE  /\ job[w].script \in Scripts /\ Act(w).op \in {"calrec", "apprec"}
         /\ Act(w).table \in DOMAIN job[w].handles /\ Table(w) \in Files
         /\ Act(w).rec \in Nat \ {0} /\ Act(w).rec <= RecNum[Table(w)]
<1>1. /\ job[w].script \in Scripts /\ Len(job[w].handles) = Len(job[w].script.from)
      /\ job[w].k \in DOMAIN job[w].script.acts
      /\ \A i \in DOMAIN job[w].handles : job[w].handles[i].file = job[w].script.from[i]
  <2>1. Fit(job[w])
    BY DEF ControlInv
  <2> QED BY <2>1 DEF Fit, InAct, InClose
<1>2. /\ Act(w).op \in {"calrec", "apprec"}
      /\ Act(w).table \in 1 .. Len(job[w].script.from)
      /\ Act(w).rec \in Nat \ {0}
      /\ Act(w).rec <= RecNum[job[w].script.from[Act(w).table]]
  BY <1>1, ScriptFacts DEF Act
<1>3. job[w].handles \in Seq(Handles) /\ DOMAIN job[w].handles = 1 .. Len(job[w].handles)
  BY JobTypes, SMT
<1>4. Act(w).table \in DOMAIN job[w].handles
  BY <1>1, <1>2, <1>3
<1>5. Table(w) = job[w].script.from[Act(w).table]
  BY <1>1, <1>4 DEF Table
<1>6. Table(w) \in Files
  <2>1. job[w].handles[Act(w).table] \in Handles
    BY <1>3, <1>4
  <2> QED BY <2>1 DEF Handles, Table
<1> QED BY <1>1, <1>2, <1>4, <1>5, <1>6

SameCounts ==
  \A f \in Files : /\ df'[f].users = df[f].users /\ df'[f].gen = df[f].gen
                   /\ df'[f].lost = df[f].lost

\* A worker that takes up and gives back no table, and flushes none, changes no count.
LEMMA QuietInUse ==
  ASSUME TypeOK, InUseStaysOpen, NEW w \in Workers, NEW nj \in Jobs,
         job' = [job EXCEPT ![w] = nj], nj.handles = job[w].handles,
         nj.at = "flush" <=> job[w].at = "flush", files' = files, SameCounts
  PROVE  InUseStaysOpen'
<1>1. /\ job \in [Workers -> Jobs] /\ job' \in [Workers -> Jobs] /\ job'[w] = nj
      /\ \A v \in Workers \ {w} : job'[v] = job[v]
  BY DEF TypeOK
<1>2. \A v \in Workers : /\ job'[v].handles = job[v].handles
                         /\ job'[v].at = "flush" <=> job[v].at = "flush"
  BY <1>1
<1>3. ASSUME NEW f \in Files PROVE (Flushers(f))' = Flushers(f)
  BY <1>2 DEF Flushers, From
<1>4. ASSUME NEW f \in Files PROVE (Uses(f))' = Uses(f)
  <2>1. Used(job', f) = Used(job, f)
    BY <1>2 DEF Used, Among
  <2> QED BY <2>1, UsesUsed
<1>5. UsersCounted'
  BY <1>3, <1>4 DEF UsersCounted, InUseStaysOpen, SameCounts
<1>6. ASSUME NEW v \in Workers, NEW h \in Elements(job'[v].handles)
      PROVE  h.file \in Open' /\ df'[h.file].gen = h.gen
  <2>1. h \in Elements(job[v].handles)
    BY <1>2
  <2>2. h.file \in Files
    BY <2>1, JobTypes DEF Handles
  <2>3. h.file \in Open /\ df[h.file].gen = h.gen
    BY <2>1 DEF InUseStaysOpen
  <2>4. Open' = Open
    BY DEF Open, Elements
  <2> QED BY <2>2, <2>3, <2>4 DEF SameCounts
<1> QED BY <1>5, <1>6 DEF InUseStaysOpen

\* The records, and the critical sections and record locks of the other workers on the
\* tables they use.
Has(v, f) == \E i \in DOMAIN job[v].handles : job[v].handles[i].file = f
KeptFor(w) ==
  /\ \A f \in Files : Len(data[f]) <= Len(data'[f])
  /\ \A f \in Files, v \in Workers \ {w} : Has(v, f) /\ df[f].owner = v => df'[f].owner = v
  /\ \A f \in Files, v \in Workers \ {w, 0}, i \in Slots :
       Has(v, f) /\ df[f].locks[i] = v => df'[f].locks[i] = v

\* w keeps the record locks that it has.
OwnKept(w) == w # 0 => \A f \in Files, i \in Slots : df[f].locks[i] = w => df'[f].locks[i] = w

\* What HeldInv says of one worker and an entry e of the log of j, its next job.
Covered(w, j, e) ==
  /\ e.rec <= Len(data'[e.file])
  /\ \E i \in DOMAIN j.handles : j.handles[i].file = e.file
  /\ w # 0 /\ e.slot # None => df'[e.file].locks[e.slot] = w
Alone(w, e) ==
  e.slot = None => \A v \in Workers \ {w} :
    /\ \A d \in Elements(job[v].log) : d.slot = None /\ d.file = e.file => d.rec # e.rec
    /\ job[v].at = "unlock1" /\ Table(v) = e.file => e.rec < Len(data'[e.file])

\* HeldInv survives a step of w when KeptFor(w) and the new log of w is covered.
LEMMA HeldStep ==
  ASSUME TypeOK, ControlInv, HeldInv, NEW w \in Workers, NEW nj \in Jobs,
         job' = [job EXCEPT ![w] = nj], data' \in [Files -> Seq(0 .. MaxScripts)], KeptFor(w),
         nj.at \in {"append", "unlock1"} => df'[(Table(w))'].owner = w,
         \A e \in Elements(nj.log) : Covered(w, nj, e) /\ Alone(w, e),
         nj.at = "unlock1" => \A v \in Workers : \A e \in Elements(job'[v].log) :
           e.slot = None /\ e.file = (Table(w))' => e.rec < Len(data'[e.file])
  PROVE  HeldInv'
<1>1. /\ job \in [Workers -> Jobs] /\ job' \in [Workers -> Jobs] /\ job'[w] = nj
      /\ \A v \in Workers \ {w} : job'[v] = job[v]
  BY DEF TypeOK
<1>2. \A v \in Workers \ {w} : (Table(v))' = Table(v) /\ (From(v))' = From(v)
  BY <1>1 DEF Table, Act, From
<1>3. \A f \in Files : /\ RecNum[f] \in Nat /\ Len(data[f]) \in Nat /\ Len(data'[f]) \in Nat
                       /\ Len(data[f]) <= Len(data'[f])
  <2>1. \A f \in Files : /\ RecNum[f] \in Nat /\ data[f] \in Seq(0 .. MaxScripts)
                         /\ data'[f] \in Seq(0 .. MaxScripts)
    BY DEF TypeOK
  <2> QED BY <2>1, SMT DEF KeptFor
<1>4. \A f \in Files : RecNum[f] <= Len(data'[f])
  BY <1>3, SMT DEF HeldInv
<1>5. ASSUME NEW v \in Workers \ {w}, NEW e \in Elements(job[v].log)
      PROVE  /\ e.file \in Files /\ e.rec \in Nat /\ e.slot \in Slots \cup {None}
             /\ e.rec <= Len(data[e.file]) /\ e.rec <= Len(data'[e.file])
  <2>1. e \in Entries
    BY JobTypes
  <2>2. e.file \in Files /\ e.rec \in Nat /\ e.slot \in Slots \cup {None}
    BY <2>1 DEF Entries
  <2>3. e.rec <= Len(data[e.file])
    BY DEF HeldInv
  <2> QED BY <1>3, <2>2, <2>3, SMT
<1>6. ASSUME NEW v \in Workers, job'[v].at \in {"append", "unlock1"}
      PROVE  df'[(Table(v))'].owner = v
  <2>1. CASE v = w
    BY <1>1, <1>6, <2>1
  <2>2. CASE v # w
    <3>1. df[Table(v)].owner = v
      BY <1>1, <1>6, <2>2 DEF HeldInv
    <3>2. Table(v) \in Files /\ Has(v, Table(v))
      <4>1. Table(v) \in Files /\ Act(v).table \in DOMAIN job[v].handles
        BY <1>1, <1>6, <2>2, ActFacts DEF InAct
      <4> QED BY <4>1 DEF Has, Table
    <3> QED BY <1>2, <2>2, <3>1, <3>2 DEF KeptFor
  <2> QED BY <2>1, <2>2
<1>7. ASSUME NEW v \in Workers, NEW e \in Elements(job'[v].log)
      PROVE  /\ e.rec <= Len(data'[e.file])
             /\ \E i \in DOMAIN job'[v].handles : (From(v))'[i] = e.file
             /\ v # 0 /\ e.slot # None => df'[e.file].locks[e.slot] = v
  <2>1. CASE v = w
    <3>1. Covered(w, nj, e)
      BY <1>1, <1>7, <2>1
    <3> QED BY <1>1, <2>1, <3>1 DEF Covered, From
  <2>2. CASE v # w
    <3>1. e \in Elements(job[v].log)
      BY <1>1, <1>7, <2>2
    <3>2. \E i \in DOMAIN job'[v].handles : (From(v))'[i] = e.file
      <4>1. \E i \in DOMAIN job[v].handles : From(v)[i] = e.file
        BY <3>1 DEF HeldInv
      <4>2. job'[v] = job[v] /\ (From(v))' = From(v)
        BY <1>1, <1>2, <2>2
      <4> QED BY <4>1, <4>2
    <3>3. ASSUME v # 0, e.slot # None PROVE df'[e.file].locks[e.slot] = v
      <4>1. e.file \in Files /\ e.slot \in Slots
        BY <1>5, <2>2, <3>1, <3>3
      <4>2. df[e.file].locks[e.slot] = v
        BY <3>1, <3>3 DEF HeldInv
      <4>3. Has(v, e.file)
        <5>1. \E i \in DOMAIN job[v].handles : From(v)[i] = e.file
          BY <3>1 DEF HeldInv
        <5> QED BY <5>1 DEF Has, From
      <4> QED BY <2>2, <3>3, <4>1, <4>2, <4>3 DEF KeptFor
    <3> QED BY <1>5, <2>2, <3>1, <3>2, <3>3
  <2> QED BY <2>1, <2>2
<1>8. ASSUME NEW v \in Workers, NEW e \in Elements(job'[v].log), e.slot = None, NEW u \in Workers
      PROVE  /\ u # v => \A d \in Elements(job'[u].log) :
                  d.slot = None /\ d.file = e.file => d.rec # e.rec
             /\ job'[u].at = "unlock1" /\ (Table(u))' = e.file => e.rec < Len(data'[e.file])
  <2>1. CASE v = w
    <3>1. Alone(w, e)
      BY <1>1, <1>8, <2>1
    <3>2. CASE u = w
      BY <1>1, <1>8, <2>1, <3>2
    <3>3. CASE u # w
      BY <1>1, <1>2, <1>8, <2>1, <3>1, <3>3 DEF Alone
    <3> QED BY <3>2, <3>3
  <2>2. CASE v # w
    <3>1. e \in Elements(job[v].log)
      BY <1>1, <1>8, <2>2
    <3>2. CASE u = w
      <4>1. ASSUME NEW d \in Elements(nj.log), d.slot = None, d.file = e.file
            PROVE  d.rec # e.rec
        <5>1. Alone(w, d)
          BY <4>1
        <5> QED BY <1>8, <2>2, <3>1, <4>1, <5>1 DEF Alone
      <4> QED BY <1>1, <1>8, <3>2, <4>1
    <3>3. CASE u # w
      <4>1. \A d \in Elements(job[u].log) :
              u # v /\ d.slot = None /\ d.file = e.file => d.rec # e.rec
        BY <1>8, <3>1 DEF HeldInv
      <4>2. job[u].at = "unlock1" /\ Table(u) = e.file => e.rec < Len(data[e.file])
        BY <1>8, <3>1 DEF HeldInv
      <4>3. /\ e.file \in Files /\ e.rec \in Nat
        BY <1>5, <2>2, <3>1
      <4>4. job[u].at = "unlock1" /\ Table(u) = e.file => e.rec < Len(data'[e.file])
        BY <1>3, <4>2, <4>3, SMT
      <4> QED BY <1>1, <1>2, <3>3, <4>1, <4>4
    <3> QED BY <3>2, <3>3
  <2> QED BY <2>1, <2>2
<1> QED BY <1>4, <1>6, <1>7, <1>8 DEF HeldInv

\* An entry of the log stays covered while w keeps its handles and record locks.
LEMMA StillCovered ==
  ASSUME TypeOK, HeldInv, NEW w \in Workers, NEW nj, nj.handles = job[w].handles,
         data' \in [Files -> Seq(0 .. MaxScripts)], KeptFor(w), OwnKept(w),
         NEW e \in Elements(job[w].log)
  PROVE  Covered(w, nj, e) /\ Alone(w, e)
<1>1. e \in Entries
  BY JobTypes
<1>2. e.file \in Files /\ e.rec \in Nat /\ e.slot \in Slots \cup {None}
  BY <1>1 DEF Entries
<1>3. /\ Len(data[e.file]) \in Nat /\ Len(data'[e.file]) \in Nat
      /\ Len(data[e.file]) <= Len(data'[e.file])
  <2>1. data[e.file] \in Seq(0 .. MaxScripts) /\ data'[e.file] \in Seq(0 .. MaxScripts)
    BY <1>2 DEF TypeOK
  <2> QED BY <1>2, <2>1, SMT DEF KeptFor
<1>4. e.rec <= Len(data[e.file]) /\ e.rec <= Len(data'[e.file])
  <2>1. e.rec <= Len(data[e.file])
    BY DEF HeldInv
  <2> QED BY <1>2, <1>3, <2>1, SMT
<1>5. \E i \in DOMAIN nj.handles : nj.handles[i].file = e.file
  <2>1. \E i \in DOMAIN job[w].handles : From(w)[i] = e.file
    BY DEF HeldInv
  <2> QED BY <2>1 DEF From
<1>6. ASSUME w # 0, e.slot # None PROVE df'[e.file].locks[e.slot] = w
  <2>1. df[e.file].locks[e.slot] = w
    BY <1>6 DEF HeldInv
  <2> QED BY <1>2, <1>6, <2>1 DEF OwnKept
<1>7. Alone(w, e)
  <2> SUFFICES ASSUME e.slot = None, NEW v \in Workers \ {w}
               PROVE  /\ \A d \in Elements(job[v].log) :
                           d.slot = None /\ d.file = e.file => d.rec # e.rec
                      /\ job[v].at = "unlock1" /\ Table(v) = e.file =>
                           e.rec < Len(data'[e.file])
    BY DEF Alone
  <2>1. \A d \in Elements(job[v].log) : d.slot = None /\ d.file = e.file => d.rec # e.rec
    BY DEF HeldInv
  <2>2. job[v].at = "unlock1" /\ Table(v) = e.file => e.rec < Len(data[e.file])
    BY DEF HeldInv
  <2> QED BY <1>2, <1>3, <2>1, <2>2, SMT
<1> QED BY <1>4, <1>5, <1>6, <1>7 DEF Covered

\* The log of a worker that goes on without an append is what is left of it.
LEMMA HeldQuiet ==
  ASSUME TypeOK, ControlInv, HeldInv, NEW w \in Workers, NEW nj \in Jobs,
         job' = [job EXCEPT ![w] = nj], data' \in [Files -> Seq(0 .. MaxScripts)], KeptFor(w),
         Plain(nj), Elements(nj.log) \subseteq Elements(job[w].log),
         nj.log # <<>> => nj.handles = job[w].handles /\ OwnKept(w)
  PROVE  HeldInv'
<1>1. ASSUME NEW e \in Elements(nj.log) PROVE Covered(w, nj, e) /\ Alone(w, e)
  <2>1. e \in Elements(job[w].log) /\ nj.log # <<>>
    <3>1. Elements(<<>>) = {}
      BY SMT DEF Elements
    <3> QED BY <1>1, <3>1
  <2> QED BY <2>1, StillCovered
<1> QED BY <1>1, HeldStep DEF Plain
-----------------------------------------------------------------------------
(* A step of a worker that changes no count and appends to no log           *)

\* Of the dFILEs only what concerns w, the flags and the free locks change.
DfStep(w) ==
  /\ df' \in [Files -> dFILE]
  /\ \A f \in Files : df'[f].owner = None <=> df'[f].depth = 0
  /\ SameCounts
  /\ \A f \in Files, v \in Workers \ {w} : df[f].owner = v => df'[f].owner = v
  /\ \A f \in Files, v \in Workers \ {w, 0}, i \in Slots :
       df[f].locks[i] = v => df'[f].locks[i] = v
SameLocks == \A f \in Files : df'[f].locks = df[f].locks
\* The records may change and grow in number.
DataStep ==
  /\ data' \in [Files -> Seq(0 .. MaxScripts)]
  /\ \A f \in Files : Len(data[f]) <= Len(data'[f])

LEMMA DfKept ==
  ASSUME NEW w \in Workers, DfStep(w), DataStep
  PROVE  KeptFor(w)
BY DEF KeptFor, DfStep, DataStep

\* What a quiet step of w must do to keep the invariant.
LEMMA QuietStep ==
  ASSUME KeptInv, NEW w \in Workers, NEW nj \in Jobs, Fit(nj), Plain(nj),
         job' = [job EXCEPT ![w] = nj], job[w].at # "flush", nj.handles = job[w].handles,
         nj.log \in {job[w].log, <<>>}, nj.log # <<>> => SameLocks,
         DfStep(w), DataStep, files' = files, dofn' = dofn,
         number' \in 0 .. MaxScripts, undefined' \in BOOLEAN
  PROVE  KeptInv'
<1>1. /\ job \in [Workers -> Jobs] /\ job' \in [Workers -> Jobs] /\ job'[w] = nj
      /\ \A v \in Workers \ {w} : job'[v] = job[v]
  BY DEF KeptInv, TypeOK
<1>2. TypeOK'
  BY <1>1 DEF KeptInv, TypeOK, DfStep, DataStep
<1>3. ControlInv'
  BY <1>1 DEF KeptInv, ControlInv, Plain
<1>4. InUseStaysOpen'
  BY QuietInUse DEF KeptInv, DfStep, Plain
<1>5. HeldInv'
  <2>1. KeptFor(w)
    BY DfKept
  <2>2. Elements(nj.log) \subseteq Elements(job[w].log)
    <3>1. Elements(<<>>) = {}
      BY SMT DEF Elements
    <3> QED BY <3>1
  <2>3. nj.log # <<>> => OwnKept(w)
    BY DEF SameLocks, OwnKept
  <2> QED BY <2>1, <2>2, <2>3, HeldQuiet DEF KeptInv, DataStep
<1> QED BY <1>2, <1>3, <1>4, <1>5 DEF KeptInv

LEMMA SameData ==
  ASSUME TypeOK, data' = data
  PROVE  DataStep
<1>1. \A f \in Files : Len(data[f]) \in Nat
  BY SMT DEF TypeOK
<1> QED BY <1>1, SMT DEF DataStep, TypeOK

LEMMA SameDf ==
  ASSUME TypeOK, df' = df, NEW w
  PROVE  DfStep(w) /\ SameLocks
BY DEF DfStep, SameLocks, SameCounts, TypeOK

\* Entering and leaving a critical section are such changes of df.
LEMMA EnteredDf ==
  ASSUME TypeOK, NEW w \in Workers, NEW f \in Files, CanEnter(w, f), df' = Entered(w, f)
  PROVE  DfStep(w) /\ SameLocks /\ df'[f].owner = w
<1>1. /\ df \in [Files -> dFILE] /\ df[f] \in dFILE /\ df[f].depth \in Nat
      /\ df[f].owner \in {None, w}
  BY DEF TypeOK, CanEnter, dFILE
<1> DEFINE n == [df[f] EXCEPT !.owner = w, !.depth = @ + 1]
<1>2. df[f].depth + 1 \in Nat /\ df[f].depth + 1 # 0
  BY <1>1, SMT
<1>3. n \in dFILE
  BY <1>1, <1>2 DEF dFILE
<1>4. /\ n.owner = w /\ n.depth = df[f].depth + 1 /\ n.users = df[f].users
      /\ n.gen = df[f].gen /\ n.lost = df[f].lost /\ n.locks = df[f].locks
  BY <1>1, SMT DEF dFILE
<1>5. df' = [df EXCEPT ![f] = n]
  BY DEF Entered
<1> HIDE DEF n
<1>6. df'[f] = n /\ \A g \in Files \ {f} : df'[g] = df[g]
  BY <1>1, <1>5
<1>7. df' \in [Files -> dFILE]
  BY <1>1, <1>3, <1>5
<1>8. w # None
  BY SMT
<1>9. ASSUME NEW g \in Files
      PROVE  /\ df'[g].owner = None <=> df'[g].depth = 0
             /\ df'[g].users = df[g].users /\ df'[g].gen = df[g].gen
             /\ df'[g].lost = df[g].lost /\ df'[g].locks = df[g].locks
             /\ \A v \in Workers \ {w} : df[g].owner = v => df'[g].owner = v
  <2>1. CASE g = f
    <3>1. \A v \in Workers \ {w} : v # None
      BY SMT
    <3> QED BY <1>1, <1>2, <1>4, <1>6, <1>8, <2>1, <3>1
  <2>2. CASE g # f
    BY <1>6, <2>2 DEF TypeOK
  <2> QED BY <2>1, <2>2
<1> QED BY <1>1, <1>4, <1>6, <1>7, <1>9 DEF DfStep, SameLocks, SameCounts

LEMMA LeftDf ==
  ASSUME TypeOK, NEW w \in Workers, NEW f \in Files, df[f].owner = w,
         df' = [df EXCEPT ![f].depth = @ - 1,
                          ![f].owner = IF df[f].depth = 1 THEN None ELSE w]
  PROVE  DfStep(w) /\ SameLocks
<1>0. w # None
  BY SMT
<1>1. /\ df \in [Files -> dFILE] /\ df[f] \in dFILE /\ df[f].depth \in Nat \ {0}
  BY <1>0 DEF TypeOK, dFILE
<1> DEFINE o == IF df[f].depth = 1 THEN None ELSE w
           n == [df[f] EXCEPT !.depth = @ - 1, !.owner = o]
<1>2. df[f].depth - 1 \in Nat /\ (df[f].depth - 1 = 0 <=> df[f].depth = 1)
  BY <1>1, SMT
<1>3. n \in dFILE
  BY <1>1, <1>2 DEF dFILE
<1>4. /\ n.owner = o /\ n.depth = df[f].depth - 1 /\ n.users = df[f].users
      /\ n.gen = df[f].gen /\ n.lost = df[f].lost /\ n.locks = df[f].locks
  BY <1>1, SMT DEF dFILE
<1>5. df' = [df EXCEPT ![f] = n]
  OBVIOUS
<1> HIDE DEF n
<1>6. df'[f] = n /\ \A g \in Files \ {f} : df'[g] = df[g]
  BY <1>1, <1>5
<1>7. df' \in [Files -> dFILE]
  BY <1>1, <1>3, <1>5
<1> QED BY <1>0, <1>1, <1>2, <1>4, <1>6, <1>7, SMTT(30) DEF DfStep, SameLocks, SameCounts, TypeOK

\* A flag that is still to be stored does not move the job in its script.
LEMMA StoreFit ==
  ASSUME NEW j \in Jobs, NEW s \in [file : Files, flag : {0, 1}] \cup {None}
  PROVE  LET n == [j EXCEPT !.store = s]
         IN  /\ n \in Jobs /\ n.at = j.at /\ n.script = j.script /\ n.k = j.k
             /\ n.handles = j.handles /\ n.log = j.log
             /\ Fit(j) => Fit(n)
             /\ Plain(j) => Plain(n)
<1> DEFINE n == [j EXCEPT !.store = s]
<1>1. n \in Jobs
  BY DEF Jobs
<1>2. /\ n.at = j.at /\ n.script = j.script /\ n.k = j.k /\ n.handles = j.handles
      /\ n.log = j.log
  BY SMT DEF Jobs
<1> HIDE DEF n
<1>3. (Fit(j) => Fit(n)) /\ (Plain(j) => Plain(n))
  BY <1>2 DEF Fit, Plain
<1> QED BY <1>1, <1>2, <1>3 DEF n

LEMMA FromFile ==
  ASSUME TypeOK, NEW w \in Workers, NEW i \in DOMAIN job[w].handles
  PROVE  From(w)[i] = job[w].handles[i].file /\ From(w)[i] \in Files
<1>1. job[w].handles[i] \in Handles
  BY JobTypes
<1> QED BY <1>1 DEF From, Handles

\* wmtDbfLock and wmtDbfUnLock, with what the worker does next
LEMMA LockKeeps ==
  ASSUME KeptInv, NEW w \in Workers, NEW f \in Files, NEW next \in Jobs, Fit(next),
         Plain(next), job[w].at # "flush", next.handles = job[w].handles,
         next.log \in {job[w].log, <<>>}, Lock(w, f, next),
         UNCHANGED <<files, dofn, number>>, DataStep
  PROVE  KeptInv'
<1> DEFINE s == [file |-> f, flag |-> 1]
           nj == [next EXCEPT !.store = s]
<1>1. s \in [file : Files, flag : {0, 1}] \cup {None}
  OBVIOUS
<1>2. /\ CanEnter(w, f) /\ df' = Entered(w, f) /\ job' = [job EXCEPT ![w] = nj]
      /\ undefined' = undefined
  BY DEF Lock
<1> HIDE DEF s
<1>3. nj \in Jobs /\ Fit(nj) /\ Plain(nj) /\ nj.handles = next.handles /\ nj.log = next.log
  BY <1>1, StoreFit
<1> HIDE DEF nj
<1>4. TypeOK
  BY DEF KeptInv
<1>5. DfStep(w) /\ SameLocks
  BY <1>2, <1>4, EnteredDf
<1>6. number' \in 0 .. MaxScripts /\ undefined' \in BOOLEAN
  BY <1>2, <1>4 DEF TypeOK
<1> QED BY <1>2, <1>3, <1>5, <1>6, QuietStep

LEMMA UnLockKeeps ==
  ASSUME KeptInv, NEW w \in Workers, NEW f \in Files, NEW next \in Jobs, Fit(next),
         Plain(next), job[w].at # "flush", next.handles = job[w].handles,
         next.log \in {job[w].log, <<>>}, UnLock(w, f, next),
         UNCHANGED <<files, dofn, data, number>>
  PROVE  KeptInv'
<1>1. TypeOK
  BY DEF KeptInv
<1>2. DataStep /\ number' \in 0 .. MaxScripts
  BY <1>1, SameData DEF TypeOK
<1>3. CASE df[f].owner = w
  <2> DEFINE s == [file |-> f, flag |-> 0]
             nj == [next EXCEPT !.store = s]
  <2>1. s \in [file : Files, flag : {0, 1}] \cup {None}
    OBVIOUS
  <2>2. /\ df' = [df EXCEPT ![f].depth = @ - 1,
                            ![f].owner = IF df[f].depth = 1 THEN None ELSE w]
        /\ job' = [job EXCEPT ![w] = nj] /\ undefined' = undefined
    BY <1>3 DEF UnLock
  <2> HIDE DEF s
  <2>3. nj \in Jobs /\ Fit(nj) /\ Plain(nj) /\ nj.handles = next.handles /\ nj.log = next.log
    BY <2>1, StoreFit
  <2> HIDE DEF nj
  <2>4. DfStep(w) /\ SameLocks
    BY <1>1, <1>3, <2>2, LeftDf
  <2>5. undefined' \in BOOLEAN
    BY <1>1, <2>2 DEF TypeOK
  <2> QED BY <1>2, <2>2, <2>3, <2>4, <2>5, QuietStep
<1>4. CASE df[f].owner # w
  <2>1. undefined' = TRUE /\ df' = df /\ job' = job
    BY <1>4 DEF UnLock
  <2>2. TypeOK'
    BY <1>1, <2>1 DEF TypeOK
  <2>3. ControlInv'
    BY <2>1 DEF KeptInv, ControlInv
  <2>4. \A f2 \in Files : (Flushers(f2))' = Flushers(f2) /\ (Uses(f2))' = Uses(f2)
    BY <2>1 DEF Flushers, Uses, From
  <2>5. InUseStaysOpen'
    BY <2>1, <2>4 DEF KeptInv, InUseStaysOpen, UsersCounted, Open
  <2>6. HeldInv'
    <3>1. \A v \in Workers : (Table(v))' = Table(v) /\ (From(v))' = From(v)
      BY <2>1 DEF Table, Act, From
    <3> QED BY <2>1, <3>1 DEF KeptInv, HeldInv
  <2> QED BY <2>2, <2>3, <2>5, <2>6 DEF KeptInv
<1> QED BY <1>3, <1>4
-----------------------------------------------------------------------------
(* The actions that change no count and append to no log                    *)

\* What a worker that is not idle knows of its script and its job.
LEMMA JobFacts ==
  ASSUME KeptInv, NEW w \in Workers
  PROVE  /\ TypeOK /\ job[w] \in Jobs /\ Fit(job[w])
         /\ job[w].handles \in Seq(Handles) /\ Len(job[w].handles) \in Nat
         /\ DOMAIN job[w].handles = 1 .. Len(job[w].handles)
         /\ job[w].log \in Seq(Entries) /\ Len(job[w].log) \in Nat
         /\ DOMAIN job[w].log = 1 .. Len(job[w].log) /\ job[w].k \in Nat
         /\ \A i \in DOMAIN job[w].handles : From(w)[i] \in Files
         /\ job[w].at # "idle" =>
              /\ job[w].script \in Scripts /\ Len(job[w].script.from) \in Nat \ {0}
              /\ job[w].script.update \in BOOLEAN
<1>1. TypeOK /\ job[w] \in Jobs /\ Fit(job[w])
  BY DEF KeptInv, TypeOK, ControlInv
<1>2. job[w].handles \in Seq(Handles) /\ job[w].log \in Seq(Entries) /\ job[w].k \in Nat
  BY <1>1 DEF Jobs
<1>3. /\ DOMAIN job[w].handles = 1 .. Len(job[w].handles) /\ Len(job[w].handles) \in Nat
      /\ DOMAIN job[w].log = 1 .. Len(job[w].log) /\ Len(job[w].log) \in Nat
  BY <1>2, SMT
<1>4. \A i \in DOMAIN job[w].handles : From(w)[i] \in Files
  BY <1>1, FromFile
<1>5. job[w].at # "idle" => job[w].script \in Scripts
  BY <1>1 DEF Fit
<1>6. job[w].at # "idle" => /\ Len(job[w].script.from) \in Nat \ {0}
                            /\ job[w].script.update \in BOOLEAN
  BY <1>5, ScriptFacts
<1> QED BY <1>1, <1>2, <1>3, <1>4, <1>5, <1>6

\* Nothing but the job and the records changes.
LEMMA JobKeeps ==
  ASSUME KeptInv, NEW w \in Workers, NEW nj \in Jobs, Fit(nj), Plain(nj),
         job' = [job EXCEPT ![w] = nj], job[w].at # "flush", nj.handles = job[w].handles,
         nj.log \in {job[w].log, <<>>}, UNCHANGED <<df, files, dofn>>, DataStep,
         number' \in 0 .. MaxScripts, undefined' = undefined
  PROVE  KeptInv'
<1>1. TypeOK
  BY DEF KeptInv
<1>2. DfStep(w) /\ SameLocks
  BY <1>1, SameDf
<1>3. undefined' \in BOOLEAN
  BY <1>1 DEF TypeOK
<1> QED BY <1>2, <1>3, QuietStep

LEMMA BeginKeeps ==
  ASSUME KeptInv, NEW w \in Workers, Begin(w)
  PROVE  KeptInv'
<1>1. PICK s \in Scripts :
        job' = [job EXCEPT ![w].at = "from", ![w].script = s, ![w].no = number + 1]
  BY DEF Begin
<1>2. /\ job[w].at = "idle" /\ number < MaxScripts /\ number' = number + 1
      /\ UNCHANGED <<df, files, dofn, data, undefined>>
  BY DEF Begin, At
<1>3. TypeOK /\ job[w] \in Jobs /\ Fit(job[w])
  BY JobFacts
<1> DEFINE nj == [job[w] EXCEPT !.at = "from", !.script = s, !.no = number + 1]
<1>4. number + 1 \in 0 .. MaxScripts /\ "from" \in Ats
  BY <1>2, <1>3, SMT DEF TypeOK, Ats
<1>5. nj \in Jobs
  BY <1>3, <1>4 DEF Jobs
<1>6. /\ nj.at = "from" /\ nj.script = s /\ nj.k = job[w].k /\ nj.handles = job[w].handles
      /\ nj.log = job[w].log
  BY <1>3, SMT DEF Jobs
<1>7. job' = [job EXCEPT ![w] = nj]
  BY <1>1
<1> HIDE DEF nj
<1>8. job[w].handles = <<>> /\ job[w].k = 1 /\ job[w].log = <<>>
  BY <1>2, <1>3 DEF Fit, InAct
<1>9. Fit(nj)
  <2>1. Len(<<>>) < Len(s.from) /\ DOMAIN <<>> = {}
    BY ScriptFacts, SMT
  <2> QED BY <1>6, <1>8, <2>1 DEF Fit, InAct, InCommit, InClose
<1>10. Plain(nj)
  BY <1>6 DEF Plain
<1>11. DataStep
  BY <1>2, <1>3, SameData
<1> QED BY <1>2, <1>4, <1>5, <1>6, <1>7, <1>9, <1>10, <1>11, JobKeeps

LEMMA LandKeeps ==
  ASSUME KeptInv, NEW w \in Workers, Land(w)
  PROVE  KeptInv'
<1>1. TypeOK /\ job[w] \in Jobs /\ Fit(job[w]) /\ ControlInv
  BY JobFacts DEF KeptInv
<1> DEFINE s == job[w].store
           nj == [job[w] EXCEPT !.store = None]
           n == [df[s.file] EXCEPT !.flag = s.flag]
<1>2. s.file \in Files /\ s.flag \in {0, 1}
  BY <1>1 DEF Land, Landed, Jobs
<1>3. /\ nj \in Jobs /\ nj.at = job[w].at /\ nj.script = job[w].script /\ nj.k = job[w].k
      /\ nj.handles = job[w].handles /\ nj.log = job[w].log /\ Fit(nj)
  <2>1. None \in [file : Files, flag : {0, 1}] \cup {None}
    OBVIOUS
  <2> QED BY <1>1, <2>1, StoreFit
<1>4. /\ job' = [job EXCEPT ![w] = nj] /\ df' = [df EXCEPT ![s.file] = n]
      /\ UNCHANGED <<files, dofn, data, number, undefined>>
  BY DEF Land
<1>5. df \in [Files -> dFILE] /\ df[s.file] \in dFILE
  BY <1>1, <1>2 DEF TypeOK
<1>6. n \in dFILE
  BY <1>2, <1>5 DEF dFILE
<1>7. /\ n.users = df[s.file].users /\ n.gen = df[s.file].gen /\ n.lost = df[s.file].lost
      /\ n.owner = df[s.file].owner /\ n.depth = df[s.file].depth
      /\ n.locks = df[s.file].locks
  BY <1>5, SMT DEF dFILE
<1> HIDE DEF n, nj
<1>8. \A f \in Files : /\ df'[f].users = df[f].users /\ df'[f].gen = df[f].gen
                       /\ df'[f].lost = df[f].lost /\ df'[f].owner = df[f].owner
                       /\ df'[f].depth = df[f].depth /\ df'[f].locks = df[f].locks
  <2>1. df'[s.file] = n /\ \A f \in Files \ {s.file} : df'[f] = df[f]
    BY <1>2, <1>4, <1>5
  <2> QED BY <1>7, <2>1
<1>9. /\ job \in [Workers -> Jobs] /\ job' \in [Workers -> Jobs] /\ job'[w] = nj
      /\ \A v \in Workers \ {w} : job'[v] = job[v]
  BY <1>1, <1>3, <1>4 DEF TypeOK
<1>10. TypeOK'
  <2>1. df' \in [Files -> dFILE]
    BY <1>4, <1>5, <1>6
  <2> QED BY <1>1, <1>4, <1>8, <1>9, <2>1 DEF TypeOK
<1>11. ControlInv'
  BY <1>1, <1>3, <1>4, <1>9 DEF ControlInv
<1>12. InUseStaysOpen'
  BY <1>1, <1>3, <1>4, <1>8, QuietInUse DEF KeptInv, SameCounts
<1>13. HeldInv'
  <2>1. \A v \in Workers : /\ job'[v].at = job[v].at /\ job'[v].script = job[v].script
                           /\ job'[v].k = job[v].k /\ job'[v].handles = job[v].handles
                           /\ job'[v].log = job[v].log
    BY <1>3, <1>9
  <2>2. \A v \in Workers : (Table(v))' = Table(v) /\ (From(v))' = From(v)
    BY <2>1 DEF Table, Act, From
  <2>3. \A v \in Workers : job[v].at \in {"append", "unlock1"} => Table(v) \in Files
    BY <1>1, ActFacts DEF InAct
  <2>4. \A v \in Workers : \A e \in Elements(job[v].log) : e.file \in Files
    BY <1>1, JobTypes DEF Entries
  <2> QED BY <1>4, <1>8, <2>1, <2>2, <2>3, <2>4, SMTT(30) DEF KeptInv, HeldInv
<1> QED BY <1>10, <1>11, <1>12, <1>13 DEF KeptInv

LEMMA LockFromKeeps ==
  ASSUME KeptInv, NEW w \in Workers, LockFrom(w)
  PROVE  KeptInv'
<1> DEFINE n == Len(job[w].handles)
           next == Ready(job[w])
<1>1. /\ job[w].at = "lock" /\ Lock(w, job[w].handles[n].file, next)
      /\ UNCHANGED <<files, dofn, data, number>>
  BY DEF LockFrom, At
<1>2. /\ TypeOK /\ job[w] \in Jobs /\ Fit(job[w]) /\ job[w].script \in Scripts
      /\ DOMAIN job[w].handles = 1 .. n /\ \A i \in DOMAIN job[w].handles : From(w)[i] \in Files
  BY <1>1, JobFacts
<1>3. /\ n \in 1 .. Len(job[w].script.from) /\ job[w].k = 1 /\ Matched(job[w])
      /\ job[w].log = <<>>
  BY <1>1, <1>2 DEF Fit, InAct, InClose, Matched
<1>4. /\ next \in Jobs /\ Fit(next) /\ Plain(next) /\ next.handles = job[w].handles
      /\ next.log = <<>>
  BY <1>2, <1>3, ReadyFit
<1>5. n \in DOMAIN job[w].handles
  <2>1. Len(job[w].script.from) \in Nat
    BY <1>2, ScriptFacts
  <2> QED BY <1>2, <1>3, <2>1, SMT
<1>6. job[w].handles[n].file \in Files
  BY <1>2, <1>5, FromFile
<1>7. DataStep
  BY <1>1, <1>2, SameData
<1> HIDE DEF next, n
<1> QED BY <1>1, <1>4, <1>6, <1>7, LockKeeps

LEMMA ReadKeeps ==
  ASSUME KeptInv, NEW w \in Workers, Read(w)
  PROVE  KeptInv'
<1> DEFINE x == <<Table(w), Act(w).rec, data[Table(w)][Act(w).rec]>>
           nj == [job[w] EXCEPT !.at = Act(w).op, !.seen = x]
<1>1. /\ job[w].at = "act" /\ job' = [job EXCEPT ![w] = nj]
      /\ UNCHANGED <<df, files, dofn, data, number, undefined>>
  BY DEF Read, At
<1>2. TypeOK /\ job[w] \in Jobs /\ Fit(job[w]) /\ ControlInv /\ HeldInv
  BY JobFacts DEF KeptInv
<1>3. /\ Act(w).op \in {"calrec", "apprec"} /\ Table(w) \in Files
      /\ Act(w).rec \in Nat \ {0} /\ Act(w).rec <= RecNum[Table(w)]
  BY <1>1, <1>2, ActFacts DEF InAct
<1>4. data[Table(w)][Act(w).rec] \in 0 .. MaxScripts
  <2>1. /\ data[Table(w)] \in Seq(0 .. MaxScripts) /\ RecNum[Table(w)] \in Nat
        /\ RecNum[Table(w)] <= Len(data[Table(w)])
    BY <1>2, <1>3 DEF TypeOK, HeldInv
  <2> DEFINE d == data[Table(w)]
             r == Act(w).rec
  <2>2. d \in Seq(0 .. MaxScripts) /\ r \in 1 .. Len(d)
    BY <1>3, <2>1, SMT
  <2> HIDE DEF d, r
  <2>3. d[r] \in 0 .. MaxScripts
    BY <2>2
  <2> QED BY <2>3 DEF d, r
<1>5. x \in (Files \X (Nat \ {0}) \X (0 .. MaxScripts)) \cup {None} /\ Act(w).op \in Ats
  BY <1>3, <1>4 DEF Ats, InAct
<1> HIDE DEF x
<1>6. nj \in Jobs
  BY <1>2, <1>5 DEF Jobs
<1>7. /\ nj.at = Act(w).op /\ nj.script = job[w].script /\ nj.k = job[w].k
      /\ nj.handles = job[w].handles /\ nj.log = job[w].log
  BY <1>2, SMT DEF Jobs
<1> HIDE DEF nj
<1>8. Fit(nj) /\ Plain(nj)
  BY <1>1, <1>2, <1>3, <1>7 DEF Fit, Plain, InAct, InCommit, InClose
<1>9. DataStep /\ number' \in 0 .. MaxScripts
  BY <1>1, <1>2, SameData DEF TypeOK
<1> QED BY <1>1, <1>6, <1>7, <1>8, <1>9, JobKeeps

\* A record of a table is written over.
LEMMA PutData ==
  ASSUME TypeOK, NEW f \in Files, NEW r \in Nat \ {0}, r <= Len(data[f]),
         NEW x \in 0 .. MaxScripts, data' = [data EXCEPT ![f][r] = x]
  PROVE  DataStep
<1> DEFINE n == [data[f] EXCEPT ![r] = x]
<1>1. /\ data \in [Files -> Seq(0 .. MaxScripts)] /\ data[f] \in Seq(0 .. MaxScripts)
      /\ \A g \in Files : Len(data[g]) \in Nat
  BY SMT DEF TypeOK
<1>2. n \in Seq(0 .. MaxScripts) /\ Len(n) = Len(data[f])
  <2> DEFINE d == data[f]
  <2>1. d \in Seq(0 .. MaxScripts) /\ Len(d) \in Nat /\ d \in [1 .. Len(d) -> 0 .. MaxScripts]
    BY <1>1, SMTT(30)
  <2> HIDE DEF d
  <2> DEFINE l == Len(d)
  <2>2. l \in Nat /\ d \in [1 .. l -> 0 .. MaxScripts]
    BY <2>1
  <2> HIDE DEF l
  <2>3. [d EXCEPT ![r] = x] \in [1 .. l -> 0 .. MaxScripts]
    BY <2>2
  <2>4. [d EXCEPT ![r] = x] \in Seq(0 .. MaxScripts) /\ Len([d EXCEPT ![r] = x]) = l
    BY <2>2, <2>3, FunctionSeq
  <2> QED BY <2>4 DEF d, l
<1>3. data' = [data EXCEPT ![f] = n]
  OBVIOUS
<1> HIDE DEF n
<1>4. data' \in [Files -> Seq(0 .. MaxScripts)]
  BY <1>1, <1>2, <1>3
<1>5. \A g \in Files : Len(data'[g]) = Len(data[g])
  BY <1>1, <1>2, <1>3
<1> QED BY <1>1, <1>4, <1>5, SMT DEF DataStep

LEMMA CalRecNowKeeps ==
  ASSUME KeptInv, NEW w \in Workers, CalRecNow(w)
  PROVE  KeptInv'
<1> DEFINE nj == Went(job[w])
<1>1. /\ job[w].at = "calrec" /\ job' = [job EXCEPT ![w] = nj]
      /\ data' = [data EXCEPT ![Table(w)][Act(w).rec] = job[w].no]
      /\ UNCHANGED <<df, files, dofn, number, undefined>>
  BY DEF CalRecNow, At
<1>2. TypeOK /\ job[w] \in Jobs /\ Fit(job[w]) /\ ControlInv /\ HeldInv
  BY JobFacts DEF KeptInv
<1>3. /\ Table(w) \in Files /\ Act(w).rec \in Nat \ {0} /\ Act(w).rec <= RecNum[Table(w)]
  BY <1>1, <1>2, ActFacts DEF InAct
<1>4. DataStep
  <2>1. job[w].no \in 0 .. MaxScripts
    BY <1>2 DEF Jobs
  <2>2. /\ data[Table(w)] \in Seq(0 .. MaxScripts) /\ RecNum[Table(w)] \in Nat
        /\ RecNum[Table(w)] <= Len(data[Table(w)])
    BY <1>2, <1>3 DEF TypeOK, HeldInv
  <2>3. Act(w).rec <= Len(data[Table(w)])
    BY <1>3, <2>2, SMT
  <2> QED BY <1>1, <1>2, <1>3, <2>1, <2>3, PutData
<1>5. /\ nj \in Jobs /\ Fit(nj) /\ Plain(nj) /\ nj.handles = job[w].handles
      /\ nj.log = job[w].log
  BY <1>1, <1>2, WentFit DEF InAct
<1> HIDE DEF nj
<1>6. number' \in 0 .. MaxScripts
  BY <1>1, <1>2 DEF TypeOK
<1> QED BY <1>1, <1>4, <1>5, <1>6, JobKeeps

LEMMA ActFailsKeeps ==
  ASSUME KeptInv, NEW w \in Workers, ActFails(w)
  PROVE  KeptInv'
<1> DEFINE nj == Failed(job[w])
<1>1. /\ job[w].at = "calrec" /\ job' = [job EXCEPT ![w] = nj]
      /\ UNCHANGED <<df, files, dofn, data, number, undefined>>
  BY DEF ActFails, At
<1>2. TypeOK /\ job[w] \in Jobs /\ Fit(job[w])
  BY JobFacts
<1>3. /\ nj \in Jobs /\ Fit(nj) /\ Plain(nj) /\ nj.handles = job[w].handles /\ nj.log = <<>>
  BY <1>1, <1>2, FailedFit DEF InAct
<1> HIDE DEF nj
<1>4. DataStep /\ number' \in 0 .. MaxScripts
  BY <1>1, <1>2, SameData DEF TypeOK
<1> QED BY <1>1, <1>3, <1>4, JobKeeps

\* A worker in its commit goes on with another table of its FROM.
LEMMA CommitFit ==
  ASSUME NEW j \in Jobs, Fit(j), j.at \in InCommit, NEW nj \in Jobs, nj.at \in InCommit,
         nj.k \in DOMAIN j.handles, nj.script = j.script, nj.handles = j.handles,
         nj.log = <<>> \/ (nj.log = j.log /\ nj.at \in {"commit", "retreat", "enter"})
  PROVE  Fit(nj) /\ Plain(nj)
<1>1. /\ j.script \in Scripts /\ Len(j.handles) = Len(j.script.from) /\ Matched(j)
      /\ j.log # <<>> => j.script.update
  BY DEF Fit, InCommit, InClose, Matched
<1> QED BY <1>1 DEF Fit, Plain, Matched, InAct, InCommit, InClose

LEMMA TryLockKeeps ==
  ASSUME KeptInv, NEW w \in Workers, TryLock(w)
  PROVE  KeptInv'
<1> DEFINE j == job[w]
           f == From(w)[j.k]
           last == Len(j.handles)
           back == IF j.k = 1 THEN "commit" ELSE "retreat"
           before == IF j.k = 1 THEN 1 ELSE j.k - 1
           taken == [j EXCEPT !.at = "enter", !.misread = df[f].owner \notin {None, w}]
           given == [j EXCEPT !.at = "free", !.k = last, !.log = <<>>, !.kept = @ \/ j.k > 1]
           again == [j EXCEPT !.at = back, !.k = before, !.tries = @ - 1]
           nj == job'[w]
<1>1. /\ j.at = "commit"
      /\ job' = [job EXCEPT ![w] = IF Flag(w, f) = 0 THEN taken
                                   ELSE IF j.tries = 0 THEN given ELSE again]
      /\ UNCHANGED <<df, files, dofn, data, number, undefined>>
  BY DEF TryLock, At
<1>2. /\ TypeOK /\ j \in Jobs /\ Fit(j) /\ j.k \in Nat /\ DOMAIN j.handles = 1 .. last
      /\ last \in Nat
  BY JobFacts
<1>3. j.k \in DOMAIN j.handles /\ j.at \in InCommit
  BY <1>1, <1>2 DEF Fit, InCommit
<1>4. /\ last \in DOMAIN j.handles /\ before \in DOMAIN j.handles /\ before \in Nat
  BY <1>2, <1>3, SMTT(30)
<1>5. /\ {"enter", "free", back} \subseteq Ats /\ <<>> \in Seq(Entries)
      /\ {"enter", "free", back} \subseteq InCommit
  BY SMT DEF Ats, InCommit
<1>6. CASE Flag(w, f) = 0
  <2>1. taken \in Jobs
    BY <1>2, <1>5 DEF Jobs
  <2>2. /\ taken.at = "enter" /\ taken.k = j.k /\ taken.script = j.script
        /\ taken.handles = j.handles /\ taken.log = j.log
    BY <1>2, SMT DEF Jobs
  <2>3. job' = [job EXCEPT ![w] = taken]
    BY <1>1, <1>6
  <2> HIDE DEF taken
  <2>4. Fit(taken) /\ Plain(taken)
    BY <1>2, <1>3, <1>5, <2>1, <2>2, CommitFit
  <2> QED
    BY <1>1, <1>2, <2>1, <2>2, <2>3, <2>4, JobKeeps, SameData DEF TypeOK
<1>7. CASE Flag(w, f) # 0 /\ j.tries = 0
  <2>1. given \in Jobs
    <3>1. (j.kept \/ j.k > 1) \in BOOLEAN
      BY <1>2 DEF Jobs
    <3> QED BY <1>2, <1>5, <3>1 DEF Jobs
  <2>2. /\ given.at = "free" /\ given.k = last /\ given.script = j.script
        /\ given.handles = j.handles /\ given.log = <<>>
    BY <1>2, SMT DEF Jobs
  <2>3. job' = [job EXCEPT ![w] = given]
    BY <1>1, <1>7
  <2> HIDE DEF given
  <2>4. Fit(given) /\ Plain(given)
    BY <1>2, <1>3, <1>4, <1>5, <2>1, <2>2, CommitFit
  <2> QED
    BY <1>1, <1>2, <2>1, <2>2, <2>3, <2>4, JobKeeps, SameData DEF TypeOK
<1>8. CASE Flag(w, f) # 0 /\ j.tries # 0
  <2> HIDE DEF back, before
  <2>1. again \in Jobs
    <3>1. j.tries - 1 \in 0 .. Tries
      BY <1>2, <1>8, SMTT(30) DEF Jobs
    <3> QED BY <1>2, <1>4, <1>5, <3>1 DEF Jobs
  <2>2. /\ again.at = back /\ again.k = before /\ again.script = j.script
        /\ again.handles = j.handles /\ again.log = j.log
    BY <1>2, SMT DEF Jobs
  <2>3. job' = [job EXCEPT ![w] = again]
    BY <1>1, <1>8 DEF back, before
  <2> HIDE DEF again
  <2>4. Fit(again) /\ Plain(again)
    BY <1>2, <1>3, <1>4, <1>5, <2>1, <2>2, CommitFit DEF back
  <2> QED
    BY <1>1, <1>2, <2>1, <2>2, <2>3, <2>4, JobKeeps, SameData DEF TypeOK
<1> QED BY <1>6, <1>7, <1>8

LEMMA TryEnterKeeps ==
  ASSUME KeptInv, NEW w \in Workers, TryEnter(w)
  PROVE  KeptInv'
<1> DEFINE j == [job[w] EXCEPT !.misread = FALSE]
           f == From(w)[j.k]
           on == [j EXCEPT !.at = "commit", !.k = @ + 1]
           all == [j EXCEPT !.k = 1]
<1>1. /\ job[w].at = "enter"
      /\ Lock(w, f, IF j.k < Len(j.handles) THEN on ELSE Writing(all))
      /\ UNCHANGED <<files, dofn, data, number>>
  BY DEF TryEnter, At
<1>2. /\ TypeOK /\ job[w] \in Jobs /\ Fit(job[w])
      /\ DOMAIN job[w].handles = 1 .. Len(job[w].handles) /\ Len(job[w].handles) \in Nat
      /\ job[w].k \in Nat /\ Len(job[w].log) \in Nat
      /\ \A i \in DOMAIN job[w].handles : From(w)[i] \in Files
      /\ job[w].script.update \in BOOLEAN
  BY <1>1, JobFacts
<1>3. /\ j \in Jobs /\ j.at = job[w].at /\ j.k = job[w].k /\ j.script = job[w].script
      /\ j.handles = job[w].handles /\ j.log = job[w].log
  <2>1. j \in Jobs
    BY <1>2 DEF Jobs
  <2> QED BY <1>2, <2>1, SMT DEF Jobs
<1>4. /\ job[w].script \in Scripts /\ Len(job[w].handles) = Len(job[w].script.from)
      /\ Matched(job[w]) /\ job[w].k \in DOMAIN job[w].handles
      /\ job[w].log # <<>> => job[w].script.update
  BY <1>1, <1>2 DEF Fit, InCommit, InClose, Matched
<1> HIDE DEF j
<1>5. Fit(j) /\ Matched(j)
  BY <1>2, <1>3, <1>4 DEF Fit, Matched
<1>6. f \in Files /\ DataStep
  BY <1>1, <1>2, <1>3, <1>4, SameData
<1>7. CASE j.k < Len(j.handles)
  <2>1. j.k + 1 \in Nat /\ j.k + 1 \in DOMAIN j.handles /\ "commit" \in Ats
    BY <1>2, <1>3, <1>4, <1>7, SMT DEF Ats, InCommit
  <2>2. on \in Jobs
    BY <1>3, <2>1 DEF Jobs
  <2>3. /\ on.at = "commit" /\ on.k = j.k + 1 /\ on.script = j.script
        /\ on.handles = j.handles /\ on.log = j.log
    BY <1>3, SMT DEF Jobs
  <2>4. Lock(w, f, on)
    BY <1>1, <1>7
  <2> HIDE DEF on
  <2>5. Fit(on) /\ Plain(on)
    BY <1>1, <1>3, <1>5, <2>1, <2>2, <2>3, CommitFit DEF InCommit
  <2> QED BY <1>1, <1>3, <1>6, <2>2, <2>3, <2>4, <2>5, LockKeeps
<1>8. CASE ~(j.k < Len(j.handles))
  <2>1. all \in Jobs
    BY <1>3 DEF Jobs
  <2>2. all.k = 1 /\ all.script = j.script /\ all.handles = j.handles /\ all.log = j.log
    BY <1>3, SMT DEF Jobs
  <2>3. Lock(w, f, Writing(all))
    BY <1>1, <1>8
  <2> HIDE DEF all
  <2>4. Matched(all) /\ all.k \in 1 .. Len(all.log) + 1
    <3>1. Matched(all)
      BY <1>5, <2>2 DEF Matched
    <3> QED BY <1>2, <1>3, <2>2, <3>1, SMT
  <2>5. all.log # <<>> => all.script.update
    BY <1>3, <1>4, <2>2
  <2>6. all.script \in Scripts /\ Len(all.handles) = Len(all.script.from)
    BY <1>3, <1>4, <2>2
  <2>7. /\ Writing(all) \in Jobs /\ Fit(Writing(all)) /\ Plain(Writing(all))
        /\ Writing(all).handles = all.handles /\ Writing(all).log \in {all.log, <<>>}
    BY <2>1, <2>4, <2>5, <2>6, WritingFit
  <2> QED BY <1>1, <1>3, <1>6, <2>2, <2>3, <2>7, LockKeeps
<1> QED BY <1>7, <1>8

LEMMA RetreatKeeps ==
  ASSUME KeptInv, NEW w \in Workers, Retreat(w)
  PROVE  KeptInv'
<1> DEFINE j == job[w]
           f == From(w)[j.k]
           back == [j EXCEPT !.k = @ - 1]
           again == [j EXCEPT !.at = "commit"]
<1>1. /\ j.at = "retreat" /\ UnLock(w, f, IF j.k > 1 THEN back ELSE again)
      /\ UNCHANGED <<files, dofn, data, number>>
  BY DEF Retreat, At
<1>2. /\ TypeOK /\ j \in Jobs /\ Fit(j) /\ DOMAIN j.handles = 1 .. Len(j.handles)
      /\ Len(j.handles) \in Nat /\ j.k \in Nat
      /\ \A i \in DOMAIN j.handles : From(w)[i] \in Files
  BY JobFacts
<1>3. j.k \in DOMAIN j.handles /\ j.at \in InCommit
  BY <1>1, <1>2 DEF Fit, InCommit
<1>4. f \in Files
  BY <1>2, <1>3
<1> HIDE DEF f
<1>5. CASE j.k > 1
  <2>1. j.k - 1 \in Nat /\ j.k - 1 \in DOMAIN j.handles
    BY <1>2, <1>3, <1>5, SMT
  <2>2. back \in Jobs
    BY <1>2, <2>1 DEF Jobs
  <2>3. /\ back.at = "retreat" /\ back.k = j.k - 1 /\ back.script = j.script
        /\ back.handles = j.handles /\ back.log = j.log
    BY <1>1, <1>2, SMT DEF Jobs
  <2>4. UnLock(w, f, back)
    BY <1>1, <1>5
  <2> HIDE DEF back
  <2>5. Fit(back) /\ Plain(back)
    BY <1>2, <1>3, <2>1, <2>2, <2>3, CommitFit DEF InCommit
  <2> QED BY <1>1, <1>4, <2>2, <2>3, <2>4, <2>5, UnLockKeeps
<1>6. CASE ~(j.k > 1)
  <2>1. "commit" \in Ats
    BY DEF Ats, InCommit
  <2>2. again \in Jobs
    BY <1>2, <2>1 DEF Jobs
  <2>3. /\ again.at = "commit" /\ again.k = j.k /\ again.script = j.script
        /\ again.handles = j.handles /\ again.log = j.log
    BY <1>2, SMT DEF Jobs
  <2>4. UnLock(w, f, again)
    BY <1>1, <1>6
  <2> HIDE DEF again
  <2>5. Fit(again) /\ Plain(again)
    BY <1>2, <1>3, <2>2, <2>3, CommitFit DEF InCommit
  <2> QED BY <1>1, <1>4, <2>2, <2>3, <2>4, <2>5, UnLockKeeps
<1> QED BY <1>5, <1>6

LEMMA WriteLogKeeps ==
  ASSUME KeptInv, NEW w \in Workers, WriteLog(w)
  PROVE  KeptInv'
<1> DEFINE j == job[w]
           e == j.log[j.k]
           next == [j EXCEPT !.k = @ + 1]
           nj == Writing(next)
<1>1. /\ j.at = "write" /\ data' = [data EXCEPT ![e.file][e.rec] = j.no]
      /\ job' = [job EXCEPT ![w] = nj] /\ UNCHANGED <<df, files, dofn, number, undefined>>
  BY DEF WriteLog, At
<1>2. /\ TypeOK /\ j \in Jobs /\ Fit(j) /\ j.script \in Scripts
      /\ DOMAIN j.log = 1 .. Len(j.log) /\ Len(j.log) \in Nat /\ j.k \in Nat
      /\ j.log \in Seq(Entries)
  BY <1>1, JobFacts
<1>3. /\ j.k \in DOMAIN j.log /\ Len(j.handles) = Len(j.script.from) /\ Matched(j)
      /\ j.log # <<>> => j.script.update
  BY <1>1, <1>2 DEF Fit, InClose, Matched
<1>4. DataStep
  <2>1. e \in Entries /\ e \in Elements(j.log)
    BY <1>2, <1>3 DEF Elements
  <2>2. e.file \in Files /\ e.rec \in Nat \ {0} /\ j.no \in 0 .. MaxScripts
    BY <1>2, <2>1 DEF Entries, Jobs
  <2>3. e.rec <= Len(data[e.file])
    BY <2>1 DEF KeptInv, HeldInv
  <2> HIDE DEF e
  <2> QED BY <1>1, <1>2, <2>2, <2>3, PutData
<1>5. next \in Jobs
  <2>1. j.k + 1 \in Nat
    BY <1>2, SMT
  <2> QED BY <1>2, <2>1 DEF Jobs
<1>6. /\ next.k = j.k + 1 /\ next.script = j.script /\ next.handles = j.handles
      /\ next.log = j.log
  BY <1>2, SMT DEF Jobs
<1> HIDE DEF next
<1>7. Matched(next) /\ next.k \in 1 .. Len(next.log) + 1
  <2>1. Matched(next)
    BY <1>3, <1>6 DEF Matched
  <2> QED BY <1>2, <1>3, <1>6, <2>1, SMT
<1>8. /\ nj \in Jobs /\ Fit(nj) /\ Plain(nj) /\ nj.handles = j.handles /\ nj.log \in {j.log, <<>>}
  BY <1>2, <1>3, <1>5, <1>6, <1>7, WritingFit
<1> HIDE DEF nj
<1>9. number' \in 0 .. MaxScripts
  BY <1>1, <1>2 DEF TypeOK
<1> QED BY <1>1, <1>4, <1>8, <1>9, JobKeeps

LEMMA UnLockAllKeeps ==
  ASSUME KeptInv, NEW w \in Workers, UnLockAll(w)
  PROVE  KeptInv'
<1> DEFINE j == job[w]
           f == From(w)[j.k]
           next == [j EXCEPT !.k = @ + 1]
           end == [j EXCEPT !.at = "free"]
<1>1. /\ j.at = "unlock" /\ UnLock(w, f, IF j.k < Len(j.handles) THEN next ELSE end)
      /\ UNCHANGED <<files, dofn, data, number>>
  BY DEF UnLockAll, At
<1>2. /\ TypeOK /\ j \in Jobs /\ Fit(j) /\ DOMAIN j.handles = 1 .. Len(j.handles)
      /\ Len(j.handles) \in Nat /\ j.k \in Nat
      /\ \A i \in DOMAIN j.handles : From(w)[i] \in Files
  BY JobFacts
<1>3. j.k \in DOMAIN j.handles /\ j.at \in InCommit /\ j.log = <<>>
  BY <1>1, <1>2 DEF Fit, InCommit, InAct
<1>4. f \in Files
  BY <1>2, <1>3
<1> HIDE DEF f
<1>5. CASE j.k < Len(j.handles)
  <2>1. j.k + 1 \in Nat /\ j.k + 1 \in DOMAIN j.handles
    BY <1>2, <1>3, <1>5, SMTT(30)
  <2>2. next \in Jobs
    BY <1>2, <2>1 DEF Jobs
  <2>3. /\ next.at = "unlock" /\ next.k = j.k + 1 /\ next.script = j.script
        /\ next.handles = j.handles /\ next.log = j.log
    BY <1>1, <1>2, SMT DEF Jobs
  <2>4. UnLock(w, f, next)
    BY <1>1, <1>5
  <2> HIDE DEF next
  <2>5. Fit(next) /\ Plain(next)
    BY <1>2, <1>3, <2>1, <2>2, <2>3, CommitFit DEF InCommit
  <2> QED BY <1>1, <1>4, <2>2, <2>3, <2>4, <2>5, UnLockKeeps
<1>6. CASE ~(j.k < Len(j.handles))
  <2>1. "free" \in Ats
    BY DEF Ats, InCommit
  <2>2. end \in Jobs
    BY <1>2, <2>1 DEF Jobs
  <2>3. /\ end.at = "free" /\ end.k = j.k /\ end.script = j.script
        /\ end.handles = j.handles /\ end.log = j.log
    BY <1>2, SMT DEF Jobs
  <2>4. UnLock(w, f, end)
    BY <1>1, <1>6
  <2> HIDE DEF end
  <2>5. Fit(end) /\ Plain(end)
    BY <1>2, <1>3, <2>2, <2>3, CommitFit DEF InCommit
  <2> QED BY <1>1, <1>4, <2>2, <2>3, <2>4, <2>5, UnLockKeeps
<1> QED BY <1>5, <1>6

\* A worker begins or goes on to close its tables.
LEMMA CloseFit ==
  ASSUME NEW j \in Jobs, Fit(j), j.handles # <<>>, j.at # "idle", j.log = <<>>,
         NEW nj \in Jobs, nj.at \in {"close", "sleep", "flush"}, nj.script = j.script,
         nj.handles = j.handles, nj.log = j.log
  PROVE  Fit(nj)
BY DEF Fit, InAct, InCommit, InClose

LEMMA FreeRecLockKeeps ==
  ASSUME KeptInv, NEW w \in Workers, FreeRecLock(w)
  PROVE  KeptInv'
<1> DEFINE j == job[w]
           f == From(w)[j.k]
           a == IF j.k > 1 THEN "free" ELSE "close"
           nj == [j EXCEPT !.k = @ - 1, !.at = a]
           L == [i \in Slots |-> IF df[f].locks[i] = w THEN 0 ELSE df[f].locks[i]]
           n == [df[f] EXCEPT !.locks = L]
<1>1. /\ j.at = "free" /\ df' = [df EXCEPT ![f] = n] /\ job' = [job EXCEPT ![w] = nj]
      /\ UNCHANGED <<files, dofn, data, number, undefined>>
  BY DEF FreeRecLock, At
<1>2. /\ TypeOK /\ j \in Jobs /\ Fit(j) /\ DOMAIN j.handles = 1 .. Len(j.handles)
      /\ Len(j.handles) \in Nat /\ j.k \in Nat
      /\ \A i \in DOMAIN j.handles : From(w)[i] \in Files
  BY JobFacts
<1>3. j.k \in DOMAIN j.handles /\ j.at \in InCommit /\ j.log = <<>> /\ j.handles # <<>>
  <2>1. j.k \in DOMAIN j.handles /\ j.at \in InCommit /\ j.log = <<>>
    BY <1>1, <1>2 DEF Fit, InCommit, InAct
  <2>2. DOMAIN <<>> = {}
    BY SMT
  <2> QED BY <2>1, <2>2
<1>4. f \in Files
  BY <1>2, <1>3
<1> HIDE DEF f
<1>5. /\ df \in [Files -> dFILE] /\ df[f] \in dFILE /\ df[f].locks \in [Slots -> Workers \cup {0}]
  BY <1>2, <1>4 DEF TypeOK, dFILE
<1>6. n \in dFILE
  <2>1. L \in [Slots -> Workers \cup {0}]
    BY <1>5
  <2> HIDE DEF L
  <2> QED BY <1>5, <2>1 DEF dFILE
<1>7. /\ n.users = df[f].users /\ n.gen = df[f].gen /\ n.lost = df[f].lost
      /\ n.owner = df[f].owner /\ n.depth = df[f].depth /\ n.locks = L
  BY <1>5, SMT DEF dFILE
<1>8. \A v \in Workers \ {w, 0}, i \in Slots : df[f].locks[i] = v => L[i] = v
  OBVIOUS
<1> HIDE DEF n, L
<1>9. df'[f] = n /\ \A g \in Files \ {f} : df'[g] = df[g]
  BY <1>1, <1>4, <1>5
<1>10. df' \in [Files -> dFILE]
  BY <1>1, <1>5, <1>6
<1>11. DfStep(w)
  <2>1. ASSUME NEW g \in Files
        PROVE  /\ df'[g].users = df[g].users /\ df'[g].gen = df[g].gen
               /\ df'[g].lost = df[g].lost /\ df'[g].owner = df[g].owner
               /\ df'[g].depth = df[g].depth
               /\ \A v \in Workers \ {w, 0}, i \in Slots :
                    df[g].locks[i] = v => df'[g].locks[i] = v
    <3>1. CASE g = f
      <4>1. df'[g] = n /\ df'[g].locks = L
        BY <1>7, <1>9, <3>1
      <4> QED BY <1>7, <1>8, <3>1, <4>1
    <3>2. CASE g # f
      BY <1>9, <3>2
    <3> QED BY <3>1, <3>2
  <2> QED BY <1>2, <1>10, <2>1 DEF DfStep, SameCounts, TypeOK
<1>12. j.k - 1 \in Nat /\ a \in Ats
  BY <1>2, <1>3, SMT DEF Ats, InCommit, InClose
<1> HIDE DEF a
<1>13. nj \in Jobs
  BY <1>2, <1>12 DEF Jobs
<1>14. /\ nj.at = a /\ nj.k = j.k - 1 /\ nj.script = j.script /\ nj.handles = j.handles
       /\ nj.log = j.log
  BY <1>2, SMT DEF Jobs
<1> HIDE DEF nj
<1>15. Fit(nj) /\ Plain(nj)
  <2>1. CASE j.k > 1
    <3>1. nj.k \in DOMAIN j.handles
      BY <1>2, <1>3, <1>14, <2>1, SMT
    <3> QED BY <1>2, <1>3, <1>13, <1>14, <2>1, <3>1, CommitFit DEF a, InCommit
  <2>2. CASE ~(j.k > 1)
    <3>1. nj.at = "close"
      BY <1>14, <2>2 DEF a
    <3> QED BY <1>1, <1>2, <1>3, <1>13, <1>14, <3>1, CloseFit DEF Plain
  <2> QED BY <2>1, <2>2
<1>16. DataStep /\ number' \in 0 .. MaxScripts /\ undefined' \in BOOLEAN
  BY <1>1, <1>2, SameData DEF TypeOK
<1> QED BY <1>1, <1>3, <1>11, <1>13, <1>14, <1>15, <1>16, QuietStep

LEMMA CloseTargetKeeps ==
  ASSUME KeptInv, NEW w \in Workers, CloseTarget(w)
  PROVE  KeptInv'
<1> DEFINE j == job[w]
           f == From(w)[1]
           next == [j EXCEPT !.at = "close"]
<1>1. /\ j.at = "target" /\ UNCHANGED <<files, dofn, data, number>>
      /\ \/ UnLock(w, f, next)
         \/ job' = [job EXCEPT ![w] = next] /\ UNCHANGED <<df, undefined>>
  BY DEF CloseTarget, At
<1>2. /\ TypeOK /\ j \in Jobs /\ Fit(j) /\ DOMAIN j.handles = 1 .. Len(j.handles)
      /\ Len(j.script.from) \in Nat \ {0}
      /\ \A i \in DOMAIN j.handles : From(w)[i] \in Files
  BY <1>1, JobFacts
<1>3. Len(j.handles) = Len(j.script.from) /\ j.log = <<>>
  BY <1>1, <1>2 DEF Fit, InAct
<1>4. 1 \in DOMAIN j.handles /\ j.handles # <<>>
  <2>1. 1 \in DOMAIN j.handles
    BY <1>2, <1>3, SMT
  <2>2. DOMAIN <<>> = {}
    BY SMT
  <2> QED BY <2>1, <2>2
<1>5. f \in Files
  BY <1>2, <1>4
<1>6. "close" \in Ats
  BY DEF Ats, InClose
<1>7. next \in Jobs
  BY <1>2, <1>6 DEF Jobs
<1>8. /\ next.at = "close" /\ next.script = j.script /\ next.handles = j.handles
      /\ next.log = j.log
  BY <1>2, SMT DEF Jobs
<1> HIDE DEF next, f
<1>9. Fit(next) /\ Plain(next)
  BY <1>1, <1>2, <1>3, <1>4, <1>7, <1>8, CloseFit DEF Plain
<1>10. CASE UnLock(w, f, next)
  BY <1>1, <1>5, <1>7, <1>8, <1>9, <1>10, UnLockKeeps
<1>11. CASE job' = [job EXCEPT ![w] = next] /\ UNCHANGED <<df, undefined>>
  BY <1>1, <1>2, <1>7, <1>8, <1>9, <1>11, JobKeeps, SameData DEF TypeOK
<1> QED BY <1>1, <1>10, <1>11

LEMMA CloseFromKeeps ==
  ASSUME KeptInv, NEW w \in Workers, CloseFrom(w)
  PROVE  KeptInv'
<1> DEFINE j == job[w]
           f == From(w)[1]
           next == [j EXCEPT !.at = "sleep"]
<1>1. /\ j.at = "close" /\ UNCHANGED <<files, dofn, data, number>>
      /\ \/ UnLock(w, f, next)
         \/ job' = [job EXCEPT ![w] = next] /\ UNCHANGED <<df, undefined>>
  BY DEF CloseFrom, At
<1>2. /\ TypeOK /\ j \in Jobs /\ Fit(j) /\ j.handles \in Seq(Handles)
      /\ \A i \in DOMAIN j.handles : From(w)[i] \in Files
  BY <1>1, JobFacts
<1>3. j.log = <<>> /\ j.handles # <<>>
  BY <1>1, <1>2 DEF Fit, InAct, InClose
<1>4. 1 \in DOMAIN j.handles
  BY <1>2, <1>3, TailSeq, SMT
<1>5. f \in Files
  BY <1>2, <1>4
<1>6. "sleep" \in Ats
  BY DEF Ats, InClose
<1>7. next \in Jobs
  BY <1>2, <1>6 DEF Jobs
<1>8. /\ next.at = "sleep" /\ next.script = j.script /\ next.handles = j.handles
      /\ next.log = j.log
  BY <1>2, SMT DEF Jobs
<1> HIDE DEF next, f
<1>9. Fit(next) /\ Plain(next)
  BY <1>1, <1>2, <1>3, <1>7, <1>8, CloseFit DEF Plain
<1>10. CASE UnLock(w, f, next)
  BY <1>1, <1>5, <1>7, <1>8, <1>9, <1>10, UnLockKeeps
<1>11. CASE job' = [job EXCEPT ![w] = next] /\ UNCHANGED <<df, undefined>>
  BY <1>1, <1>2, <1>7, <1>8, <1>9, <1>11, JobKeeps, SameData DEF TypeOK
<1> QED BY <1>1, <1>10, <1>11
-----------------------------------------------------------------------------
(* The actions that append to a log or to a table                           *)

LEMMA BusyStep ==
  ASSUME KeptInv, NEW w \in Workers, NEW nj \in Jobs, Fit(nj),
         job' = [job EXCEPT ![w] = nj], job[w].at # "flush", nj.at # "flush",
         nj.handles = job[w].handles, DfStep(w), DataStep, files' = files, dofn' = dofn,
         number' \in 0 .. MaxScripts, undefined' \in BOOLEAN, HeldInv'
  PROVE  KeptInv'
<1>1. /\ job \in [Workers -> Jobs] /\ job' \in [Workers -> Jobs] /\ job'[w] = nj
      /\ \A v \in Workers \ {w} : job'[v] = job[v]
  BY DEF KeptInv, TypeOK
<1>2. TypeOK'
  BY <1>1 DEF KeptInv, TypeOK, DfStep, DataStep
<1>3. ControlInv'
  BY <1>1 DEF KeptInv, ControlInv
<1>4. InUseStaysOpen'
  BY QuietInUse DEF KeptInv, DfStep
<1> QED BY <1>2, <1>3, <1>4 DEF KeptInv

LEMMA Quotient ==
  ASSUME NEW a \in Nat, NEW b \in Nat \ {0}
  PROVE  a \div b \in Nat
BY SMT

\* toLockRec finds one of the locks of the table for a record.
LEMMA LockOfSlot ==
  ASSUME TypeOK, NEW f \in Files, NEW r \in Nat
  PROVE  LockOf(f, r) \in Slots /\ LockOf(f, r) # None
<1> DEFINE d == (Len(data[f]) \div LockNum) + 1
           q == r \div d
<1>1. Len(data[f]) \in Nat /\ LockNum \in Nat \ {0}
  BY SMT DEF TypeOK
<1>2. Len(data[f]) \div LockNum \in Nat
  BY <1>1, Quotient
<1>3. d \in Nat \ {0}
  BY <1>2, SMT
<1> HIDE DEF d
<1>4. q \in Nat
  BY <1>3, Quotient
<1>5. LockOf(f, r) = IF q >= LockNum THEN LockNum - 1 ELSE q
  BY DEF LockOf, d
<1> HIDE DEF q
<1>6. LockOf(f, r) \in Slots /\ LockOf(f, r) \in Int
  BY <1>1, <1>4, <1>5, SMT DEF Slots
<1> QED BY <1>6, SMT

LEMMA CalRecLaterKeeps ==
  ASSUME KeptInv, NEW w \in Workers, CalRecLater(w)
  PROVE  KeptInv'
<1> DEFINE j == job[w]
           f == Table(w)
           i == LockOf(f, Act(w).rec)
           e == [file |-> f, rec |-> Act(w).rec, slot |-> i]
           o == [j EXCEPT !.log = Append(@, e)]
           nj == Went(o)
           n == [df[f] EXCEPT !.locks = [@ EXCEPT ![i] = w]]
<1>1. /\ j.at = "calrec" /\ j.script.update /\ UNCHANGED <<files, dofn, data, number, undefined>>
      /\ \/ /\ Granted(w, f, i)
            /\ df' = [df EXCEPT ![f] = n] /\ job' = [job EXCEPT ![w] = nj]
         \/ job' = [job EXCEPT ![w] = Failed(j)] /\ df' = df
  BY DEF CalRecLater, At
<1>2. /\ TypeOK /\ j \in Jobs /\ Fit(j) /\ ControlInv /\ HeldInv
      /\ j.log \in Seq(Entries)
  BY JobFacts DEF KeptInv
<1>3. /\ f \in Files /\ Act(w).rec \in Nat \ {0} /\ Act(w).rec <= RecNum[f]
      /\ Act(w).table \in DOMAIN j.handles
  BY <1>1, <1>2, ActFacts DEF InAct
<1>4. i \in Slots /\ i # None
  BY <1>2, <1>3, LockOfSlot
<1>5. DataStep /\ number' \in 0 .. MaxScripts /\ undefined' \in BOOLEAN
  BY <1>1, <1>2, SameData DEF TypeOK
<1>6. CASE job' = [job EXCEPT ![w] = Failed(j)] /\ df' = df
  <2>1. /\ Failed(j) \in Jobs /\ Fit(Failed(j)) /\ Plain(Failed(j))
        /\ Failed(j).handles = j.handles /\ Failed(j).log = <<>>
    BY <1>1, <1>2, FailedFit DEF InAct
  <2> QED BY <1>1, <1>5, <1>6, <2>1, JobKeeps
<1>7. CASE /\ Granted(w, f, i)
           /\ df' = [df EXCEPT ![f] = n] /\ job' = [job EXCEPT ![w] = nj]
  <2> HIDE DEF i
  <2>1. e \in Entries /\ e.file = f /\ e.rec = Act(w).rec /\ e.slot = i
    BY <1>3, <1>4 DEF Entries
  <2> HIDE DEF e
  <2>2. Append(j.log, e) \in Seq(Entries) /\ Elements(Append(j.log, e)) = Elements(j.log) \cup {e}
    BY <1>2, <2>1, AppendSeq
  <2>3. o \in Jobs
    BY <1>2, <2>2 DEF Jobs
  <2>4. /\ o.at = j.at /\ o.script = j.script /\ o.k = j.k /\ o.handles = j.handles
        /\ o.log = Append(j.log, e)
    BY <1>2, SMTT(30) DEF Jobs
  <2> HIDE DEF o
  <2>5. Fit(o) /\ o.at \in InAct
    BY <1>1, <1>2, <2>4 DEF Fit, InAct
  <2>6. /\ nj \in Jobs /\ Fit(nj) /\ Plain(nj) /\ nj.handles = j.handles
        /\ nj.log = Append(j.log, e)
    BY <2>3, <2>4, <2>5, WentFit
  <2> HIDE DEF nj
  <2>7. /\ df \in [Files -> dFILE] /\ df[f] \in dFILE
        /\ df[f].locks \in [Slots -> Workers \cup {0}]
    BY <1>2, <1>3 DEF TypeOK, dFILE
  <2> DEFINE L == [df[f].locks EXCEPT ![i] = w]
  <2>8. /\ L \in [Slots -> Workers \cup {0}] /\ L[i] = w
        /\ \A k \in Slots \ {i} : L[k] = df[f].locks[k]
    BY <1>4, <2>7
  <2>9. n = [df[f] EXCEPT !.locks = L]
    OBVIOUS
  <2> HIDE DEF L, n
  <2>10. /\ n \in dFILE /\ n.users = df[f].users /\ n.gen = df[f].gen /\ n.lost = df[f].lost
         /\ n.owner = df[f].owner /\ n.depth = df[f].depth /\ n.locks = L
    <3>1. n \in dFILE
      BY <2>7, <2>8, <2>9 DEF dFILE
    <3> QED BY <2>7, <2>9, <3>1, SMT DEF dFILE
  <2>11. df'[f] = n /\ \A g \in Files \ {f} : df'[g] = df[g]
    BY <1>3, <1>7, <2>7
  <2>12. df' \in [Files -> dFILE]
    BY <1>7, <2>7, <2>10
  <2>13. ASSUME NEW g \in Files
         PROVE  /\ df'[g].users = df[g].users /\ df'[g].gen = df[g].gen
                /\ df'[g].lost = df[g].lost /\ df'[g].owner = df[g].owner
                /\ df'[g].depth = df[g].depth
    BY <2>10, <2>11
  <2>14. ASSUME NEW g \in Files, NEW v \in Workers \ {0}, NEW k \in Slots, df[g].locks[k] = v
         PROVE  df'[g].locks[k] = v
    <3>1. CASE g = f /\ k = i
      <4>1. v = w
        BY <1>7, <2>14, <3>1 DEF Granted
      <4> QED BY <2>8, <2>10, <2>11, <3>1, <4>1
    <3>2. CASE g = f /\ k # i
      BY <2>8, <2>10, <2>11, <2>14, <3>2
    <3>3. CASE g # f
      BY <2>11, <2>14, <3>3
    <3> QED BY <3>1, <3>2, <3>3
  <2>15. DfStep(w)
    <3>1. SameCounts
      BY <2>13 DEF SameCounts
    <3>2. \A g \in Files : df'[g].owner = None <=> df'[g].depth = 0
      BY <1>2, <2>13 DEF TypeOK
    <3>3. \A g \in Files, v \in Workers \ {w} : df[g].owner = v => df'[g].owner = v
      BY <2>13
    <3>4. \A g \in Files, v \in Workers \ {w, 0}, k \in Slots :
            df[g].locks[k] = v => df'[g].locks[k] = v
      BY <2>14
    <3> QED BY <2>12, <3>1, <3>2, <3>3, <3>4 DEF DfStep
  <2>16. KeptFor(w)
    BY <1>5, <2>15, DfKept
  <2>17. ASSUME NEW x \in Elements(nj.log) PROVE Covered(w, nj, x) /\ Alone(w, x)
    <3>1. CASE x \in Elements(j.log)
      <4>1. data' \in [Files -> Seq(0 .. MaxScripts)]
        BY <1>5 DEF DataStep
      <4>2. OwnKept(w)
        BY <2>14 DEF OwnKept
      <4> QED BY <1>2, <2>6, <2>16, <3>1, <4>1, <4>2, StillCovered
    <3>2. CASE x = e
      <4>1. e.rec <= Len(data'[f])
        <5>1. data[f] \in Seq(0 .. MaxScripts) /\ RecNum[f] \in Nat /\ RecNum[f] <= Len(data[f])
          BY <1>2, <1>3 DEF TypeOK, HeldInv
        <5> QED BY <1>1, <1>3, <2>1, <5>1, SMT
      <4>2. \E k \in DOMAIN nj.handles : nj.handles[k].file = f
        BY <1>3, <2>6 DEF Table
      <4>3. df'[f].locks[i] = w
        BY <2>8, <2>10, <2>11
      <4> QED BY <1>4, <2>1, <3>2, <4>1, <4>2, <4>3 DEF Covered, Alone
    <3> QED BY <2>2, <2>6, <3>1, <3>2
  <2>18. HeldInv'
    BY <1>2, <1>5, <1>7, <2>6, <2>16, <2>17, HeldStep DEF DataStep, Plain
  <2> QED BY <1>1, <1>5, <1>7, <2>6, <2>15, <2>18, BusyStep DEF Plain
<1> QED BY <1>1, <1>6, <1>7

\* apprec: what it does next has the same action before it.
LEMMA AppendFit ==
  ASSUME KeptInv, NEW w \in Workers, job[w].at \in InAct, NEW nj \in Jobs,
         nj.at \in {"append", "unlock1", "unlock2"}, nj.at = "unlock1" => job[w].script.update,
         nj.script = job[w].script, nj.k = job[w].k, nj.handles = job[w].handles,
         nj.log = job[w].log \/ job[w].script.update, job' = [job EXCEPT ![w] = nj]
  PROVE  Fit(nj) /\ (Table(w))' = Table(w)
<1>1. Fit(job[w]) /\ TypeOK
  BY JobFacts
<1>2. Fit(nj)
  BY <1>1 DEF Fit, InAct, InCommit, InClose
<1>3. job'[w] = nj
  BY <1>1 DEF TypeOK
<1>4. (Table(w))' = Table(w)
  BY <1>3 DEF Table, Act
<1> QED BY <1>2, <1>4

LEMMA AppRecLockKeeps ==
  ASSUME KeptInv, NEW w \in Workers, AppRecLock(w)
  PROVE  KeptInv'
<1> DEFINE j == job[w]
           f == Table(w)
           s == [file |-> f, flag |-> 1]
           next == [j EXCEPT !.at = "append"]
           nj == [next EXCEPT !.store = s]
<1>1. /\ j.at = "apprec" /\ CanEnter(w, f) /\ df' = Entered(w, f)
      /\ job' = [job EXCEPT ![w] = nj] /\ UNCHANGED <<files, dofn, data, number, undefined>>
  BY DEF AppRecLock, At, Lock
<1>2. /\ TypeOK /\ j \in Jobs /\ Fit(j) /\ ControlInv /\ HeldInv
  BY JobFacts DEF KeptInv
<1>3. f \in Files
  BY <1>1, <1>2, ActFacts DEF InAct
<1>4. s \in [file : Files, flag : {0, 1}] \cup {None} /\ "append" \in Ats
  BY <1>3 DEF Ats, InAct
<1>5. next \in Jobs
  BY <1>2, <1>4 DEF Jobs
<1>6. /\ next.at = "append" /\ next.script = j.script /\ next.k = j.k
      /\ next.handles = j.handles /\ next.log = j.log
  BY <1>2, SMT DEF Jobs
<1> HIDE DEF s, next
<1>7. /\ nj \in Jobs /\ nj.at = "append" /\ nj.script = j.script /\ nj.k = j.k
      /\ nj.handles = j.handles /\ nj.log = j.log
  BY <1>4, <1>5, <1>6, StoreFit
<1> HIDE DEF nj
<1>8. Fit(nj) /\ (Table(w))' = f
  BY <1>1, <1>7, AppendFit DEF InAct
<1>9. DfStep(w) /\ SameLocks /\ df'[f].owner = w
  BY <1>1, <1>2, <1>3, EnteredDf
<1>10. DataStep /\ number' \in 0 .. MaxScripts /\ undefined' \in BOOLEAN
  BY <1>1, <1>2, SameData DEF TypeOK
<1>11. KeptFor(w)
  BY <1>9, <1>10, DfKept
<1>12. \A e \in Elements(nj.log) : Covered(w, nj, e) /\ Alone(w, e)
  <2>1. data' \in [Files -> Seq(0 .. MaxScripts)]
    BY <1>10 DEF DataStep
  <2>2. OwnKept(w)
    BY <1>9 DEF SameLocks, OwnKept
  <2> QED BY <1>2, <1>7, <1>11, <2>1, <2>2, StillCovered
<1>13. HeldInv'
  BY <1>1, <1>2, <1>7, <1>8, <1>9, <1>10, <1>11, <1>12, HeldStep DEF DataStep
<1> QED BY <1>1, <1>7, <1>8, <1>9, <1>10, <1>13, BusyStep

LEMMA AppRecPutKeeps ==
  ASSUME KeptInv, NEW w \in Workers, AppRecPut(w)
  PROVE  KeptInv'
<1> DEFINE j == job[w]
           f == Table(w)
           a == IF j.script.update THEN "unlock1" ELSE "unlock2"
           nj == [j EXCEPT !.at = a, !.seen = None]
           d == Append(data[f], j.no)
<1>1. /\ j.at = "append" /\ data' = [data EXCEPT ![f] = d] /\ job' = [job EXCEPT ![w] = nj]
      /\ UNCHANGED <<df, files, dofn, number, undefined>>
  BY DEF AppRecPut, At
<1>2. /\ TypeOK /\ j \in Jobs /\ Fit(j) /\ ControlInv /\ HeldInv
  BY JobFacts DEF KeptInv
<1>3. f \in Files
  BY <1>1, <1>2, ActFacts DEF InAct
<1>4. a \in {"unlock1", "unlock2"} /\ a \in Ats /\ (a = "unlock1" => j.script.update)
  BY DEF Ats, InAct
<1> HIDE DEF a
<1>5. nj \in Jobs
  BY <1>2, <1>4 DEF Jobs
<1>6. /\ nj.at = a /\ nj.script = j.script /\ nj.k = j.k /\ nj.handles = j.handles
      /\ nj.log = j.log
  BY <1>2, SMT DEF Jobs
<1> HIDE DEF nj
<1>7. Fit(nj) /\ (Table(w))' = f
  BY <1>1, <1>4, <1>5, <1>6, AppendFit DEF InAct
<1>8. /\ data \in [Files -> Seq(0 .. MaxScripts)] /\ data[f] \in Seq(0 .. MaxScripts)
      /\ \A g \in Files : Len(data[g]) \in Nat
  BY <1>2, <1>3, SMT DEF TypeOK
<1>9. d \in Seq(0 .. MaxScripts) /\ Len(d) = Len(data[f]) + 1
  <2>1. j.no \in 0 .. MaxScripts
    BY <1>2 DEF Jobs
  <2> QED BY <1>8, <2>1, AppendSeq
<1> HIDE DEF d
<1>10. data'[f] = d /\ \A g \in Files \ {f} : data'[g] = data[g]
  BY <1>1, <1>3, <1>8
<1>11. DataStep
  <2>1. data' \in [Files -> Seq(0 .. MaxScripts)]
    BY <1>1, <1>8, <1>9
  <2>2. ASSUME NEW g \in Files PROVE Len(data[g]) <= Len(data'[g])
    <3>1. Len(data[g]) \in Nat /\ (Len(data'[g]) = Len(data[g]) + 1 \/ Len(data'[g]) = Len(data[g]))
      BY <1>8, <1>9, <1>10
    <3> QED BY <3>1, SMT
  <2> QED BY <2>1, <2>2 DEF DataStep
<1>12. DfStep(w) /\ SameLocks
  BY <1>1, <1>2, SameDf
<1>13. KeptFor(w)
  BY <1>11, <1>12, DfKept
<1>14. \A e \in Elements(nj.log) : Covered(w, nj, e) /\ Alone(w, e)
  <2>1. data' \in [Files -> Seq(0 .. MaxScripts)]
    BY <1>11 DEF DataStep
  <2>2. OwnKept(w)
    BY <1>12 DEF SameLocks, OwnKept
  <2> QED BY <1>2, <1>6, <1>13, <2>1, <2>2, StillCovered
<1>15. ASSUME NEW v \in Workers, NEW e \in Elements(job'[v].log), e.slot = None, e.file = f
       PROVE  e.rec < Len(data'[e.file])
  <2>1. job'[v].log = job[v].log
    BY <1>1, <1>2, <1>6 DEF TypeOK
  <2>2. e \in Entries /\ e.rec <= Len(data[f])
    BY <1>2, <1>15, <2>1, JobTypes DEF HeldInv
  <2>3. e.rec \in Nat /\ Len(data[f]) \in Nat /\ Len(data'[f]) = Len(data[f]) + 1
    BY <1>3, <1>8, <1>9, <1>10, <2>2 DEF Entries
  <2> QED BY <1>15, <2>2, <2>3, SMT
<1>16. df'[(Table(w))'].owner = w
  <2>1. df[f].owner = w
    BY <1>1, <1>2 DEF HeldInv
  <2> QED BY <1>1, <1>7, <2>1
<1>17. HeldInv'
  BY <1>1, <1>2, <1>5, <1>7, <1>11, <1>13, <1>14, <1>15, <1>16, HeldStep DEF DataStep
<1>18. number' \in 0 .. MaxScripts /\ undefined' \in BOOLEAN /\ nj.at # "flush"
  BY <1>1, <1>2, <1>4, <1>6 DEF TypeOK
<1> QED BY <1>1, <1>5, <1>6, <1>7, <1>11, <1>12, <1>17, <1>18, BusyStep

LEMMA AppRecFailsKeeps ==
  ASSUME KeptInv, NEW w \in Workers, AppRecFails(w)
  PROVE  KeptInv'
<1> DEFINE j == job[w]
<1>1. /\ j.at = "append" /\ UnLock(w, Table(w), Failed(j))
      /\ UNCHANGED <<files, dofn, data, number>>
  BY DEF AppRecFails, At
<1>2. TypeOK /\ j \in Jobs /\ Fit(j) /\ Table(w) \in Files
  BY <1>1, JobFacts, ActFacts DEF KeptInv, InAct
<1>3. /\ Failed(j) \in Jobs /\ Fit(Failed(j)) /\ Plain(Failed(j))
      /\ Failed(j).handles = j.handles /\ Failed(j).log = <<>>
  BY <1>1, <1>2, FailedFit DEF InAct
<1> QED BY <1>1, <1>2, <1>3, UnLockKeeps

LEMMA AppRecUnLockKeeps ==
  ASSUME KeptInv, NEW w \in Workers, AppRecUnLock(w)
  PROVE  KeptInv'
<1> DEFINE j == job[w]
           f == Table(w)
           e == [file |-> f, rec |-> Len(data[f]), slot |-> None]
           next == [j EXCEPT !.at = "unlock2", !.log = Append(@, e)]
           s == [file |-> f, flag |-> 0]
           nj == [next EXCEPT !.store = s]
<1>1. /\ UNCHANGED <<files, dofn, data, number>>
      /\ \/ j.at = "unlock1" /\ UnLock(w, f, next)
         \/ j.at = "unlock2" /\ UnLock(w, f, Went(j))
  BY DEF AppRecUnLock, At
<1>2. /\ TypeOK /\ j \in Jobs /\ Fit(j) /\ ControlInv /\ HeldInv /\ j.log \in Seq(Entries)
  BY JobFacts DEF KeptInv
<1>3. /\ f \in Files /\ RecNum[f] \in Nat \ {0} /\ Act(w).table \in DOMAIN j.handles
  BY <1>1, <1>2, ActFacts DEF InAct
<1>4. CASE j.at = "unlock2" /\ UnLock(w, f, Went(j))
  <2>1. /\ Went(j) \in Jobs /\ Fit(Went(j)) /\ Plain(Went(j)) /\ Went(j).handles = j.handles
        /\ Went(j).log = j.log
    BY <1>2, <1>4, WentFit DEF InAct
  <2> QED BY <1>1, <1>3, <1>4, <2>1, UnLockKeeps
<1>5. CASE j.at = "unlock1" /\ UnLock(w, f, next)
  <2>1. df[f].owner = w
    BY <1>2, <1>5 DEF HeldInv
  <2>2. /\ df' = [df EXCEPT ![f].depth = @ - 1,
                            ![f].owner = IF df[f].depth = 1 THEN None ELSE w]
        /\ job' = [job EXCEPT ![w] = nj] /\ undefined' = undefined
    BY <1>5, <2>1 DEF UnLock
  <2>3. Len(data[f]) \in Nat \ {0} /\ RecNum[f] <= Len(data[f])
    <3>1. data[f] \in Seq(0 .. MaxScripts) /\ RecNum[f] <= Len(data[f])
      BY <1>2, <1>3 DEF TypeOK, HeldInv
    <3> QED BY <1>3, <3>1, SMT
  <2>4. e \in Entries /\ e.file = f /\ e.rec = Len(data[f]) /\ e.slot = None
    BY <1>3, <2>3 DEF Entries
  <2> HIDE DEF e
  <2>5. Append(j.log, e) \in Seq(Entries) /\ Elements(Append(j.log, e)) = Elements(j.log) \cup {e}
    BY <1>2, <2>4, AppendSeq
  <2>6. /\ s \in [file : Files, flag : {0, 1}] \cup {None} /\ "unlock2" \in Ats
    BY <1>3 DEF Ats, InAct
  <2>7. next \in Jobs
    BY <1>2, <2>5, <2>6 DEF Jobs
  <2>8. /\ next.at = "unlock2" /\ next.script = j.script /\ next.k = j.k
        /\ next.handles = j.handles /\ next.log = Append(j.log, e)
    BY <1>2, SMTT(30) DEF Jobs
  <2> HIDE DEF s, next
  <2>9. /\ nj \in Jobs /\ nj.at = "unlock2" /\ nj.script = j.script /\ nj.k = j.k
        /\ nj.handles = j.handles /\ nj.log = Append(j.log, e)
    BY <2>6, <2>7, <2>8, StoreFit
  <2> HIDE DEF nj
  <2>10. j.script.update
    BY <1>2, <1>5 DEF Fit
  <2>11. Fit(nj)
    BY <1>5, <2>2, <2>9, <2>10, AppendFit DEF InAct
  <2>12. DfStep(w) /\ SameLocks
    BY <1>2, <1>3, <2>1, <2>2, LeftDf
  <2>13. DataStep /\ number' \in 0 .. MaxScripts /\ undefined' \in BOOLEAN
    BY <1>1, <1>2, <2>2, SameData DEF TypeOK
  <2>14. KeptFor(w)
    BY <2>12, <2>13, DfKept
  <2>15. Covered(w, nj, e)
    <3>1. \E k \in DOMAIN nj.handles : nj.handles[k].file = f
      BY <1>3, <2>9 DEF Table
    <3>2. e.rec <= Len(data'[f])
      BY <1>1, <2>3, <2>4, SMT
    <3> QED BY <2>4, <3>1, <3>2 DEF Covered
  <2>16. Alone(w, e)
    <3> SUFFICES ASSUME NEW v \in Workers \ {w}
                 PROVE  /\ \A d \in Elements(job[v].log) :
                             d.slot = None /\ d.file = f => d.rec # e.rec
                        /\ ~(job[v].at = "unlock1" /\ Table(v) = f)
      BY <2>4 DEF Alone
    <3>1. ASSUME NEW d \in Elements(job[v].log), d.slot = None, d.file = f
          PROVE  d.rec # e.rec
      <4>1. d.rec < Len(data[f])
        BY <1>2, <1>5, <3>1 DEF HeldInv
      <4>2. d.rec \in Nat
        BY <1>2, JobTypes DEF Entries
      <4> QED BY <2>3, <2>4, <4>1, <4>2, SMT
    <3>2. ~(job[v].at = "unlock1" /\ Table(v) = f)
      BY <1>2, <2>1 DEF HeldInv
    <3> QED BY <3>1, <3>2
  <2>17. ASSUME NEW x \in Elements(nj.log) PROVE Covered(w, nj, x) /\ Alone(w, x)
    <3>1. CASE x \in Elements(j.log)
      <4>1. data' \in [Files -> Seq(0 .. MaxScripts)]
        BY <2>13 DEF DataStep
      <4>2. OwnKept(w)
        BY <2>12 DEF SameLocks, OwnKept
      <4> QED BY <1>2, <2>9, <2>14, <3>1, <4>1, <4>2, StillCovered
    <3> QED BY <2>5, <2>9, <2>15, <2>16, <3>1
  <2>18. HeldInv'
    BY <1>2, <2>2, <2>9, <2>13, <2>14, <2>17, HeldStep DEF DataStep
  <2> QED BY <1>1, <1>5, <2>2, <2>9, <2>11, <2>12, <2>13, <2>18, BusyStep
<1> QED BY <1>1, <1>4, <1>5
-----------------------------------------------------------------------------
(* dSleep                                                                   *)

\* Nobody flushes while dofnCE is free: the users of a table are then those that have it.
LEMMA CountsAtRest ==
  ASSUME KeptInv, dofn = None, NEW f \in Files
  PROVE  /\ Flushers(f) = {} /\ df[f].users = df[f].lost + Cardinality(Used(job, f))
         /\ df[f].users \in Nat /\ df[f].lost \in Nat /\ Cardinality(Used(job, f)) \in Nat
<1>1. \A w \in Workers : w # None
  BY SMT
<1>2. Flushers(f) = {}
  BY <1>1 DEF KeptInv, ControlInv, Flushers
<1>3. df[f].users \in Nat /\ df[f].lost \in Nat /\ job \in [Workers -> Jobs]
  BY DEF KeptInv, TypeOK, dFILE
<1>4. Cardinality(Used(job, f)) \in Nat
  <2>1. Workers \in SUBSET Workers
    OBVIOUS
  <2> QED BY <1>3, <2>1, UnionFinite, FS_CardinalityType DEF Used
<1>5. Cardinality(Flushers(f)) = 0
  BY <1>2, FS_EmptySet
<1>6. df[f].users + Cardinality(Flushers(f)) = df[f].lost + Cardinality(Used(job, f))
  BY UsesUsed DEF KeptInv, InUseStaysOpen, UsersCounted
<1> QED BY <1>2, <1>3, <1>4, <1>5, <1>6, SMT

\* dSleep of the last handle a worker has: the worker goes on with its Tail.
LEMMA SleptCounts ==
  ASSUME TypeOK, NEW w \in Workers, Fit(job[w]), job[w].at \in InClose, Landed(w),
         job' = [job EXCEPT ![w] = Slept(job[w])]
  PROVE  /\ Slept(job[w]) \in Jobs /\ Fit(Slept(job[w])) /\ Plain(Slept(job[w]))
         /\ Slept(job[w]).handles = Tail(job[w].handles)
         /\ Slept(job[w]).log = <<>>
         /\ job[w].handles # <<>> /\ 1 \in DOMAIN job[w].handles
         /\ From(w)[1] = job[w].handles[1].file /\ From(w)[1] \in Files
         /\ Elements(Tail(job[w].handles)) \subseteq Elements(job[w].handles)
         /\ \A f \in Files :
              /\ Cardinality(Used(job, f)) \in Nat /\ Cardinality(Used(job', f)) \in Nat
              /\ Cardinality(Used(job, f)) =
                   Cardinality(Used(job', f)) + (IF From(w)[1] = f THEN 1 ELSE 0)
<1> DEFINE hs == job[w].handles
<1>1. job[w] \in Jobs /\ hs \in Seq(Handles)
  BY JobTypes
<1>2. /\ Slept(job[w]) \in Jobs /\ Fit(Slept(job[w])) /\ Plain(Slept(job[w]))
      /\ Slept(job[w]).handles = Tail(hs) /\ Slept(job[w]).log = <<>>
  BY <1>1, SleptFit DEF Landed
<1>3. hs # <<>>
  BY DEF Fit
<1>4. /\ Tail(hs) \in Seq(Handles) /\ Len(hs) \in Nat \ {0} /\ DOMAIN hs = 1 .. Len(hs)
      /\ DOMAIN Tail(hs) = 1 .. Len(hs) - 1 /\ \A i \in 1 .. Len(hs) - 1 : Tail(hs)[i] = hs[i + 1]
  BY <1>1, <1>3, TailSeq
<1>5. 1 \in DOMAIN hs
  BY <1>4, SMT
<1>6. From(w)[1] = hs[1].file /\ From(w)[1] \in Files
  BY <1>5, FromFile
<1>7. Elements(Tail(hs)) \subseteq Elements(hs)
  <2>1. \A i \in DOMAIN Tail(hs) : i + 1 \in DOMAIN hs /\ Tail(hs)[i] = hs[i + 1]
    BY <1>4, SMT
  <2> QED BY <2>1 DEF Elements
<1>8. ASSUME NEW f \in Files
      PROVE  /\ Cardinality(Used(job, f)) \in Nat /\ Cardinality(Used(job', f)) \in Nat
             /\ Cardinality(Used(job, f)) =
                  Cardinality(Used(job', f)) + (IF From(w)[1] = f THEN 1 ELSE 0)
  <2> DEFINE nj == Slept(job[w])
  <2>1. job \in [Workers -> Jobs] /\ job' = [job EXCEPT ![w] = nj] /\ nj \in Jobs
    BY <1>2 DEF TypeOK
  <2> HIDE DEF nj
  <2>2. /\ Cardinality(Used(job, f)) \in Nat /\ Cardinality(Used(job', f)) \in Nat
        /\ Cardinality(Index(job[w].handles, f)) \in Nat
        /\ Cardinality(Index(nj.handles, f)) \in Nat
        /\ Cardinality(Used(job', f)) + Cardinality(Index(job[w].handles, f)) =
             Cardinality(Used(job, f)) + Cardinality(Index(nj.handles, f))
    <3>1. job' \in [Workers -> Jobs] /\ job'[w] = nj /\ \A v \in Workers \ {w} : job'[v] = job[v]
      BY <2>1
    <3> QED BY <2>1, <3>1, UsedNow
  <2>3. Cardinality(Index(hs, f)) =
          Cardinality(Index(Tail(hs), f)) + (IF hs[1].file = f THEN 1 ELSE 0)
    BY <1>1, <1>3, IndexTail
  <2>4. Cardinality(Index(job[w].handles, f)) =
          Cardinality(Index(nj.handles, f)) + (IF From(w)[1] = f THEN 1 ELSE 0)
    BY <1>2, <1>6, <2>3 DEF nj
  <2> DEFINE u  == Cardinality(Used(job, f))
             u1 == Cardinality(Used(job', f))
             c  == Cardinality(Index(job[w].handles, f))
             c1 == Cardinality(Index(nj.handles, f))
             d  == IF From(w)[1] = f THEN 1 ELSE 0
  <2>5. u \in Nat /\ u1 \in Nat /\ c \in Nat /\ c1 \in Nat /\ u1 + c = u + c1 /\ c = c1 + d
    BY <2>2, <2>4
  <2>6. d \in Nat
    BY SMT
  <2> HIDE DEF u, u1, c, c1, d
  <2>7. u = u1 + d
    BY <2>5, <2>6, SMT
  <2> QED BY <2>2, <2>7 DEF u, u1, d
<1> QED BY <1>2, <1>3, <1>5, <1>6, <1>7, <1>8

LEMMA FlushKeeps ==
  ASSUME KeptInv, NEW w \in Workers, Flush(w)
  PROVE  KeptInv'
<1> DEFINE f == From(w)[1]
           nj == Slept(job[w])
<1>1. /\ job[w].at = "flush" /\ Landed(w) /\ dofn' = None /\ job' = [job EXCEPT ![w] = nj]
      /\ UNCHANGED <<df, files, data, number, undefined>>
  BY DEF Flush, At, CanEnter
<1>2. TypeOK /\ Fit(job[w]) /\ ControlInv /\ HeldInv /\ InUseStaysOpen
  BY JobFacts DEF KeptInv
<1>3. /\ nj \in Jobs /\ Fit(nj) /\ Plain(nj) /\ nj.log = <<>>
      /\ nj.handles = Tail(job[w].handles)
      /\ Elements(nj.handles) \subseteq Elements(job[w].handles) /\ f \in Files
      /\ \A g \in Files :
           /\ Cardinality(Used(job, g)) \in Nat /\ Cardinality(Used(job', g)) \in Nat
           /\ Cardinality(Used(job, g)) =
                Cardinality(Used(job', g)) + (IF f = g THEN 1 ELSE 0)
  BY <1>1, <1>2, SleptCounts DEF InClose
<1> HIDE DEF nj
<1>4. /\ job' \in [Workers -> Jobs] /\ job'[w] = nj
      /\ \A v \in Workers \ {w} : job'[v] = job[v]
  BY <1>1, <1>2, <1>3 DEF TypeOK
<1>5. \A v \in Workers \ {w} : job[v].at # "flush"
  BY <1>1, <1>2 DEF ControlInv
<1>6. TypeOK'
  BY <1>1, <1>2, <1>4 DEF TypeOK
<1>7. ControlInv'
  BY <1>2, <1>3, <1>4, <1>5 DEF ControlInv, Plain
<1>8. UsersCounted'
  <2> SUFFICES ASSUME NEW g \in Files
               PROVE  df'[g].users + Cardinality((Flushers(g))') =
                        df'[g].lost + Cardinality((Uses(g))')
    BY DEF UsersCounted
  <2>1. df[g].users + Cardinality(Flushers(g)) = df[g].lost + Cardinality(Used(job, g))
    BY <1>2, UsesUsed DEF InUseStaysOpen, UsersCounted
  <2>2. Flushers(g) = IF f = g THEN {w} ELSE {}
    BY <1>1, <1>5 DEF Flushers
  <2>3. (Flushers(g))' = {}
    BY <1>3, <1>4, <1>5 DEF Flushers, Plain
  <2>4. Cardinality({w}) = 1 /\ Cardinality({}) = 0
    BY FS_Singleton, FS_EmptySet
  <2>5. df[g].users \in Nat /\ df[g].lost \in Nat
    BY <1>2 DEF TypeOK, dFILE
  <2>6. (Uses(g))' = Used(job', g)
    BY UsesUsed
  <2>7. Cardinality(Flushers(g)) = IF f = g THEN 1 ELSE 0
    BY <2>2, <2>4
  <2>8. Cardinality((Flushers(g))') = 0
    BY <2>3, <2>4
  <2> DEFINE u  == Cardinality(Used(job, g))
             u1 == Cardinality(Used(job', g))
             d  == IF f = g THEN 1 ELSE 0
             x  == df[g].users
             y  == df[g].lost
  <2>9. u \in Nat /\ u1 \in Nat /\ d \in Nat /\ x \in Nat /\ y \in Nat /\ x + d = y + u /\ u = u1 + d
    BY <1>3, <2>1, <2>5, <2>7
  <2> HIDE DEF u, u1, d, x, y
  <2>10. x + 0 = y + u1
    BY <2>9, SMT
  <2> QED BY <1>1, <2>6, <2>8, <2>10 DEF x, y, u1
<1>9. ASSUME NEW v \in Workers, NEW h \in Elements(job'[v].handles)
      PROVE  h.file \in Open' /\ df'[h.file].gen = h.gen
  <2>1. h \in Elements(job[v].handles)
    BY <1>3, <1>4, <1>9
  <2>2. Open' = Open
    BY <1>1 DEF Open
  <2> QED BY <1>1, <1>2, <2>1, <2>2 DEF InUseStaysOpen
<1>10. HeldInv'
  <2>1. DataStep /\ DfStep(w)
    BY <1>1, <1>2, SameData, SameDf
  <2>2. KeptFor(w)
    BY <2>1, DfKept
  <2>3. Elements(nj.log) \subseteq Elements(job[w].log)
    <3>1. Elements(<<>>) = {}
      BY SMT DEF Elements
    <3> QED BY <1>3, <3>1
  <2> QED BY <1>1, <1>2, <1>3, <2>1, <2>2, <2>3, HeldQuiet DEF DataStep
<1> QED BY <1>6, <1>7, <1>8, <1>9, <1>10 DEF KeptInv, InUseStaysOpen

\* A table nobody uses is in nobody's handles.
LEMMA UnusedByAll ==
  ASSUME TypeOK, TypeOK', NEW f \in Files
  PROVE  /\ Cardinality(Used(job, f)) = 0 =>
              \A v \in Workers : \A h \in Elements(job[v].handles) : h.file # f
         /\ Cardinality(Used(job', f)) = 0 =>
              \A v \in Workers : \A h \in Elements(job'[v].handles) : h.file # f
<1>1. ASSUME NEW js \in [Workers -> Jobs], Cardinality(Used(js, f)) = 0
      PROVE  \A v \in Workers : \A h \in Elements(js[v].handles) : h.file # f
  BY <1>1, UsedNone DEF Elements
<1>2. job \in [Workers -> Jobs] /\ job' \in [Workers -> Jobs]
  BY DEF TypeOK
<1> QED BY <1>1, <1>2

\* dSleep: the table with one user, which gives it back, leaves the list.
LEMMA SleepReleases ==
  ASSUME KeptInv, NEW w \in Workers, Sleep(w), df[From(w)[1]].users = 1,
         From(w)[1] \notin Opable
  PROVE  KeptInv'
<1> DEFINE f == From(w)[1]
           nj == Slept(job[w])
           i == CHOOSE k \in DOMAIN files : files[k] = f
           n == [Closed EXCEPT !.gen = df[f].gen]
<1>1. /\ job[w].at = "sleep" /\ dofn = None /\ Landed(w) /\ df[f].users = 1
      /\ df' = [df EXCEPT ![f] = n] /\ files' = Without(i)
      /\ job' = [job EXCEPT ![w] = nj] /\ UNCHANGED <<dofn, data, number, undefined>>
  BY DEF Sleep, At
<1>2. TypeOK /\ Fit(job[w]) /\ ControlInv /\ HeldInv /\ InUseStaysOpen
  BY JobFacts DEF KeptInv
<1>3. /\ nj \in Jobs /\ Fit(nj) /\ Plain(nj) /\ nj.log = <<>>
      /\ nj.handles = Tail(job[w].handles) /\ 1 \in DOMAIN job[w].handles
      /\ job[w].handles[1].file = f
      /\ Elements(nj.handles) \subseteq Elements(job[w].handles) /\ f \in Files
      /\ \A g \in Files :
           /\ Cardinality(Used(job, g)) \in Nat /\ Cardinality(Used(job', g)) \in Nat
           /\ Cardinality(Used(job, g)) =
                Cardinality(Used(job', g)) + (IF f = g THEN 1 ELSE 0)
  BY <1>1, <1>2, SleptCounts DEF InClose
<1> HIDE DEF nj
<1>4. /\ job' \in [Workers -> Jobs] /\ job'[w] = nj
      /\ \A v \in Workers \ {w} : job'[v] = job[v]
  BY <1>1, <1>2, <1>3 DEF TypeOK
<1>5. \A v \in Workers : job[v].at # "flush"
  <2>1. \A v \in Workers : v # None
    BY SMT
  <2> QED BY <1>1, <1>2, <2>1 DEF ControlInv
<1>6. i \in DOMAIN files /\ files[i] = f
  <2>1. job[w].handles[1] \in Elements(job[w].handles)
    BY <1>3 DEF Elements
  <2>2. f \in Open
    BY <1>2, <1>3, <2>1 DEF InUseStaysOpen
  <2>3. \E k \in DOMAIN files : files[k] = f
    BY <2>2 DEF Open, Elements
  <2> QED BY <2>3
<1> HIDE DEF i
<1>7. /\ files \in Seq(Files) /\ Len(files) <= HandleNum
      /\ \A k, l \in DOMAIN files : files[k] = files[l] => k = l
  BY <1>2 DEF TypeOK
<1>8. /\ files' \in Seq(Files) /\ Len(files') <= HandleNum /\ Open' = Open \ {f}
      /\ \A k, l \in DOMAIN files' : files'[k] = files'[l] => k = l
  <2>1. /\ Without(i) \in Seq(Files) /\ Len(files) \in Nat /\ Len(Without(i)) = Len(files) - 1
    BY <1>6, <1>7, WithoutSeq
  <2>2. /\ Elements(Without(i)) = Open \ {files[i]}
        /\ \A k, l \in DOMAIN Without(i) : Without(i)[k] = Without(i)[l] => k = l
    BY <1>6, <1>7, WithoutElements
  <2>3. Len(Without(i)) <= HandleNum
    BY <1>7, <2>1, SMT
  <2> QED BY <1>1, <1>6, <2>1, <2>2, <2>3 DEF Open
<1>9. /\ df \in [Files -> dFILE] /\ df[f].gen \in Nat
  BY <1>2, <1>3 DEF TypeOK, dFILE
<1>10. /\ n \in dFILE /\ n.users = 0 /\ n.lost = 0 /\ n.gen = df[f].gen
       /\ n.owner = None /\ n.depth = 0
  BY <1>9, SMT DEF Closed, dFILE
<1> HIDE DEF n
<1>11. df'[f] = n /\ \A g \in Files \ {f} : df'[g] = df[g]
  BY <1>1, <1>3, <1>9
<1>12. TypeOK'
  <2>1. df' \in [Files -> dFILE]
    BY <1>1, <1>9, <1>10
  <2>2. \A g \in Files : df'[g].owner = None <=> df'[g].depth = 0
    BY <1>2, <1>10, <1>11 DEF TypeOK
  <2> QED BY <1>1, <1>2, <1>4, <1>8, <2>1, <2>2 DEF TypeOK
<1>13. ControlInv'
  BY <1>2, <1>3, <1>4, <1>5 DEF ControlInv, Plain
<1>14. Cardinality(Used(job', f)) = 0
  <2>1. /\ 1 = df[f].lost + Cardinality(Used(job, f)) /\ df[f].lost \in Nat
    BY <1>1, <1>3, CountsAtRest
  <2>2. /\ Cardinality(Used(job', f)) \in Nat /\ Cardinality(Used(job, f)) \in Nat
        /\ Cardinality(Used(job, f)) = Cardinality(Used(job', f)) + 1
    BY <1>3
  <2> QED BY <2>1, <2>2, SMT
<1>15. \A g \in Files : (Flushers(g))' = {}
  BY <1>3, <1>4, <1>5 DEF Flushers, Plain
<1>16. UsersCounted'
  <2> SUFFICES ASSUME NEW g \in Files
               PROVE  df'[g].users + Cardinality((Flushers(g))') =
                        df'[g].lost + Cardinality((Uses(g))')
    BY DEF UsersCounted
  <2>1. Cardinality((Flushers(g))') = 0 /\ (Uses(g))' = Used(job', g)
    BY <1>15, FS_EmptySet, UsesUsed
  <2>2. CASE g = f
    BY <1>10, <1>11, <1>14, <2>1, <2>2
  <2>3. CASE g # f
    <3>1. /\ df[g].users = df[g].lost + Cardinality(Used(job, g))
          /\ df[g].users \in Nat /\ df[g].lost \in Nat
      BY <1>1, CountsAtRest
    <3>2. Cardinality(Used(job, g)) = Cardinality(Used(job', g))
          /\ Cardinality(Used(job', g)) \in Nat
      <4>1. /\ Cardinality(Used(job, g)) =
                 Cardinality(Used(job', g)) + (IF f = g THEN 1 ELSE 0)
            /\ Cardinality(Used(job', g)) \in Nat
        BY <1>3
      <4> HIDE DEF f
      <4> QED BY <2>3, <4>1, SMT
    <3>3. df'[g] = df[g]
      BY <1>11, <2>3
    <3> QED BY <2>1, <3>1, <3>2, <3>3
  <2> QED BY <2>2, <2>3
<1>17. ASSUME NEW v \in Workers, NEW h \in Elements(job'[v].handles)
       PROVE  h.file \in Open' /\ df'[h.file].gen = h.gen
  <2>1. h \in Elements(job[v].handles)
    BY <1>3, <1>4, <1>17
  <2>2. h.file # f
    BY <1>2, <1>3, <1>12, <1>14, <1>17, UnusedByAll
  <2>3. h.file \in Files /\ h.file \in Open /\ df[h.file].gen = h.gen
    BY <1>2, <2>1, JobTypes DEF InUseStaysOpen, Handles
  <2> QED BY <1>8, <1>11, <2>2, <2>3
<1>18. HeldInv'
  <2>1. DataStep
    BY <1>1, <1>2, SameData
  <2>2. \A g \in Files, v \in Workers \ {w} : Has(v, g) => df'[g] = df[g]
    <3> SUFFICES ASSUME NEW v \in Workers \ {w}, Has(v, f) PROVE FALSE
      BY <1>11
    <3>1. PICK k \in DOMAIN job'[v].handles : job'[v].handles[k].file = f
      BY <1>4 DEF Has
    <3>2. job'[v].handles[k] \in Elements(job'[v].handles)
      BY DEF Elements
    <3> QED BY <1>2, <1>3, <1>12, <1>14, <3>1, <3>2, UnusedByAll
  <2>3. KeptFor(w)
    BY <2>1, <2>2 DEF KeptFor, DataStep
  <2>4. Elements(nj.log) \subseteq Elements(job[w].log)
    <3>1. Elements(<<>>) = {}
      BY SMT DEF Elements
    <3> QED BY <1>3, <3>1
  <2> QED BY <1>1, <1>2, <1>3, <2>1, <2>3, <2>4, HeldQuiet DEF DataStep
<1> QED BY <1>12, <1>13, <1>16, <1>17, <1>18 DEF KeptInv, InUseStaysOpen

\* The table with other users stays, and is flushed.
LEMMA SleepGoesOn ==
  ASSUME KeptInv, NEW w \in Workers, Sleep(w),
         ~(df[From(w)[1]].users = 1 /\ From(w)[1] \notin Opable)
  PROVE  KeptInv'
<1> DEFINE f == From(w)[1]
           nj == [job[w] EXCEPT !.at = "flush"]
           n == [df[f] EXCEPT !.users = @ - 1]
<1>1. /\ job[w].at = "sleep" /\ dofn = None /\ dofn' = w
      /\ df' = [df EXCEPT ![f] = n] /\ job' = [job EXCEPT ![w] = nj]
      /\ UNCHANGED <<files, data, number, undefined>>
  BY DEF Sleep, At
<1>2. /\ TypeOK /\ Fit(job[w]) /\ ControlInv /\ HeldInv /\ InUseStaysOpen /\ job[w] \in Jobs
      /\ job[w].handles \in Seq(Handles) /\ \A i \in DOMAIN job[w].handles : From(w)[i] \in Files
  BY JobFacts DEF KeptInv
<1>3. job[w].handles # <<>> /\ job[w].log = <<>>
  BY <1>1, <1>2 DEF Fit, InClose, InAct
<1>4. 1 \in DOMAIN job[w].handles
  BY <1>2, <1>3, TailSeq, SMT
<1>5. f \in Files /\ job[w].handles[1].file = f
  BY <1>2, <1>4 DEF From
<1>6. "flush" \in Ats
  BY DEF Ats, InClose
<1>7. nj \in Jobs
  BY <1>2, <1>6 DEF Jobs
<1>8. /\ nj.at = "flush" /\ nj.script = job[w].script /\ nj.handles = job[w].handles
      /\ nj.log = <<>>
  BY <1>2, <1>3, SMT DEF Jobs
<1> HIDE DEF nj
<1>9. Fit(nj)
  BY <1>1, <1>2, <1>3, <1>7, <1>8, CloseFit
<1>10. /\ job \in [Workers -> Jobs] /\ job' \in [Workers -> Jobs] /\ job'[w] = nj
       /\ \A v \in Workers \ {w} : job'[v] = job[v]
  BY <1>1, <1>2, <1>7 DEF TypeOK
<1>11. \A v \in Workers : job[v].at # "flush"
  <2>1. \A v \in Workers : v # None
    BY SMT
  <2> QED BY <1>1, <1>2, <2>1 DEF ControlInv
<1>12. df[f].users \in Nat \ {0}
  <2>1. /\ df[f].users = df[f].lost + Cardinality(Used(job, f))
        /\ df[f].users \in Nat /\ df[f].lost \in Nat /\ Cardinality(Used(job, f)) \in Nat
    BY <1>1, <1>5, CountsAtRest
  <2>2. Cardinality(Used(job, f)) # 0
    BY <1>4, <1>5, <1>10, UsedNone
  <2> QED BY <2>1, <2>2, SMT
<1>13. /\ df \in [Files -> dFILE] /\ df[f] \in dFILE
  BY <1>2, <1>5 DEF TypeOK
<1>14. /\ n \in dFILE /\ n.users = df[f].users - 1 /\ n.lost = df[f].lost
       /\ n.gen = df[f].gen /\ n.owner = df[f].owner /\ n.depth = df[f].depth
       /\ n.locks = df[f].locks
  <2>1. df[f].users - 1 \in Nat
    BY <1>12, SMT
  <2>2. n \in dFILE
    BY <1>13, <2>1 DEF dFILE
  <2> QED BY <1>13, <2>2, SMT DEF dFILE
<1> HIDE DEF n
<1>15. df'[f] = n /\ \A g \in Files \ {f} : df'[g] = df[g]
  BY <1>1, <1>5, <1>13
<1>16. \A g \in Files : /\ df'[g].gen = df[g].gen /\ df'[g].owner = df[g].owner
                        /\ df'[g].depth = df[g].depth /\ df'[g].locks = df[g].locks
                        /\ df'[g].lost = df[g].lost
                        /\ df'[g].users = IF g = f THEN df[g].users - 1 ELSE df[g].users
  BY <1>14, <1>15
<1>17. TypeOK'
  <2>1. df' \in [Files -> dFILE]
    BY <1>1, <1>13, <1>14
  <2>2. \A g \in Files : df'[g].owner = None <=> df'[g].depth = 0
    BY <1>2, <1>16, ZenonT(30) DEF TypeOK
  <2> QED BY <1>1, <1>2, <1>10, <2>1, <2>2 DEF TypeOK
<1>18. ControlInv'
  BY <1>1, <1>2, <1>9, <1>10, <1>11 DEF ControlInv
<1>19. UsersCounted'
  <2> SUFFICES ASSUME NEW g \in Files
               PROVE  df'[g].users + Cardinality((Flushers(g))') =
                        df'[g].lost + Cardinality((Uses(g))')
    BY DEF UsersCounted
  <2>1. (Uses(g))' = Used(job, g)
    <3>1. \A v \in Workers : job'[v].handles = job[v].handles
      BY <1>8, <1>10
    <3>2. Used(job', g) = Used(job, g)
      BY <3>1 DEF Used, Among
    <3> QED BY <3>2, UsesUsed
  <2>2. (From(w))'[1] = f
    BY <1>4, <1>5, <1>8, <1>10 DEF From
  <2>3. (Flushers(g))' = IF g = f THEN {w} ELSE {}
    BY <1>8, <1>10, <1>11, <2>2 DEF Flushers
  <2>4. Cardinality((Flushers(g))') = IF g = f THEN 1 ELSE 0
    BY <2>3, FS_EmptySet, FS_Singleton
  <2>5. /\ df[g].users = df[g].lost + Cardinality(Used(job, g)) /\ df[g].users \in Nat
        /\ df[g].lost \in Nat /\ Cardinality(Used(job, g)) \in Nat
    BY <1>1, CountsAtRest
  <2>6. CASE g = f
    <3>1. df'[g].users = df[g].users - 1 /\ Cardinality((Flushers(g))') = 1
      BY <1>16, <2>4, <2>6
    <3>2. (df[g].users - 1) + 1 = df[g].users
      BY <2>5, SMT
    <3> QED BY <1>16, <2>1, <2>5, <3>1, <3>2
  <2>7. CASE g # f
    <3>1. df'[g].users = df[g].users /\ Cardinality((Flushers(g))') = 0
      BY <1>16, <2>4, <2>7
    <3>2. df[g].users + 0 = df[g].users
      BY <2>5, SMT
    <3> QED BY <1>16, <2>1, <2>5, <3>1, <3>2
  <2> QED BY <2>6, <2>7
<1>20. ASSUME NEW v \in Workers, NEW h \in Elements(job'[v].handles)
       PROVE  h.file \in Open' /\ df'[h.file].gen = h.gen
  <2>1. h \in Elements(job[v].handles)
    BY <1>8, <1>10
  <2>2. h.file \in Files /\ h.file \in Open /\ df[h.file].gen = h.gen
    BY <1>2, <2>1, JobTypes DEF InUseStaysOpen, Handles
  <2>3. Open' = Open
    BY <1>1 DEF Open
  <2> QED BY <1>16, <2>2, <2>3
<1>21. HeldInv'
  <2>1. DataStep
    BY <1>1, <1>2, SameData
  <2>2. KeptFor(w)
    BY <1>16, <2>1 DEF KeptFor, DataStep
  <2>3. Elements(nj.log) = {}
    <3>1. Elements(<<>>) = {}
      BY SMT DEF Elements
    <3> QED BY <1>8, <3>1
  <2> QED BY <1>1, <1>2, <1>7, <1>8, <2>1, <2>2, <2>3, HeldStep DEF DataStep
<1> QED BY <1>17, <1>18, <1>19, <1>20, <1>21 DEF KeptInv, InUseStaysOpen
-----------------------------------------------------------------------------
(* dAwake                                                                   *)

LEMMA SmallestOf ==
  ASSUME NEW S \in SUBSET Nat, S # {}
  PROVE  \E i \in S : \A k \in S : i <= k
<1>1. PICK i \in S : \A k \in S : ~ (<<k, i>> \in OpToRel(<, Nat))
  BY NatLessThanWellFounded, WFMin
<1>2. ASSUME NEW k \in S PROVE i <= k
  <2>1. ~ (k < i)
    BY <1>1 DEF OpToRel
  <2>2. i \in Nat /\ k \in Nat
    OBVIOUS
  <2> QED BY <2>1, <2>2, SMT
<1> QED BY <1>2

\* The list of open tables after it has made room: only a table without users is dropped.
LEMMA RoomyList ==
  ASSUME TypeOK
  PROVE  /\ Roomy \in Seq(Files) /\ Len(Roomy) <= HandleNum
         /\ \A k, l \in DOMAIN Roomy : Roomy[k] = Roomy[l] => k = l
         /\ Elements(Roomy) \subseteq Open
         /\ \A g \in Open \ Elements(Roomy) : df[g].users < 1
<1>1. /\ files \in Seq(Files) /\ Len(files) <= HandleNum
      /\ \A k, l \in DOMAIN files : files[k] = files[l] => k = l
  BY DEF TypeOK
<1>2. CASE Len(files) < HandleNum \/ Unused = {}
  <2>1. Roomy = files
    BY <1>2 DEF Roomy
  <2> QED BY <1>1, <2>1 DEF Open
<1>3. CASE ~(Len(files) < HandleNum \/ Unused = {})
  <2> DEFINE i == CHOOSE k \in Unused : \A l \in Unused : k <= l
  <2>1. Unused \in SUBSET Nat /\ Unused # {}
    <3>1. DOMAIN files \subseteq Nat
      BY <1>1, SMT
    <3> QED BY <1>3, <3>1 DEF Unused
  <2>2. \E k \in Unused : \A l \in Unused : k <= l
    BY <2>1, SmallestOf
  <2>3. i \in Unused
    BY <2>2
  <2>4. Roomy = Without(i)
    BY <1>3 DEF Roomy
  <2> HIDE DEF i
  <2>5. i \in DOMAIN files /\ df[files[i]].users < 1
    BY <2>3 DEF Unused
  <2>6. /\ Without(i) \in Seq(Files) /\ Len(files) \in Nat /\ Len(Without(i)) = Len(files) - 1
    BY <1>1, <2>5, WithoutSeq
  <2>7. /\ Elements(Without(i)) = Open \ {files[i]}
        /\ \A k, l \in DOMAIN Without(i) : Without(i)[k] = Without(i)[l] => k = l
    BY <1>1, <2>5, WithoutElements
  <2>8. Len(Without(i)) <= HandleNum
    BY <1>1, <2>6, SMT
  <2> QED BY <2>4, <2>5, <2>6, <2>7, <2>8
<1> QED BY <1>2, <1>3

\* dAwake: the list with the table of the FROM at its end, if there is room.
LEMMA AwokenList ==
  ASSUME TypeOK, NEW f \in Files
  PROVE  /\ Awoken(f) \in Seq(Files) /\ Len(Awoken(f)) <= HandleNum
         /\ \A k, l \in DOMAIN Awoken(f) : Awoken(f)[k] = Awoken(f)[l] => k = l
         /\ Elements(Awoken(f)) \subseteq Open \cup {f}
         /\ \A g \in Open \ Elements(Awoken(f)) : df[g].users < 1
<1>1. /\ files \in Seq(Files) /\ Len(files) <= HandleNum
      /\ \A k, l \in DOMAIN files : files[k] = files[l] => k = l
  BY DEF TypeOK
<1>2. CASE f \in Open
  <2>1. Awoken(f) = files
    BY <1>2 DEF Awoken
  <2> QED BY <1>1, <2>1 DEF Open
<1>3. CASE f \notin Open /\ (f \in Missing \/ Len(Roomy) >= HandleNum)
  <2>1. Awoken(f) = Roomy
    BY <1>3 DEF Awoken
  <2> QED BY <2>1, RoomyList
<1>4. CASE f \notin Open /\ ~(f \in Missing \/ Len(Roomy) >= HandleNum)
  <2> DEFINE r == Roomy
  <2>1. Awoken(f) = Append(r, f)
    BY <1>4 DEF Awoken
  <2>2. /\ r \in Seq(Files) /\ \A k, l \in DOMAIN r : r[k] = r[l] => k = l
        /\ Elements(r) \subseteq Open /\ \A g \in Open \ Elements(r) : df[g].users < 1
        /\ ~(Len(r) >= HandleNum)
    BY <1>4, RoomyList
  <2> HIDE DEF r
  <2>3. /\ Append(r, f) \in Seq(Files) /\ Len(Append(r, f)) = Len(r) + 1
        /\ DOMAIN Append(r, f) = 1 .. Len(r) + 1
        /\ \A k \in 1 .. Len(r) : Append(r, f)[k] = r[k]
        /\ Append(r, f)[Len(r) + 1] = f
        /\ Elements(Append(r, f)) = Elements(r) \cup {f}
    BY <2>2, AppendSeq
  <2>4. Len(Append(r, f)) <= HandleNum
    <3>1. Len(r) \in Nat /\ HandleNum \in Nat
      BY <2>2, SMT
    <3> QED BY <2>2, <2>3, <3>1, SMT
  <2>5. \A k \in DOMAIN r : r[k] # f
    BY <1>4, <2>2 DEF Elements
  <2>6. DOMAIN r = 1 .. Len(r) /\ Len(r) \in Nat
    BY <2>2, SMT
  <2> DEFINE m == Len(r) + 1
             a == Append(r, f)
  <2>7. DOMAIN a = DOMAIN r \cup {m} /\ a[m] = f /\ \A k \in DOMAIN r : a[k] = r[k]
    BY <2>3, <2>6, SMT
  <2> HIDE DEF m, a
  <2>8. \A k, l \in DOMAIN a : a[k] = a[l] => k = l
    BY <2>2, <2>5, <2>7
  <2> QED BY <2>1, <2>2, <2>3, <2>4, <2>8 DEF a
<1> QED BY <1>2, <1>3, <1>4

\* What dAwake makes of the dFILEs: a table that somebody has keeps its own.
LEMMA WokenTables ==
  ASSUME KeptInv, dofn = None, NEW f \in Files, NEW g \in Files
  PROVE  LET n == (Users(f))[g]
             got == g = f /\ f \in Elements(Awoken(f))
         IN  /\ n \in dFILE /\ (n.owner = None <=> n.depth = 0)
             /\ n.users = n.lost + Cardinality(Used(job, g)) + (IF got THEN 1 ELSE 0)
             /\ Cardinality(Used(job, g)) # 0 =>
                  /\ g \in Elements(Awoken(f)) /\ n.gen = df[g].gen
                  /\ n.owner = df[g].owner /\ n.locks = df[g].locks
<1> DEFINE n == (Users(f))[g]
           A == Elements(Awoken(f))
           u == Cardinality(Used(job, g))
<1>1. TypeOK /\ InUseStaysOpen
  BY DEF KeptInv
<1>2. /\ df[g].users = df[g].lost + u /\ u \in Nat /\ df[g].lost \in Nat /\ df[g].users \in Nat
      /\ df[g].gen \in Nat /\ df[g] \in dFILE
  BY <1>1, CountsAtRest DEF TypeOK, dFILE
<1>3. u # 0 => g \in Open
  <2>1. ASSUME u # 0 PROVE g \in Open
    <3>0. PICK w \in Workers : \E i \in DOMAIN job[w].handles : job[w].handles[i].file = g
      BY <1>1, <2>1, UsedNone DEF TypeOK
    <3>1. PICK i \in DOMAIN job[w].handles : job[w].handles[i].file = g
      BY <3>0
    <3>2. job[w].handles[i] \in Elements(job[w].handles)
      BY DEF Elements
    <3> QED BY <1>1, <3>1, <3>2 DEF InUseStaysOpen
  <2> QED BY <2>1
<1>4. u # 0 => g \in A
  <2>1. \A h \in Open \ A : df[h].users < 1
    BY <1>1, AwokenList
  <2>2. u # 0 => ~(df[g].users < 1)
    BY <1>2, SMT
  <2> QED BY <1>3, <2>1, <2>2
<1> HIDE DEF u, A
<1>5. n = IF g = f /\ g \in A
          THEN IF g \in Open THEN [df[g] EXCEPT !.users = @ + 1]
               ELSE [Closed EXCEPT !.users = 1, !.gen = df[g].gen + 1]
          ELSE IF g \in A THEN df[g] ELSE [Closed EXCEPT !.gen = df[g].gen]
  BY DEF Users, A
<1> HIDE DEF n
<1>6. CASE g = f /\ g \in A /\ g \in Open
  <2>1. n = [df[g] EXCEPT !.users = @ + 1]
    BY <1>5, <1>6
  <2>2. df[g].users + 1 \in Nat /\ df[g].users + 1 = df[g].lost + u + 1
    BY <1>2, SMT
  <2>3. n \in dFILE
    BY <1>2, <2>1, <2>2 DEF dFILE
  <2>4. /\ n.users = df[g].users + 1 /\ n.lost = df[g].lost /\ n.gen = df[g].gen
        /\ n.owner = df[g].owner /\ n.depth = df[g].depth /\ n.locks = df[g].locks
    BY <1>2, <2>1, <2>3, SMT DEF dFILE
  <2>5. n.owner = None <=> n.depth = 0
    BY <1>1, <2>4 DEF TypeOK
  <2> QED BY <1>6, <2>2, <2>3, <2>4, <2>5 DEF n, A, u
<1>7. CASE g = f /\ g \in A /\ g \notin Open
  <2>1. n = [Closed EXCEPT !.users = 1, !.gen = df[g].gen + 1]
    BY <1>5, <1>7
  <2>2. u = 0 /\ df[g].gen + 1 \in Nat
    BY <1>2, <1>3, <1>7, SMT
  <2>3. /\ Closed \in dFILE /\ Closed.lost = 0 /\ Closed.owner = None /\ Closed.depth = 0
    BY SMT DEF Closed, dFILE
  <2>4. 1 \in Nat
    BY SMT
  <2>5. n \in dFILE
    BY <2>1, <2>2, <2>3, <2>4 DEF dFILE
  <2>6. /\ n.users = 1 /\ n.lost = 0 /\ n.owner = None /\ n.depth = 0
    BY <2>1, <2>3, <2>5, SMT DEF dFILE
  <2> QED BY <1>7, <2>2, <2>5, <2>6, SMT DEF n, A, u
<1>8. CASE g # f /\ g \in A
  <2>1. n = df[g]
    BY <1>5, <1>8
  <2>2. n.owner = None <=> n.depth = 0
    BY <1>1, <2>1 DEF TypeOK
  <2>3. df[g].lost + u + 0 = df[g].users
    BY <1>2, SMT
  <2> QED BY <1>2, <1>8, <2>1, <2>2, <2>3 DEF n, A, u
<1>9. CASE g \notin A
  <2>1. n = [Closed EXCEPT !.gen = df[g].gen]
    BY <1>5, <1>9
  <2>2. u = 0
    BY <1>4, <1>9
  <2>3. /\ n \in dFILE /\ n.users = 0 /\ n.lost = 0 /\ n.owner = None /\ n.depth = 0
    BY <1>2, <2>1, SMT DEF Closed, dFILE
  <2>4. ~(g = f /\ f \in A)
    BY <1>9
  <2> QED BY <2>2, <2>3, <2>4, SMT DEF n, A, u
<1> QED BY <1>6, <1>7, <1>8, <1>9

\* The handles of w once dAwake has opened f, or not.
Got(f) == f \in Elements(Awoken(f))
New(f) == [file |-> f, gen |-> Users(f)[f].gen]
Grown(w, f) == IF Got(f) THEN Append(job[w].handles, New(f)) ELSE job[w].handles

LEMMA GrownHandles ==
  ASSUME TypeOK, NEW w \in Workers, NEW f, New(f) \in Handles
  PROVE  /\ Grown(w, f) \in Seq(Handles)
         /\ \A h \in Elements(Grown(w, f)) :
              h \in Elements(job[w].handles) \/ (Got(f) /\ h = New(f))
         /\ \A g : Cardinality(Index(Grown(w, f), g)) =
              Cardinality(Index(job[w].handles, g)) + (IF g = f /\ Got(f) THEN 1 ELSE 0)
<1> DEFINE jh == job[w].handles
           hs == Grown(w, f)
           h1 == New(f)
<1>1. jh \in Seq(Handles) /\ \A g : Cardinality(Index(jh, g)) \in Nat
  BY JobTypes, IndexFinite
<1>2. h1 \in Handles /\ h1.file = f
  BY DEF New
<1>3. CASE Got(f)
  <2>1. hs = Append(jh, h1)
    BY <1>3 DEF Grown
  <2> HIDE DEF hs, jh, h1
  <2>2. hs \in Seq(Handles) /\ Elements(hs) = Elements(jh) \cup {h1}
    BY <1>1, <1>2, <2>1, AppendSeq
  <2>3. \A g : Cardinality(Index(hs, g)) = Cardinality(Index(jh, g)) + (IF h1.file = g THEN 1 ELSE 0)
    BY <1>1, <1>2, <2>1, IndexAppend
  <2> QED BY <1>2, <1>3, <2>2, <2>3 DEF hs, jh, h1
<1>4. CASE ~Got(f)
  <2>1. hs = jh
    BY <1>4 DEF Grown
  <2> HIDE DEF hs, jh
  <2>2. \A g : Cardinality(Index(jh, g)) + 0 = Cardinality(Index(jh, g))
    BY <1>1, SMT
  <2> QED BY <1>1, <1>4, <2>1, <2>2 DEF hs, jh
<1> QED BY <1>3, <1>4

\* What AwakeFrom leaves: nj has the handles it has grown, or has lost them to the counts.
LEMMA AwakenStep ==
  ASSUME KeptInv, dofn = None, NEW w \in Workers, NEW f \in Files, NEW nj \in Jobs,
         Fit(nj), Plain(nj), nj.log = <<>>, job[w].at # "flush",
         job' = [job EXCEPT ![w] = nj], files' = Awoken(f),
         UNCHANGED <<dofn, data, number, undefined>>,
         Elements(nj.handles) \subseteq Elements(Grown(w, f)),
         df' \in [Files -> dFILE],
         \A g \in Files :
           /\ df'[g].users = Users(f)[g].users /\ df'[g].gen = Users(f)[g].gen
           /\ df'[g].owner = Users(f)[g].owner /\ df'[g].depth = Users(f)[g].depth
           /\ df'[g].locks = Users(f)[g].locks
           /\ df'[g].lost + Cardinality(Index(nj.handles, g)) =
                Users(f)[g].lost + Cardinality(Index(Grown(w, f), g))
  PROVE  KeptInv'
<1> DEFINE woken == Users(f)
           jh == job[w].handles
           hs == Grown(w, f)
<1>1. TypeOK /\ ControlInv /\ HeldInv /\ InUseStaysOpen /\ jh \in Seq(Handles)
  BY JobFacts DEF KeptInv
<1>2. /\ job \in [Workers -> Jobs] /\ job' \in [Workers -> Jobs] /\ job'[w] = nj
      /\ \A v \in Workers \ {w} : job'[v] = job[v]
  BY <1>1 DEF TypeOK
<1>3. ASSUME NEW g \in Files
      PROVE  /\ woken[g] \in dFILE /\ (woken[g].owner = None <=> woken[g].depth = 0)
             /\ woken[g].users = woken[g].lost + Cardinality(Used(job, g))
                                   + (IF g = f /\ Got(f) THEN 1 ELSE 0)
             /\ Cardinality(Used(job, g)) # 0 =>
                  /\ g \in Elements(Awoken(f)) /\ woken[g].gen = df[g].gen
                  /\ woken[g].owner = df[g].owner /\ woken[g].locks = df[g].locks
  BY WokenTables DEF Got
<1>4. New(f) \in Handles
  <2>1. woken[f].gen \in Nat
    BY <1>3 DEF dFILE
  <2> QED BY <2>1 DEF New, Handles
<1>5. /\ \A h \in Elements(hs) : h \in Elements(jh) \/ (Got(f) /\ h = New(f))
      /\ \A g : Cardinality(Index(hs, g)) =
           Cardinality(Index(jh, g)) + (IF g = f /\ Got(f) THEN 1 ELSE 0)
  BY <1>1, <1>4, GrownHandles
<1> HIDE DEF woken, hs
<1>6. TypeOK'
  <2>1. /\ files' \in Seq(Files) /\ Len(files') <= HandleNum
        /\ \A k, l \in DOMAIN files' : files'[k] = files'[l] => k = l
    BY <1>1, AwokenList
  <2>2. \A g \in Files : df'[g].owner = None <=> df'[g].depth = 0
    BY <1>3 DEF woken
  <2> QED BY <1>1, <1>2, <2>1, <2>2 DEF TypeOK
<1>7. \A v \in Workers : job[v].at # "flush"
  <2>1. \A v \in Workers : v # None
    BY SMT
  <2> QED BY <1>1, <2>1 DEF ControlInv
<1>8. ControlInv'
  BY <1>1, <1>2, <1>7 DEF ControlInv, Plain
<1>9. UsersCounted'
  <2> SUFFICES ASSUME NEW g \in Files
               PROVE  df'[g].users + Cardinality((Flushers(g))') =
                        df'[g].lost + Cardinality((Uses(g))')
    BY DEF UsersCounted
  <2>1. Cardinality((Flushers(g))') = 0
    <3>1. (Flushers(g))' = {}
      BY <1>2, <1>7 DEF Flushers, Plain
    <3> QED BY <3>1, FS_EmptySet
  <2>2. (Uses(g))' = Used(job', g)
    BY UsesUsed
  <2> DEFINE u  == Cardinality(Used(job, g))
             u1 == Cardinality(Used(job', g))
             c  == Cardinality(Index(jh, g))
             c1 == Cardinality(Index(nj.handles, g))
             ch == Cardinality(Index(hs, g))
             d  == IF g = f /\ Got(f) THEN 1 ELSE 0
             x  == woken[g].users
             y  == woken[g].lost
             y1 == df'[g].lost
  <2>3. /\ u \in Nat /\ u1 \in Nat /\ c \in Nat /\ c1 \in Nat /\ u1 + c = u + c1
    BY <1>2, UsedNow
  <2>4. x = y + u + d /\ x \in Nat /\ y \in Nat
    BY <1>3 DEF dFILE
  <2>5. ch = c + d
    BY <1>5
  <2>6. y1 + c1 = y + ch /\ y1 \in Nat
    BY DEF dFILE, woken, hs
  <2>7. d \in Nat
    BY SMT
  <2>8. df'[g].users = x
    BY DEF woken
  <2> HIDE DEF u, u1, c, c1, ch, d, x, y, y1
  <2>9. x + 0 = y1 + u1
    BY <2>3, <2>4, <2>5, <2>6, <2>7, SMT
  <2> QED BY <2>1, <2>2, <2>8, <2>9 DEF u1, y1
<1>10. ASSUME NEW v \in Workers, NEW h \in Elements(job[v].handles)
       PROVE  /\ h.file \in Files /\ h.file \in Open' /\ df'[h.file].gen = h.gen
              /\ df'[h.file].owner = df[h.file].owner /\ df'[h.file].locks = df[h.file].locks
  <2>1. h.file \in Files /\ df[h.file].gen = h.gen
    BY <1>1, JobTypes DEF Handles, InUseStaysOpen
  <2>2. Cardinality(Used(job, h.file)) # 0
    <3>1. \E k \in DOMAIN job[v].handles : job[v].handles[k].file = h.file
      BY DEF Elements
    <3> QED BY <1>2, <3>1, UsedNone
  <2>3. /\ h.file \in Elements(Awoken(f)) /\ woken[h.file].gen = h.gen
        /\ woken[h.file].owner = df[h.file].owner /\ woken[h.file].locks = df[h.file].locks
    BY <1>3, <2>1, <2>2
  <2> QED BY <2>1, <2>3 DEF woken, Open
<1>11. ASSUME NEW v \in Workers, NEW h \in Elements(job'[v].handles)
       PROVE  h.file \in Open' /\ df'[h.file].gen = h.gen
  <2>1. CASE \E x \in Workers : h \in Elements(job[x].handles)
    BY <1>10, <2>1
  <2>2. CASE Got(f) /\ h = New(f)
    <3>1. h.file = f /\ h.gen = woken[f].gen
      BY <2>2 DEF New, woken
    <3>2. f \in Open'
      BY <2>2 DEF Got, Open
    <3>3. df'[f].gen = woken[f].gen
      BY DEF woken
    <3> QED BY <3>1, <3>2, <3>3
  <2> QED BY <1>2, <1>5, <1>11, <2>1, <2>2 DEF hs
<1>12. HeldInv'
  <2>1. DataStep
    BY <1>1, SameData
  <2>2. ASSUME NEW g \in Files, NEW v \in Workers \ {w}, Has(v, g)
        PROVE  df'[g].owner = df[g].owner /\ df'[g].locks = df[g].locks
    <3>1. \E h \in Elements(job[v].handles) : h.file = g
      BY <2>2 DEF Has, Elements
    <3> QED BY <1>10, <3>1
  <2>3. KeptFor(w)
    BY <2>1, <2>2 DEF KeptFor, DataStep
  <2>4. Elements(nj.log) \subseteq Elements(job[w].log)
    <3>1. Elements(<<>>) = {}
      BY SMT DEF Elements
    <3> QED BY <3>1
  <2> QED BY <1>1, <2>1, <2>3, <2>4, HeldQuiet DEF DataStep
<1> QED BY <1>6, <1>8, <1>9, <1>11, <1>12 DEF KeptInv, InUseStaysOpen

LEMMA AwakeFromKeeps ==
  ASSUME KeptInv, NEW w \in Workers, AwakeFrom(w)
  PROVE  KeptInv'
<1> DEFINE j == job[w]
           f == j.script.from[Len(j.handles) + 1]
           woken == Users(f)
           hs == Grown(w, f)
           k == [j EXCEPT !.handles = hs]
           locked == j.script.exclusive /\ j.handles # <<>>
           lost(g) == Cardinality({i \in DOMAIN hs : hs[i].file = g})
           up == IF j.script.exclusive THEN [k EXCEPT !.at = "lock"] ELSE Ready(k)
           down == Idle(j.kept \/ locked)
<1>1. /\ j.at = "from" /\ dofn = None /\ files' = Awoken(f)
      /\ UNCHANGED <<dofn, data, number, undefined>>
      /\ \/ /\ Got(f) /\ df' = woken /\ job' = [job EXCEPT ![w] = up]
         \/ /\ df' = [g \in Files |-> [woken[g] EXCEPT !.lost = @ + lost(g)]]
            /\ job' = [job EXCEPT ![w] = down]
  BY DEF AwakeFrom, At, Got, Grown, New
<1>2. /\ TypeOK /\ Fit(j) /\ j \in Jobs /\ j.handles \in Seq(Handles) /\ Len(j.handles) \in Nat
      /\ DOMAIN j.handles = 1 .. Len(j.handles)
      /\ j.script \in Scripts /\ Len(j.script.from) \in Nat \ {0}
  BY <1>1, JobFacts
<1>3. /\ Len(j.handles) < Len(j.script.from) /\ j.k = 1 /\ Matched(j) /\ j.log = <<>>
  BY <1>1, <1>2 DEF Fit, InAct, InClose, Matched
<1>4. f \in Files
  <2>1. j.script.from \in Seq(Files) /\ DOMAIN j.script.from = 1 .. Len(j.script.from)
    BY <1>2, ScriptFacts, SMT
  <2> DEFINE m == Len(j.handles)
             n == Len(j.script.from)
  <2>2. m \in Nat /\ n \in Nat /\ m < n
    BY <1>2, <1>3
  <2>3. DOMAIN j.script.from = 1 .. n /\ f = j.script.from[m + 1]
    BY <2>1
  <2> HIDE DEF m, n, f
  <2>4. m + 1 \in 1 .. n
    BY <2>2, SMT
  <2>5. \A i \in 1 .. n : j.script.from[i] \in Files
    <3>1. \A s \in Seq(Files) : \A i \in DOMAIN s : s[i] \in Files
      BY SMT
    <3> QED BY <2>1, <2>3, <3>1
  <2> QED BY <2>3, <2>4, <2>5
<1>5. \A g \in Files : woken[g] \in dFILE
  BY <1>1, <1>4, WokenTables
<1>6. New(f) \in Handles
  <2>1. woken[f].gen \in Nat
    BY <1>4, <1>5 DEF dFILE
  <2> QED BY <1>4, <2>1 DEF New, Handles
<1>7. hs \in Seq(Handles)
  BY <1>2, <1>6, GrownHandles
<1>8. CASE Got(f) /\ df' = woken /\ job' = [job EXCEPT ![w] = up]
  <2>1. hs = Append(j.handles, New(f)) /\ New(f).file = f
    BY <1>8 DEF Grown, New
  <2>2. /\ Len(hs) = Len(j.handles) + 1 /\ DOMAIN hs = 1 .. Len(j.handles) + 1
        /\ \A i \in 1 .. Len(j.handles) : hs[i] = j.handles[i]
        /\ hs[Len(j.handles) + 1] = New(f)
    <3> DEFINE jh == j.handles
               h == New(f)
    <3>1. jh \in Seq(Handles) /\ h \in Handles /\ hs = Append(jh, h)
      BY <1>2, <1>6, <2>1
    <3> HIDE DEF jh, h, hs
    <3>2. /\ Len(hs) = Len(jh) + 1 /\ DOMAIN hs = 1 .. Len(jh) + 1
          /\ \A i \in 1 .. Len(jh) : hs[i] = jh[i]
          /\ hs[Len(jh) + 1] = h
      BY <3>1, AppendSeq
    <3> QED BY <3>2 DEF jh, h
  <2> HIDE DEF hs
  <2>3. k \in Jobs
    BY <1>2, <1>7 DEF Jobs
  <2>4. /\ k.script = j.script /\ k.k = 1 /\ k.log = <<>> /\ k.handles = hs
    BY <1>2, <1>3, SMT DEF Jobs
  <2> HIDE DEF k
  <2>5. Len(k.handles) \in 1 .. Len(k.script.from)
    <3> DEFINE m == Len(j.handles)
               n == Len(j.script.from)
    <3>1. m \in Nat /\ n \in Nat /\ m < n
      BY <1>2, <1>3
    <3>2. Len(k.handles) = m + 1 /\ Len(k.script.from) = n
      BY <2>2, <2>4
    <3> HIDE DEF m, n
    <3>3. m + 1 \in 1 .. n
      BY <3>1, SMT
    <3> QED BY <3>2, <3>3
  <2>6. Matched(k)
    <3> SUFFICES ASSUME NEW i \in DOMAIN k.handles
                 PROVE  k.handles[i].file = k.script.from[i]
      BY DEF Matched
    <3>1. CASE i = Len(j.handles) + 1
      BY <2>1, <2>2, <2>4, <3>1
    <3>2. CASE i # Len(j.handles) + 1
      <4>1. i \in DOMAIN j.handles
        BY <1>2, <2>2, <2>4, <3>2, SMT
      <4> QED BY <1>2, <1>3, <2>2, <2>4, <4>1 DEF Matched
    <3> QED BY <3>1, <3>2
  <2>7. up \in Jobs /\ Fit(up) /\ Plain(up) /\ up.log = <<>> /\ up.handles = hs
    <3>1. CASE j.script.exclusive
      <4> DEFINE l == [k EXCEPT !.at = "lock"]
      <4>1. "lock" \in Ats
        BY DEF Ats
      <4>2. l \in Jobs
        BY <2>3, <4>1 DEF Jobs
      <4>3. /\ l.at = "lock" /\ l.script = k.script /\ l.k = 1 /\ l.log = <<>> /\ l.handles = hs
        BY <2>3, <2>4, SMT DEF Jobs
      <4>4. up = l
        BY <3>1
      <4> HIDE DEF l, up
      <4>5. Fit(l)
        BY <1>2, <2>4, <2>5, <2>6, <4>3 DEF Fit, Matched, InAct, InCommit, InClose
      <4>6. Plain(l)
        BY <4>3 DEF Plain
      <4> QED BY <4>2, <4>3, <4>4, <4>5, <4>6
    <3>2. CASE ~j.script.exclusive
      <4>1. up = Ready(k)
        BY <3>2
      <4>2. k.script \in Scripts
        BY <1>2, <2>4
      <4> HIDE DEF up
      <4> QED BY <2>3, <2>4, <2>5, <2>6, <4>1, <4>2, ReadyFit
    <3> QED BY <3>1, <3>2
  <2> HIDE DEF up
  <2>8. df' \in [Files -> dFILE]
    <3>1. df' = [g \in Files |-> woken[g]]
      BY <1>8 DEF Users
    <3> HIDE DEF woken
    <3> QED BY <1>5, <3>1
  <2>9. Elements(up.handles) \subseteq Elements(hs)
    BY <2>7
  <2>10. \A g \in Files :
           /\ df'[g].users = woken[g].users /\ df'[g].gen = woken[g].gen
           /\ df'[g].owner = woken[g].owner /\ df'[g].depth = woken[g].depth
           /\ df'[g].locks = woken[g].locks
           /\ df'[g].lost + Cardinality(Index(up.handles, g)) =
                woken[g].lost + Cardinality(Index(hs, g))
    BY <1>8, <2>7
  <2>11. job[w].at # "flush"
    BY <1>1
  <2> HIDE DEF woken
  <2>12. /\ files' = Awoken(f) /\ job' = [job EXCEPT ![w] = up]
         /\ UNCHANGED <<dofn, data, number, undefined>>
    BY <1>1, <1>8
  <2> QED BY <1>1, <1>4, <2>7, <2>8, <2>9, <2>10, <2>11, <2>12, AwakenStep DEF hs, woken
<1>9. CASE /\ df' = [g \in Files |-> [woken[g] EXCEPT !.lost = @ + lost(g)]]
           /\ job' = [job EXCEPT ![w] = down]
  <2> HIDE DEF hs, woken
  <2>1. (j.kept \/ locked) \in BOOLEAN
    BY <1>2, ScriptFacts DEF Jobs
  <2>2. /\ down \in Jobs /\ Fit(down) /\ Plain(down) /\ down.log = <<>> /\ down.handles = <<>>
    BY <2>1, IdleFit
  <2> HIDE DEF down
  <2>3. ASSUME NEW g \in Files
        PROVE  /\ df'[g] \in dFILE
               /\ df'[g].users = woken[g].users /\ df'[g].gen = woken[g].gen
               /\ df'[g].owner = woken[g].owner /\ df'[g].depth = woken[g].depth
               /\ df'[g].locks = woken[g].locks
               /\ df'[g].lost + Cardinality(Index(<<>>, g)) =
                    woken[g].lost + Cardinality(Index(hs, g))
    <3> DEFINE n == woken[g]
               m == [n EXCEPT !.lost = @ + lost(g)]
    <3>1. n \in dFILE /\ n.lost \in Nat
      BY <1>5 DEF dFILE
    <3>2. lost(g) = Cardinality(Index(hs, g)) /\ lost(g) \in Nat
      BY <1>7, IndexFinite DEF Index
    <3>3. df'[g] = m
      BY <1>9
    <3> HIDE DEF n, lost
    <3>4. n.lost + lost(g) \in Nat
      BY <3>1, <3>2, SMT
    <3>5. m \in dFILE
      BY <3>1, <3>4 DEF dFILE
    <3>6. /\ m.users = n.users /\ m.gen = n.gen /\ m.owner = n.owner /\ m.depth = n.depth
          /\ m.locks = n.locks /\ m.lost = n.lost + lost(g)
      BY <3>1, SMT DEF dFILE
    <3>7. Cardinality(Index(<<>>, g)) = 0
      <4>1. DOMAIN <<>> = {}
        BY SMT
      <4>2. Index(<<>>, g) = {}
        BY <4>1 DEF Index
      <4> QED BY <4>2, FS_EmptySet
    <3> HIDE DEF m
    <3>8. m.lost + 0 = m.lost
      BY <3>1, <3>2, <3>6, SMT
    <3> QED BY <3>2, <3>3, <3>5, <3>6, <3>7, <3>8 DEF n
  <2>4. df' \in [Files -> dFILE]
    BY <1>9, <2>3
  <2>5. Elements(down.handles) \subseteq Elements(hs)
    <3>1. Elements(<<>>) = {}
      BY SMT DEF Elements
    <3> QED BY <2>2, <3>1
  <2>6. job[w].at # "flush"
    BY <1>1
  <2>7. \A g \in Files :
          /\ df'[g].users = woken[g].users /\ df'[g].gen = woken[g].gen
          /\ df'[g].owner = woken[g].owner /\ df'[g].depth = woken[g].depth
          /\ df'[g].locks = woken[g].locks
          /\ df'[g].lost + Cardinality(Index(down.handles, g)) =
               woken[g].lost + Cardinality(Index(hs, g))
    BY <2>2, <2>3
  <2> QED BY <1>1, <1>4, <1>9, <2>2, <2>4, <2>5, <2>6, <2>7, AwakenStep DEF hs, woken
<1> QED BY <1>1, <1>8, <1>9

-----------------------------------------------------------------------------
(* The theorems                                                             *)

LEMMA InitTables == Init => KeptInv
<1> SUFFICES ASSUME Init PROVE KeptInv
  OBVIOUS
<1>1. /\ Idle(FALSE) \in Jobs /\ Fit(Idle(FALSE)) /\ Plain(Idle(FALSE))
      /\ Idle(FALSE).handles = <<>> /\ Idle(FALSE).log = <<>>
  BY IdleFit
<1>2. /\ df = [f \in Files |-> Closed] /\ files = <<>> /\ dofn = None
      /\ job = [w \in Workers |-> Idle(FALSE)] /\ number = 0 /\ undefined = FALSE
      /\ data = [f \in Files |-> [r \in 1 .. RecNum[f] |-> 0]]
  BY DEF Init
<1>3. /\ Closed \in dFILE /\ Closed.users = 0 /\ Closed.lost = 0 /\ Closed.owner = None
      /\ Closed.depth = 0
  BY SMT DEF Closed, dFILE
<1>4. \A w \in Workers : job[w] = Idle(FALSE)
  BY <1>2
<1>5. DOMAIN <<>> = {} /\ <<>> \in Seq(Files) /\ Len(<<>>) = 0 /\ Elements(<<>>) = {}
  BY SMT DEF Elements
<1>6. ASSUME NEW f \in Files
      PROVE  data[f] \in Seq(0 .. MaxScripts) /\ RecNum[f] <= Len(data[f])
  <2> DEFINE n == RecNum[f]
             d == [r \in 1 .. n |-> 0]
  <2>1. n \in Nat
    OBVIOUS
  <2>2. 0 \in 0 .. MaxScripts
    BY SMT
  <2>3. data[f] = d
    BY <1>2
  <2> HIDE DEF n
  <2>4. d \in [1 .. n -> 0 .. MaxScripts]
    BY <2>2
  <2> HIDE DEF d
  <2>5. d \in Seq(0 .. MaxScripts) /\ Len(d) = n
    BY <2>1, <2>4, FunctionSeq
  <2>6. n <= n
    BY <2>1, SMT
  <2> QED BY <2>3, <2>5, <2>6 DEF n
<1>7. TypeOK
  <2>1. df \in [Files -> dFILE] /\ job \in [Workers -> Jobs]
    BY <1>1, <1>2, <1>3
  <2>2. data \in [Files -> Seq(0 .. MaxScripts)]
    BY <1>2, <1>6
  <2>3. 0 \in 0 .. MaxScripts /\ Len(<<>>) <= HandleNum
    BY SMT
  <2> QED BY <1>2, <1>3, <1>5, <2>1, <2>2, <2>3 DEF TypeOK
<1>8. ControlInv
  BY <1>1, <1>4 DEF ControlInv, Plain
<1>9. InUseStaysOpen
  <2>1. ASSUME NEW f \in Files
        PROVE  df[f].users + Cardinality(Flushers(f)) = df[f].lost + Cardinality(Uses(f))
    <3>1. Flushers(f) = {}
      BY <1>1, <1>4 DEF Flushers, Plain
    <3>2. Cardinality(Used(job, f)) = 0
      BY <1>1, <1>4, <1>5, <1>7, UsedNone DEF TypeOK
    <3>3. df[f].users = 0 /\ df[f].lost = 0
      BY <1>2, <1>3
    <3> QED BY <3>1, <3>2, <3>3, FS_EmptySet, UsesUsed
  <2> QED BY <1>1, <1>4, <1>5, <2>1 DEF InUseStaysOpen, UsersCounted
<1>10. HeldInv
  BY <1>1, <1>4, <1>5, <1>6 DEF HeldInv, Plain
<1> QED BY <1>7, <1>8, <1>9, <1>10 DEF KeptInv

LEMMA StepTables == KeptInv /\ [Next]_vars => KeptInv'
<1> SUFFICES ASSUME KeptInv, [Next]_vars PROVE KeptInv'
  OBVIOUS
<1>1. CASE UNCHANGED vars
  <2>1. /\ df' = df /\ files' = files /\ dofn' = dofn /\ job' = job /\ data' = data
        /\ number' = number /\ undefined' = undefined
    BY <1>1 DEF vars
  <2>2. TypeOK'
    BY <2>1 DEF KeptInv, TypeOK
  <2>3. ControlInv'
    BY <2>1 DEF KeptInv, ControlInv
  <2>4. \A f \in Files : (Flushers(f))' = Flushers(f) /\ (Uses(f))' = Uses(f)
    BY <2>1 DEF Flushers, Uses, From
  <2>5. InUseStaysOpen'
    BY <2>1, <2>4 DEF KeptInv, InUseStaysOpen, UsersCounted, Open
  <2>6. HeldInv'
    <3>1. \A v \in Workers : (Table(v))' = Table(v) /\ (From(v))' = From(v)
      BY <2>1 DEF Table, Act, From
    <3> QED BY <2>1, <3>1 DEF KeptInv, HeldInv
  <2> QED BY <2>2, <2>3, <2>5, <2>6 DEF KeptInv
<1>2. ASSUME NEW w \in Workers, Step(w) PROVE KeptInv'
  <2>1. CASE AwakeFrom(w)
    BY <2>1, AwakeFromKeeps
  <2>2. CASE LockFrom(w)
    BY <2>2, LockFromKeeps
  <2>3. CASE Read(w)
    BY <2>3, ReadKeeps
  <2>4. CASE CalRecLater(w)
    BY <2>4, CalRecLaterKeeps
  <2>5. CASE CalRecNow(w)
    BY <2>5, CalRecNowKeeps
  <2>6. CASE ActFails(w)
    BY <2>6, ActFailsKeeps
  <2>7. CASE AppRecLock(w)
    BY <2>7, AppRecLockKeeps
  <2>8. CASE AppRecPut(w)
    BY <2>8, AppRecPutKeeps
  <2>9. CASE AppRecUnLock(w)
    BY <2>9, AppRecUnLockKeeps
  <2>10. CASE TryLock(w)
    BY <2>10, TryLockKeeps
  <2>11. CASE TryEnter(w)
    BY <2>11, TryEnterKeeps
  <2>12. CASE Retreat(w)
    BY <2>12, RetreatKeeps
  <2>13. CASE WriteLog(w)
    BY <2>13, WriteLogKeeps
  <2>14. CASE UnLockAll(w)
    BY <2>14, UnLockAllKeeps
  <2>15. CASE FreeRecLock(w)
    BY <2>15, FreeRecLockKeeps
  <2>16. CASE CloseTarget(w)
    BY <2>16, CloseTargetKeeps
  <2>17. CASE CloseFrom(w)
    BY <2>17, CloseFromKeeps
  <2>18. CASE Sleep(w)
    BY <2>18, SleepReleases, SleepGoesOn
  <2>19. CASE Flush(w)
    BY <2>19, FlushKeeps
  <2>20. CASE AppRecFails(w)
    BY <2>20, AppRecFailsKeeps
  <2> QED
    BY <1>2, <2>1, <2>2, <2>3, <2>4, <2>5, <2>6, <2>7, <2>8, <2>9, <2>10, <2>11, <2>12,
       <2>13, <2>14, <2>15, <2>16, <2>17, <2>18, <2>19, <2>20 DEF Step
<1>3. CASE Next
  BY <1>2, <1>3, BeginKeeps, LandKeeps DEF Next
<1> QED BY <1>1, <1>3

(* In every state that scripts can bring about, the variables have their    *)
(* types, each job is at a point of its script, the tables in use are those *)
(* opened for it (dAwake, dSleep), and what its log will write is covered   *)
(* (toLockRec, apprec).                                                     *)
THEOREM KeptCorrect == Spec => []KeptInv
<1>1. Init => KeptInv
  BY InitTables
<1>2. KeptInv /\ [Next]_vars => KeptInv'
  BY StepTables
<1> QED BY <1>1, <1>2, PTL DEF Spec

(* Every variable always holds a value of its type.                         *)
THEOREM TablesTypeCorrect == Spec => []TypeOK
<1>1. KeptInv => TypeOK
  BY DEF KeptInv
<1> QED BY <1>1, KeptCorrect, PTL

(* dAwake never evicts a table that a script works on, dSleep of another    *)
(* script never releases it: however many tables, scripts and threads there *)
(* are, the count of its users is right, also after FROMs that failed.      *)
THEOREM InUseAlwaysOpen == Spec => []InUseStaysOpen
<1>1. KeptInv => InUseStaysOpen
  BY DEF KeptInv
<1> QED BY <1>1, KeptCorrect, PTL

(* Two scripts with UPDATE that are about to write the same record have     *)
(* been given different record locks for it, or one runs as thread 0        *)
(* (toLockRec, freeRecLock, apprec).                                        *)
THEOREM RecordsHeld == Spec => []RecordHeld
<1>1. KeptInv => RecordHeld
  <2> SUFFICES ASSUME KeptInv, NEW v \in Workers \ {0}, NEW w \in Workers \ {0},
                      NEW d \in Elements(job[v].log), NEW e \in Elements(job[w].log),
                      v # w, d.file = e.file, d.rec = e.rec, d.slot = e.slot
               PROVE  FALSE
    BY DEF RecordHeld
  <2>1. CASE d.slot = None
    <3>1. \A u \in Workers : u # v =>
            \A x \in Elements(job[u].log) :
              x.slot = None /\ x.file = d.file => x.rec # d.rec
      BY <2>1 DEF KeptInv, HeldInv
    <3>2. w # v /\ e.slot = None /\ e.file = d.file /\ e.rec = d.rec
      BY <2>1
    <3> QED BY <3>1, <3>2
  <2>2. CASE d.slot # None
    <3>1. df[d.file].locks[d.slot] = v /\ df[e.file].locks[e.slot] = w
      BY <2>2 DEF KeptInv, HeldInv
    <3> QED BY <3>1
  <2> QED BY <2>1, <2>2
<1> QED BY <1>1, KeptCorrect, PTL
====
