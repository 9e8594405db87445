------------------------ MODULE RequestQueueProofs ------------------------
(***************************************************************************)
(* Theorems about RequestQueue for any number of agents, slots and records *)
(* of RequestSpace.                                                        *)
(*                                                                         *)
(* NoOverrun is not inductive.  The argument: an agent that sleeps is      *)
(* woken by one event, and an event is set once per answered request, so   *)
(* the requests still in the ring never outnumber the sleepers             *)
(* (WakeupsCovered), who each hold a unit of hResSemaphore                 *)
(* (ResourcesConserved).  An agent that fills a slot holds a further unit, *)
(* so at most N - 1 requests are in the ring, and they lie in the          *)
(* consecutive slots between the two pointers (RingConsistent).            *)
(*                                                                         *)
(* SpaceNotShared needs to know that the scheduler's record is no service  *)
(* thread's (CurrentIsOwn), which the scan ensures because a service       *)
(* thread's record keeps its flag.  ScanSucceeds needs the count: a unit   *)
(* of hSemAR in the scheduler's hands is a record whose flag is clear.     *)
(***************************************************************************)
EXTENDS RequestQueue, FiniteSetTheorems, TLAPS

USE QueueAssumption

-----------------------------------------------------------------------------
(* Arithmetic of the ring: sums stay below 2 * N, where % is a subtraction. *)

LEMMA WrapSum ==
  ASSUME NEW x \in 0 .. 2 * N - 1
  PROVE  x % N = IF x < N THEN x ELSE x - N
<1>1. CASE x < N
  BY <1>1, SMT
<1>2. CASE x >= N
  BY <1>2, SMT
<1> QED BY <1>1, <1>2, SMT

LEMMA SuccType == ASSUME NEW i \in Slots PROVE Succ(i) \in Slots
BY SMT DEF Slots, Succ

LEMMA SuccWrap ==
  ASSUME NEW i \in Slots
  PROVE  Succ(i) = IF i + 1 < N THEN i + 1 ELSE 0
<1>1. i + 1 \in 0 .. 2 * N - 1
  BY SMT DEF Slots
<1>2. (i + 1) % N = IF i + 1 < N THEN i + 1 ELSE (i + 1) - N
  BY <1>1, WrapSum
<1> QED BY <1>2, SMT DEF Slots, Succ

\* A slot k places past o, and one more; and the same slot seen from Succ(o).
LEMMA RingForward ==
  ASSUME NEW o \in Slots, NEW k \in 0 .. N - 1
  PROVE  (o + k) % N \in Slots /\ Succ((o + k) % N) = (o + k + 1) % N
<1>1. o + k \in 0 .. 2 * N - 1 /\ o + k + 1 \in 0 .. 2 * N - 1
  BY SMT DEF Slots
<1>2. (o + k) % N = IF o + k < N THEN o + k ELSE (o + k) - N
  BY <1>1, WrapSum
<1>3. (o + k + 1) % N = IF o + k + 1 < N THEN o + k + 1 ELSE (o + k + 1) - N
  BY <1>1, WrapSum
<1>4. (o + k) % N \in Slots
  BY <1>2, SMT DEF Slots
<1>5. Succ((o + k) % N) = IF ((o + k) % N) + 1 < N THEN ((o + k) % N) + 1 ELSE 0
  BY <1>4, SuccWrap
<1> QED BY <1>2, <1>3, <1>4, <1>5, SMT DEF Slots

LEMMA RingShift ==
  ASSUME NEW o \in Slots, NEW k \in 1 .. N
  PROVE  (Succ(o) + (k - 1)) % N = (o + k) % N
<1>1. Succ(o) = IF o + 1 < N THEN o + 1 ELSE 0
  BY SuccWrap
<1>2. o + k \in 0 .. 2 * N - 1 /\ Succ(o) + (k - 1) \in 0 .. 2 * N - 1
  BY <1>1, SMT DEF Slots
<1>3. (o + k) % N = IF o + k < N THEN o + k ELSE (o + k) - N
  BY <1>2, WrapSum
<1>4. (Succ(o) + (k - 1)) % N = IF Succ(o) + (k - 1) < N THEN Succ(o) + (k - 1)
                                ELSE (Succ(o) + (k - 1)) - N
  BY <1>2, WrapSum
<1> QED BY <1>1, <1>3, <1>4, SMT DEF Slots

\* Slots less than N apart are different, and so is the one before o.
LEMMA RingDistinct ==
  ASSUME NEW o \in Slots, NEW j \in Nat, NEW k \in 0 .. N - 1, j < k
  PROVE  (o + j) % N # (o + k) % N
<1>1. o + j \in 0 .. 2 * N - 1 /\ o + k \in 0 .. 2 * N - 1
  BY SMT DEF Slots
<1>2. (o + j) % N = IF o + j < N THEN o + j ELSE (o + j) - N
  BY <1>1, WrapSum
<1>3. (o + k) % N = IF o + k < N THEN o + k ELSE (o + k) - N
  BY <1>1, WrapSum
<1> QED BY <1>1, <1>2, <1>3, SMT DEF Slots

LEMMA RingPrevious ==
  ASSUME NEW p \in Slots, NEW k \in Nat, k + 1 < N
  PROVE  (Succ(p) + k) % N # p
<1>1. Succ(p) = IF p + 1 < N THEN p + 1 ELSE 0
  BY SuccWrap
<1>2. Succ(p) + k \in 0 .. 2 * N - 1
  BY <1>1, SMT DEF Slots
<1>3. (Succ(p) + k) % N = IF Succ(p) + k < N THEN Succ(p) + k ELSE (Succ(p) + k) - N
  BY <1>2, WrapSum
<1> QED BY <1>1, <1>3, SMT DEF Slots

-----------------------------------------------------------------------------
(* Cardinalities of the sets that QueueInv counts. *)

LEMMA FiniteSets ==
  /\ IsFiniteSet(Holders) /\ Cardinality(Holders) \in Nat
  /\ IsFiniteSet(Waiting) /\ Cardinality(Waiting) \in Nat
  /\ IsFiniteSet(Signalled) /\ Cardinality(Signalled) \in Nat
<1>1. IsFiniteSet(Slots)
  BY FS_Interval, SMT DEF Slots
<1>2. Holders \in SUBSET Agents /\ Waiting \in SUBSET Agents /\ Signalled \in SUBSET Slots
  BY DEF Holders, Waiting, Signalled
<1> QED BY <1>1, <1>2, FS_Subset, FS_CardinalityType

\* Adding or removing one element changes a cardinality by at most one.
LEMMA AddOne ==
  ASSUME NEW S, NEW x, IsFiniteSet(S)
  PROVE  /\ Cardinality(S) \in Nat
         /\ Cardinality(S \cup {x}) \in Nat
         /\ Cardinality(S \cup {x}) <= Cardinality(S) + 1
<1>1. Cardinality(S) \in Nat
  BY FS_CardinalityType
<1>2. Cardinality(S \cup {x}) = IF x \in S THEN Cardinality(S) ELSE Cardinality(S) + 1
  BY FS_AddElement
<1> QED BY <1>1, <1>2, SMT

LEMMA RemoveOne ==
  ASSUME NEW S, NEW x, IsFiniteSet(S)
  PROVE  /\ Cardinality(S) \in Nat
         /\ Cardinality(S \ {x}) \in Nat
         /\ Cardinality(S \ {x}) <= Cardinality(S)
         /\ x \in S => Cardinality(S \ {x}) = Cardinality(S) - 1
<1>1. Cardinality(S) \in Nat
  BY FS_CardinalityType
<1>2. Cardinality(S \ {x}) = IF x \in S THEN Cardinality(S) - 1 ELSE Cardinality(S)
  BY FS_RemoveElement
<1>3. x \in S => Cardinality(S) # 0
  BY FS_EmptySet
<1> QED BY <1>1, <1>2, <1>3, SMT

-----------------------------------------------------------------------------
(* Type correctness *)

LEMMA TypeInit == Init => TypeOK
<1> SUFFICES ASSUME Init PROVE TypeOK
  OBVIOUS
<1>1. Zero \in Records
  BY DEF Zero, Records, Kinds
<1>2. 0 \in Slots /\ 0 \in Spaces
  BY SMT DEF Slots, Spaces
<1>3. /\ resSem \in Nat
      /\ userSem \in Nat
      /\ semAR \in Nat
  BY DEF Init
<1>4. schedPc \in SchedPcs /\ schedPc # "respond"
  BY DEF Init, SchedPcs
<1>5. agentPc \in [Agents -> AgentPcs]
  BY DEF Init, AgentPcs
<1> QED BY <1>1, <1>2, <1>3, <1>4, <1>5 DEF Init, TypeOK

\* An update of a function at any argument keeps its type.
LEMMA ExceptType ==
  ASSUME NEW S, NEW T, NEW f \in [S -> T], NEW x, NEW v \in T
  PROVE  [f EXCEPT ![x] = v] \in [S -> T]
OBVIOUS

LEMMA TypeAgent ==
  ASSUME TypeOK, NEW a \in Agents, AgentNext(a)
  PROVE  TypeOK'
<1> USE DEF TypeOK, Goto, AgentPcs, schedVars, spaceVars, ghostVars, queueVars
<1>1. CASE AcquireResource(a)
  BY <1>1, SMT DEF AcquireResource
<1>2. CASE LockQueue(a)
  BY <1>2, SMT DEF LockQueue
<1>3. CASE ResetSlotEvent(a)
  BY <1>3, SMT DEF ResetSlotEvent
<1>4. CASE FillSlot(a)
  <2>1. Succ(ptr[a]) \in Slots
    BY SuccType
  <2>2. [kind |-> "request", agent |-> a] \in Records
    BY DEF Records, Kinds
  <2> QED BY <1>4, <2>1, <2>2, SMT DEF FillSlot
<1>5. CASE Publish(a)
  <2>1. userSem' \in Nat
    BY <1>5, SMT DEF Publish
  <2>2. mutex' \in BOOLEAN
    BY <1>5, Zenon DEF Publish
  <2> QED BY <1>5, <2>1, <2>2 DEF Publish
<1>6. CASE Wake(a)
  BY <1>6, SMT DEF Wake
<1>7. CASE TakeResponse(a)
  BY <1>7, SMT DEF TakeResponse
<1>8. CASE ClearSlot(a)
  <2>1. Zero \in Records
    BY DEF Zero, Records, Kinds
  <2> QED BY <1>8, <2>1, SMT DEF ClearSlot
<1>9. CASE ReturnSlot(a)
  <2>1. Zero \in Records /\ 0 \in Slots
    BY SMT DEF Zero, Records, Kinds, Slots
  <2>2. resSem' \in Nat /\ ptr' \in [Agents -> Slots] /\ reply' \in [Agents -> Records]
    BY <1>9, <2>1, SMT DEF ReturnSlot
  <2>3. /\ agentPc' \in [Agents -> AgentPcs]
        /\ started' \in [Agents -> BOOLEAN] /\ orphans' \subseteq Agents
    BY <1>9 DEF ReturnSlot, Settle
  <2> QED BY <1>9, <2>2, <2>3 DEF ReturnSlot
<1>10. CASE WriteReply(a)
  BY <1>10, SMT DEF WriteReply
<1>11. CASE ReplyFails(a)
  BY <1>11, SMT DEF ReplyFails
<1>12. CASE AwaitServiceStart(a)
  BY <1>12, SMT DEF AwaitServiceStart, Settle
<1> QED
  BY <1>1, <1>2, <1>3, <1>4, <1>5, <1>6, <1>7, <1>8, <1>9, <1>10, <1>11, <1>12
  DEF AgentNext

LEMMA TypeScheduler ==
  ASSUME TypeOK, SchedulerNext
  PROVE  TypeOK'
<1> USE DEF TypeOK, SchedPcs, agentVars, spaceVars, ghostVars, queueVars
<1>1. CASE WaitSpace
  BY <1>1, SMT DEF WaitSpace
<1>2. CASE TakeSpace
  BY <1>2, SMT DEF TakeSpace
<1>3. CASE AwaitRequest
  BY <1>3, SMT DEF AwaitRequest
<1>4. CASE Dequeue
  <2>1. Succ(pointerOut) \in Slots
    BY SuccType
  <2> QED BY <1>4, <2>1, SMT DEF Dequeue
<1>5. CASE AcceptLogon
  <2>1. decided' \in [Agents -> {"none", "ok", "error"}]
    BY <1>5, ExceptType DEF AcceptLogon, Decide
  <2> QED BY <1>5, <2>1, SMT DEF AcceptLogon
<1>6. CASE RefuseLogon
  <2>1. decided' \in [Agents -> {"none", "ok", "error"}]
    BY <1>6, ExceptType DEF RefuseLogon, Decide
  <2> QED BY <1>6, <2>1, SMT DEF RefuseLogon
<1>7. CASE Respond
  <2>1. [kind |-> verdict, agent |-> space[current].agent] \in Records
    BY <1>7, SMT DEF Respond, Records, Kinds
  <2> QED BY <1>7, <2>1, SMT DEF Respond
<1>8. CASE Signal
  <2>1. 0 \in Slots
    BY SMT DEF Slots
  <2> QED BY <1>8, <2>1, SMT DEF Signal
<1>9. CASE FreeRefused
  BY <1>9, SMT DEF FreeRefused, FreeSpace
<1> QED
  BY <1>1, <1>2, <1>3, <1>4, <1>5, <1>6, <1>7, <1>8, <1>9 DEF SchedulerNext

LEMMA TypeShell ==
  ASSUME TypeOK, NEW s \in Spaces, ShellNext(s)
  PROVE  TypeOK'
<1> USE DEF TypeOK, Records, agentVars, schedVars, ghostVars, queueVars
<1>1. CASE ShellCopies(s)
  BY <1>1, SMT DEF ShellCopies
<1>2. CASE ShellFrees(s)
  <2>1. started' \in [Agents -> BOOLEAN] /\ orphans' \subseteq Agents
    BY <1>2, ExceptType DEF ShellFrees, PostStart
  <2> QED BY <1>2, <2>1, SMT DEF ShellFrees, FreeSpace
<1> QED BY <1>1, <1>2 DEF ShellNext

LEMMA TypeStep == TypeOK /\ [Next]_vars => TypeOK'
<1> SUFFICES ASSUME TypeOK, [Next]_vars PROVE TypeOK'
  OBVIOUS
<1>1. CASE Next
  BY <1>1, TypeAgent, TypeScheduler, TypeShell DEF Next
<1>2. CASE UNCHANGED vars
  BY <1>2, SMT DEF TypeOK, vars, queueVars, agentVars, schedVars, spaceVars, ghostVars
<1> QED BY <1>1, <1>2

\* Type correctness for every value of the constants.
THEOREM TypeCorrect == Spec => []TypeOK
<1> QED BY TypeInit, TypeStep, PTL DEF Spec

-----------------------------------------------------------------------------
(* The mutex *)

LEMMA MutexInit == Init => MutexInv
BY DEF Init, MutexInv

LEMMA MutexStep == TypeOK /\ MutexInv /\ [Next]_vars => MutexInv'
<1> SUFFICES ASSUME TypeOK, MutexInv, [Next]_vars PROVE MutexInv'
  OBVIOUS
<1> DEFINE Inside == {"reset", "fill", "publish"}
<1>1. ASSUME NEW a \in Agents, AgentNext(a) PROVE MutexInv'
  <2> USE <1>1 DEF TypeOK, MutexInv, Goto, queueVars
  <2>1. CASE AcquireResource(a)
    BY <2>1 DEF AcquireResource
  <2>2. CASE LockQueue(a)
    BY <2>2 DEF LockQueue
  <2>3. CASE ResetSlotEvent(a)
    BY <2>3 DEF ResetSlotEvent
  <2>4. CASE FillSlot(a)
    BY <2>4 DEF FillSlot
  <2>5. CASE Publish(a)
    BY <2>5 DEF Publish
  <2>6. CASE Wake(a)
    BY <2>6 DEF Wake
  <2>7. CASE TakeResponse(a)
    BY <2>7 DEF TakeResponse
  <2>8. CASE ClearSlot(a)
    BY <2>8 DEF ClearSlot
  <2>9. CASE ReturnSlot(a)
    BY <2>9 DEF ReturnSlot
  <2>10. CASE WriteReply(a)
    BY <2>10 DEF WriteReply
  <2>11. CASE ReplyFails(a)
    BY <2>11 DEF ReplyFails
  <2>12. CASE AwaitServiceStart(a)
    BY <2>12 DEF AwaitServiceStart
  <2> QED
    BY <2>1, <2>2, <2>3, <2>4, <2>5, <2>6, <2>7, <2>8, <2>9, <2>10, <2>11, <2>12
    DEF AgentNext
<1>2. CASE UNCHANGED <<mutex, pointerIn, agentPc, ptr>>
  BY <1>2 DEF MutexInv
<1>3. SchedulerNext => UNCHANGED <<mutex, pointerIn, agentPc, ptr>>
  BY DEF SchedulerNext, WaitSpace, TakeSpace, AwaitRequest, Dequeue, AcceptLogon,
         RefuseLogon, Respond, Signal, FreeRefused, queueVars, agentVars
<1>4. ASSUME NEW s \in Spaces
      PROVE  ShellNext(s) => UNCHANGED <<mutex, pointerIn, agentPc, ptr>>
  BY DEF ShellNext, ShellCopies, ShellFrees, queueVars, agentVars
<1>5. UNCHANGED vars => UNCHANGED <<mutex, pointerIn, agentPc, ptr>>
  BY DEF vars, queueVars, agentVars
<1> QED BY <1>1, <1>2, <1>3, <1>4, <1>5 DEF Next

-----------------------------------------------------------------------------
(* The units of hResSemaphore *)

LEMMA EmptyAtInit ==
  Init => Holders = {} /\ Waiting = {} /\ Signalled = {}
BY DEF Init, Holders, Waiting, Signalled

LEMMA ConservedInit == Init => ResourcesConserved
BY EmptyAtInit, FS_EmptySet, SMTT(30) DEF Init, ResourcesConserved

LEMMA ConservedStep ==
  TypeOK /\ ResourcesConserved /\ [Next]_vars => ResourcesConserved'
<1> SUFFICES ASSUME TypeOK, ResourcesConserved, [Next]_vars PROVE ResourcesConserved'
  OBVIOUS
<1>1. CASE UNCHANGED resSem /\ Holders' = Holders
  BY <1>1 DEF ResourcesConserved
<1>2. ASSUME NEW a \in Agents, AcquireResource(a) PROVE ResourcesConserved'
  <2>1. Holders' = Holders \cup {a} /\ a \notin Holders
    BY <1>2 DEF AcquireResource, Goto, Holders, TypeOK
  <2>2. Cardinality(Holders') = Cardinality(Holders) + 1
    BY <2>1, FiniteSets, FS_AddElement
  <2> QED BY <1>2, <2>2, FiniteSets, SMT DEF AcquireResource, ResourcesConserved, TypeOK
<1>3. ASSUME NEW a \in Agents, ReturnSlot(a) PROVE ResourcesConserved'
  <2>1. Holders' = Holders \ {a} /\ a \in Holders
    BY <1>3 DEF ReturnSlot, Goto, Holders, TypeOK
  <2>2. Cardinality(Holders') = Cardinality(Holders) - 1
    BY <2>1, FiniteSets, FS_RemoveElement
  <2> QED BY <1>3, <2>2, FiniteSets, SMT DEF ReturnSlot, ResourcesConserved, TypeOK
<1>4. ASSUME NEW a \in Agents,
             LockQueue(a) \/ ResetSlotEvent(a) \/ FillSlot(a) \/ Publish(a) \/ Wake(a)
             \/ TakeResponse(a) \/ ClearSlot(a) \/ WriteReply(a) \/ ReplyFails(a)
             \/ AwaitServiceStart(a)
      PROVE  UNCHANGED resSem /\ Holders' = Holders
  BY <1>4 DEF LockQueue, ResetSlotEvent, FillSlot, Publish, Wake, TakeResponse, ClearSlot,
              WriteReply, ReplyFails, AwaitServiceStart, Goto, Holders, TypeOK, queueVars
<1>5. SchedulerNext => UNCHANGED <<resSem, agentPc>>
  BY DEF SchedulerNext, WaitSpace, TakeSpace, AwaitRequest, Dequeue, AcceptLogon,
         RefuseLogon, Respond, Signal, FreeRefused, queueVars, agentVars
<1>6. ASSUME NEW s \in Spaces
      PROVE  ShellNext(s) => UNCHANGED <<resSem, agentPc>>
  BY DEF ShellNext, ShellCopies, ShellFrees, queueVars, agentVars
<1>7. UNCHANGED vars => UNCHANGED <<resSem, agentPc>>
  BY DEF vars, queueVars, agentVars
<1>8. UNCHANGED <<resSem, agentPc>> => UNCHANGED resSem /\ Holders' = Holders
  BY DEF Holders
<1> QED
  BY <1>1, <1>2, <1>3, <1>4, <1>5, <1>6, <1>7, <1>8 DEF Next, AgentNext

-----------------------------------------------------------------------------
(* Wake-ups *)

LEMMA WakeupsInit == Init => WakeupsCovered
BY EmptyAtInit, FS_EmptySet, SMT
   DEF Init, WakeupsCovered, Unanswered, Pending, Dequeuing, Processing

LEMMA PendingType == TypeOK => Pending \in Nat /\ Unanswered \in Nat
BY SMT DEF TypeOK, Pending, Unanswered

LEMMA WakeupsStep ==
  TypeOK /\ WakeupsCovered /\ [Next]_vars => WakeupsCovered'
<1> SUFFICES ASSUME TypeOK, WakeupsCovered, [Next]_vars PROVE WakeupsCovered'
  OBVIOUS
<1> USE FiniteSets, PendingType DEF TypeOK
<1>1. CASE Signalled' = Signalled /\ Unanswered' = Unanswered /\ Waiting' = Waiting
  BY <1>1 DEF WakeupsCovered
<1>2. ASSUME NEW a \in Agents, ResetSlotEvent(a) PROVE WakeupsCovered'
  <2>1. Signalled' = Signalled \ {ptr[a]} /\ Waiting' = Waiting /\ Unanswered' = Unanswered
    BY <1>2 DEF ResetSlotEvent, Goto, Signalled, Waiting, Unanswered, Pending, Dequeuing,
                Processing, schedVars
  <2>2. Cardinality(Signalled') \in Nat /\ Cardinality(Signalled') <= Cardinality(Signalled)
    BY ONLY <2>1, FiniteSets, RemoveOne
  <2> QED BY <2>1, <2>2, SMT DEF WakeupsCovered
<1>3. ASSUME NEW a \in Agents, Publish(a) PROVE WakeupsCovered'
  <2>1. Signalled' = Signalled /\ Waiting' = Waiting \cup {a} /\ a \notin Waiting
    BY <1>3 DEF Publish, Goto, Signalled, Waiting
  <2>2. Unanswered' = Unanswered + 1
    BY <1>3, SMT DEF Publish, Unanswered, Pending, Dequeuing, Processing, schedVars
  <2>3. Cardinality(Waiting') = Cardinality(Waiting) + 1
    BY <2>1, FS_AddElement
  <2> QED BY <2>1, <2>2, <2>3, SMT DEF WakeupsCovered
<1>4. ASSUME NEW a \in Agents, Wake(a) PROVE WakeupsCovered'
  <2>1. /\ Signalled' = Signalled \ {ptr[a]} /\ ptr[a] \in Signalled
        /\ Waiting' = Waiting \ {a} /\ a \in Waiting
        /\ Unanswered' = Unanswered
    BY <1>4 DEF Wake, Goto, Signalled, Waiting, Unanswered, Pending, Dequeuing, Processing,
                schedVars
  <2>2. /\ Cardinality(Signalled') = Cardinality(Signalled) - 1
        /\ Cardinality(Waiting') = Cardinality(Waiting) - 1
    BY ONLY <2>1, FiniteSets, RemoveOne
  <2> QED BY <2>1, <2>2, SMT DEF WakeupsCovered
<1>5. ASSUME Signal PROVE WakeupsCovered'
  <2>1. Signalled' = Signalled \cup {schedPtr} /\ Waiting' = Waiting
    BY <1>5 DEF Signal, Signalled, Waiting, agentVars
  <2>2. Unanswered' = Unanswered - 1
    BY <1>5, SMT DEF Signal, Unanswered, Pending, Dequeuing, Processing
  <2>3. /\ Cardinality(Signalled') \in Nat
        /\ Cardinality(Signalled') <= Cardinality(Signalled) + 1
    BY ONLY <2>1, FiniteSets, AddOne
  <2> QED BY <2>1, <2>2, <2>3, SMT DEF WakeupsCovered
<1>6. ASSUME NEW a \in Agents,
             AcquireResource(a) \/ LockQueue(a) \/ FillSlot(a)
             \/ TakeResponse(a) \/ ClearSlot(a) \/ ReturnSlot(a) \/ WriteReply(a) \/ ReplyFails(a)
             \/ AwaitServiceStart(a)
      PROVE  Signalled' = Signalled /\ Unanswered' = Unanswered /\ Waiting' = Waiting
  BY <1>6 DEF AcquireResource, LockQueue, FillSlot, TakeResponse, ClearSlot, ReturnSlot,
              WriteReply, ReplyFails, AwaitServiceStart, Goto, Signalled, Waiting, Unanswered, Pending, Dequeuing,
              Processing, queueVars, schedVars
<1>7. ASSUME WaitSpace \/ TakeSpace \/ AwaitRequest \/ Dequeue \/ AcceptLogon
             \/ RefuseLogon \/ Respond \/ FreeRefused
      PROVE  Signalled' = Signalled /\ Unanswered' = Unanswered /\ Waiting' = Waiting
  <2>1. UNCHANGED <<event, agentPc>>
    BY <1>7 DEF WaitSpace, TakeSpace, AwaitRequest, Dequeue, AcceptLogon, RefuseLogon,
                Respond, FreeRefused, queueVars, agentVars
  <2>2. Unanswered' = Unanswered
    BY <1>7, SMT DEF WaitSpace, TakeSpace, AwaitRequest, Dequeue, AcceptLogon, RefuseLogon,
                Respond, FreeRefused, queueVars, Unanswered, Pending, Dequeuing, Processing
  <2> QED BY <2>1, <2>2 DEF Signalled, Waiting
<1>8. ASSUME NEW s \in Spaces
      PROVE  ShellNext(s) => UNCHANGED <<event, agentPc, userSem, schedPc>>
  BY DEF ShellNext, ShellCopies, ShellFrees, queueVars, agentVars, schedVars
<1>9. UNCHANGED vars => UNCHANGED <<event, agentPc, userSem, schedPc>>
  BY DEF vars, queueVars, agentVars, schedVars
<1>10. UNCHANGED <<event, agentPc, userSem, schedPc>> =>
         Signalled' = Signalled /\ Unanswered' = Unanswered /\ Waiting' = Waiting
  BY DEF Signalled, Waiting, Unanswered, Pending, Dequeuing, Processing
<1> QED
  BY <1>1, <1>2, <1>3, <1>4, <1>5, <1>6, <1>7, <1>8, <1>9, <1>10
  DEF Next, AgentNext, SchedulerNext

-----------------------------------------------------------------------------
(* The pointers *)

\* The requests in the ring and the agent that adds one never exceed N.
LEMMA RingBound ==
  ASSUME TypeOK, ResourcesConserved, WakeupsCovered
  PROVE  /\ Unanswered <= N
         /\ \A a \in Agents : agentPc[a] \in {"lock", "reset", "fill", "publish"} =>
              Unanswered <= N - 1
<1>1. Waiting \in SUBSET Holders
  BY DEF Waiting, Holders
<1>2. Cardinality(Waiting) <= Cardinality(Holders)
  BY <1>1, FiniteSets, FS_Subset
<1>3. Cardinality(Holders) <= N
  BY FiniteSets, SMT DEF ResourcesConserved, TypeOK
<1>4. Unanswered <= Cardinality(Waiting)
  BY FiniteSets, PendingType, SMT DEF WakeupsCovered
<1>5. ASSUME NEW a \in Agents, agentPc[a] \in {"lock", "reset", "fill", "publish"}
      PROVE  Unanswered <= N - 1
  <2>1. a \in Holders /\ Waiting \in SUBSET (Holders \ {a})
    BY <1>5 DEF Waiting, Holders
  <2>2. IsFiniteSet(Holders \ {a}) /\ Cardinality(Holders \ {a}) = Cardinality(Holders) - 1
    BY <2>1, FiniteSets, FS_RemoveElement
  <2>3. Cardinality(Waiting) <= Cardinality(Holders) - 1
    BY <2>1, <2>2, FS_Subset
  <2> QED BY <1>3, <1>4, <2>3, FiniteSets, PendingType, SMT
<1> QED BY <1>2, <1>3, <1>4, <1>5, FiniteSets, PendingType, SMT

LEMMA RingInit == Init => RingConsistent /\ AnswersLast
<1> SUFFICES ASSUME Init PROVE RingConsistent /\ AnswersLast
  OBVIOUS
<1>1. pointerIn = 0 /\ pointerOut = 0 /\ Pending = 0 /\ Unannounced = 0
  BY DEF Init, Pending, Dequeuing, Unannounced
<1>2. 0 % N = 0
  BY WrapSum, SMT
<1>3. ~Processing
  BY DEF Init, Processing
<1> QED BY <1>1, <1>2, <1>3, SMT DEF RingConsistent, AnswersLast

LEMMA RingStep ==
  QueueInv /\ [Next]_vars => RingConsistent' /\ AnswersLast'
<1> SUFFICES ASSUME QueueInv, [Next]_vars PROVE RingConsistent' /\ AnswersLast'
  OBVIOUS
<1> USE DEF QueueInv
<1>0. Pending \in Nat /\ Unanswered \in Nat /\ pointerOut \in Slots /\ N \in Nat
  BY PendingType DEF TypeOK
<1>1. CASE UNCHANGED <<pointerIn, pointerOut>> /\ Pending' = Pending
           /\ Unannounced' = Unannounced
           /\ UNCHANGED schedPtr /\ (Processing' => Processing)
  BY <1>1 DEF RingConsistent, AnswersLast, Succ
<1>2. ASSUME NEW a \in Agents, FillSlot(a) PROVE RingConsistent' /\ AnswersLast'
  <2>1. Unannounced = 0
    BY <1>2 DEF FillSlot, Goto, Unannounced, MutexInv
  <2>2. Unannounced' = 1
    BY <1>2 DEF FillSlot, Goto, Unannounced, TypeOK
  <2>3. Pending <= N - 1
    BY <1>2, <1>0, RingBound, SMT DEF FillSlot, Goto, Unanswered
  <2>4. pointerIn = (pointerOut + Pending) % N
    <3>1. pointerOut + Pending + Unannounced = pointerOut + Pending
      BY <1>0, <2>1, SMT DEF Slots
    <3> QED BY <3>1 DEF RingConsistent
  <2>5. ptr[a] = pointerIn
    BY <1>2 DEF FillSlot, Goto, MutexInv
  <2>6. pointerIn' = (pointerOut + Pending + 1) % N
    BY <1>0, <1>2, <2>3, <2>4, <2>5, RingForward, SMT DEF FillSlot
  <2>7. UNCHANGED <<pointerOut, userSem, schedPtr, schedPc>>
    BY <1>2 DEF FillSlot, schedVars
  <2>8. Pending' = Pending /\ Processing' = Processing
    BY <2>7 DEF Pending, Dequeuing, Processing
  <2> QED BY <2>2, <2>6, <2>7, <2>8 DEF RingConsistent, AnswersLast, Succ
<1>3. ASSUME NEW a \in Agents, Publish(a) PROVE RingConsistent' /\ AnswersLast'
  <2>1. Unannounced = 1
    BY <1>3 DEF Publish, Goto, Unannounced
  <2>2. Unannounced' = 0
    BY <1>3 DEF Publish, Goto, Unannounced, MutexInv, TypeOK
  <2>3. Pending' = Pending + 1
    BY <1>3, SMT DEF Publish, Pending, Dequeuing, schedVars, TypeOK
  <2>4. UNCHANGED <<pointerIn, pointerOut, schedPtr, schedPc>>
    BY <1>3 DEF Publish, schedVars
  <2>5. RingConsistent'
    <3>1. pointerOut' + Pending' + Unannounced' = pointerOut + Pending + Unannounced
      BY <1>0, <2>1, <2>2, <2>3, <2>4, SMT DEF Slots
    <3> QED BY <2>4, <3>1 DEF RingConsistent
  <2> QED BY <2>4, <2>5 DEF AnswersLast, Processing, Succ
<1>4. ASSUME Dequeue PROVE RingConsistent' /\ AnswersLast'
  <2>1. Pending \in Nat \ {0} /\ Pending' = Pending - 1
    BY <1>4, SMT DEF Dequeue, Pending, Dequeuing, TypeOK
  <2>2. Unannounced' = Unannounced /\ Unannounced \in {0, 1}
    BY <1>4 DEF Dequeue, Unannounced, agentVars
  <2>3. Pending + Unannounced <= N
    <3>1. Unannounced = 1 => Pending <= N - 1
      BY <1>0, RingBound, SMT DEF Unannounced, Unanswered
    <3>2. Pending <= N
      BY <1>0, RingBound, SMT DEF Unanswered
    <3> QED BY <1>0, <2>2, <3>1, <3>2, SMT
  <2>4. (Succ(pointerOut) + (Pending + Unannounced - 1)) % N
          = (pointerOut + (Pending + Unannounced)) % N
    BY <1>0, <2>1, <2>2, <2>3, RingShift, SMT
  <2>5. pointerOut' = Succ(pointerOut) /\ pointerIn' = pointerIn /\ schedPtr' = pointerOut
    BY <1>4 DEF Dequeue
  <2>6. Succ(pointerOut) \in Nat
    BY <1>0, SuccType, SMT DEF Slots
  <2>7. /\ pointerIn = (pointerOut + (Pending + Unannounced)) % N
        /\ pointerOut' + Pending' + Unannounced'
             = Succ(pointerOut) + (Pending + Unannounced - 1)
    BY <1>0, <2>1, <2>2, <2>5, <2>6, SMT DEF RingConsistent, Slots
  <2> QED BY <2>4, <2>5, <2>7 DEF RingConsistent, AnswersLast, Succ
<1>5. ASSUME NEW a \in Agents,
             AcquireResource(a) \/ LockQueue(a) \/ ResetSlotEvent(a) \/ Wake(a)
             \/ TakeResponse(a) \/ ClearSlot(a) \/ ReturnSlot(a) \/ WriteReply(a) \/ ReplyFails(a)
             \/ AwaitServiceStart(a)
      PROVE  RingConsistent' /\ AnswersLast'
  <2>1. UNCHANGED <<pointerIn, pointerOut, userSem, schedPc, schedPtr>>
    BY <1>5 DEF AcquireResource, LockQueue, ResetSlotEvent, Wake, TakeResponse, ClearSlot,
                ReturnSlot, WriteReply, ReplyFails, AwaitServiceStart, queueVars, schedVars
  <2>2. Unannounced' = Unannounced
    BY <1>5 DEF AcquireResource, LockQueue, ResetSlotEvent, Wake, TakeResponse, ClearSlot,
                ReturnSlot, WriteReply, ReplyFails, AwaitServiceStart, Goto, Unannounced, TypeOK
  <2> QED BY <1>1, <2>1, <2>2 DEF Pending, Dequeuing, Processing
<1>6. ASSUME WaitSpace \/ TakeSpace \/ AwaitRequest \/ AcceptLogon
             \/ RefuseLogon \/ Respond \/ Signal \/ FreeRefused
      PROVE  RingConsistent' /\ AnswersLast'
  <2>1. UNCHANGED <<pointerIn, pointerOut, agentPc>>
    BY <1>6 DEF WaitSpace, TakeSpace, AwaitRequest, AcceptLogon, RefuseLogon, Respond,
                Signal, FreeRefused, queueVars, agentVars
  <2>2. Pending' = Pending
    BY <1>6, SMT DEF WaitSpace, TakeSpace, AwaitRequest, AcceptLogon, RefuseLogon, Respond,
                Signal, FreeRefused, queueVars, Pending, Dequeuing, TypeOK
  <2>3. (Processing' => Processing) /\ (Processing' => UNCHANGED schedPtr)
    BY <1>6 DEF WaitSpace, TakeSpace, AwaitRequest, AcceptLogon, RefuseLogon, Respond,
                Signal, FreeRefused, Processing
  <2>4. Unannounced' = Unannounced
    BY <2>1 DEF Unannounced
  <2> QED BY <2>1, <2>2, <2>3, <2>4 DEF RingConsistent, AnswersLast, Succ
<1>7. ASSUME NEW s \in Spaces, ShellNext(s) PROVE RingConsistent' /\ AnswersLast'
  <2>1. UNCHANGED <<pointerIn, pointerOut, userSem, schedPc, schedPtr, agentPc>>
    BY <1>7 DEF ShellNext, ShellCopies, ShellFrees, queueVars, agentVars, schedVars
  <2> QED BY <1>1, <2>1 DEF Pending, Dequeuing, Processing, Unannounced
<1>8. ASSUME UNCHANGED vars PROVE RingConsistent' /\ AnswersLast'
  BY <1>1, <1>8 DEF vars, queueVars, agentVars, schedVars, Pending, Dequeuing, Processing,
                    Unannounced
<1> QED
  BY <1>2, <1>3, <1>4, <1>5, <1>6, <1>7, <1>8 DEF Next, AgentNext, SchedulerNext

-----------------------------------------------------------------------------

\* The inductive invariant holds of every behaviour of the queue.
THEOREM QueueCorrect == Spec => []QueueInv
<1>1. Init => QueueInv
  BY TypeInit, MutexInit, ConservedInit, WakeupsInit, RingInit DEF QueueInv
<1>2. QueueInv /\ [Next]_vars => QueueInv'
  BY TypeStep, MutexStep, ConservedStep, WakeupsStep, RingStep DEF QueueInv
<1> QED BY <1>1, <1>2, PTL DEF Spec

\* No wake-up is invented, for any number of agents and slots.
THEOREM WakeupsAlwaysCovered == Spec => []WakeupsCovered
<1>1. QueueInv => WakeupsCovered
  BY DEF QueueInv
<1> QED BY <1>1, QueueCorrect, PTL

\* SendRequest never overwrites a request the scheduler has still to read or answer,
\* for any number of agents and slots and in whatever order the slots come back.
THEOREM NeverOverruns == Spec => []NoOverrun
<1>1. ASSUME QueueInv, NEW a \in Agents, agentPc[a] \in {"reset", "fill"}
      PROVE  ~IsPending(ptr[a]) /\ ~(Processing /\ schedPtr = ptr[a])
  <2>1. /\ Pending \in Nat /\ Unanswered \in Nat /\ pointerOut \in Slots
        /\ schedPtr \in Slots /\ N \in Nat
    BY <1>1, PendingType DEF QueueInv, TypeOK
  <2>2. Unanswered <= N - 1
    BY <1>1, RingBound DEF QueueInv
  <2>3. Pending <= N - 1 /\ (Processing => Pending + 1 < N)
    BY <2>1, <2>2, SMT DEF Unanswered
  <2>4. Unannounced = 0
    BY <1>1 DEF Unannounced, QueueInv, MutexInv
  <2>5. ptr[a] = (pointerOut + Pending) % N
    <3>1. ptr[a] = pointerIn
      BY <1>1 DEF QueueInv, MutexInv
    <3>2. pointerIn = (pointerOut + Pending + 0) % N
      BY <1>1, <2>4 DEF QueueInv, RingConsistent
    <3> QED BY <2>1, <3>1, <3>2, SMT DEF Slots
  <2>6. ASSUME NEW k \in 0 .. Pending - 1 PROVE ptr[a] # (pointerOut + k) % N
    BY <2>1, <2>3, <2>5, RingDistinct, SMT
  <2>7. Processing => ptr[a] # schedPtr
    <3>1. Processing => pointerOut = Succ(schedPtr)
      BY <1>1 DEF QueueInv, AnswersLast
    <3> QED BY <2>1, <2>3, <2>5, <3>1, RingPrevious
  <2> QED BY <2>6, <2>7 DEF IsPending
<1>2. QueueInv => NoOverrun
  BY <1>1 DEF NoOverrun
<1> QED BY <1>2, QueueCorrect, PTL
-----------------------------------------------------------------------------
(* RequestSpace, the records that pass from the scheduler to the service    *)
(* threads                                                                  *)

LEMMA UsedFinite ==
  /\ IsFiniteSet(Spaces) /\ Cardinality(Spaces) = MAX_SERVICE_THREAD
  /\ IsFiniteSet(UsedSpaces) /\ Cardinality(UsedSpaces) \in Nat
<1>1. IsFiniteSet(Spaces) /\ Cardinality(Spaces) = MAX_SERVICE_THREAD
  <2>1. 0 \in Int /\ MAX_SERVICE_THREAD - 1 \in Int
    BY SMT
  <2>2. /\ IsFiniteSet(0 .. MAX_SERVICE_THREAD - 1)
        /\ Cardinality(0 .. MAX_SERVICE_THREAD - 1) =
             IF 0 > MAX_SERVICE_THREAD - 1 THEN 0 ELSE (MAX_SERVICE_THREAD - 1) - 0 + 1
    BY <2>1, FS_Interval
  <2> QED BY <2>2, SMT DEF Spaces
<1>2. UsedSpaces \in SUBSET Spaces
  BY DEF UsedSpaces
<1> QED BY <1>1, <1>2, FS_Subset, FS_CardinalityType

LEMMA SpaceInit == Init => SpaceInv
<1> SUFFICES ASSUME Init PROVE SpaceInv
  OBVIOUS
<1>1. UsedSpaces = {}
  BY DEF Init, UsedSpaces
<1>2. SpacesConserved
  BY <1>1, FS_EmptySet, SMT DEF Init, SpacesConserved
<1> QED BY <1>2 DEF Init, SpaceInv, CurrentIsOwn

\* FreeSpace moves one unit from the used records to the semaphore.
LEMMA FreeCount ==
  ASSUME TypeOK, NEW s \in Spaces, used[s], FreeSpace(s)
  PROVE  /\ semAR' + Cardinality(UsedSpaces') = semAR + Cardinality(UsedSpaces)
         /\ semAR' \in Nat /\ Cardinality(UsedSpaces') \in Nat
<1>1. UsedSpaces' = UsedSpaces \ {s} /\ s \in UsedSpaces
  BY DEF FreeSpace, UsedSpaces, TypeOK
<1>2. Cardinality(UsedSpaces') = Cardinality(UsedSpaces) - 1 /\ Cardinality(UsedSpaces') \in Nat
  BY <1>1, UsedFinite, RemoveOne
<1> QED BY <1>2, UsedFinite, SMT DEF FreeSpace, TypeOK

LEMMA SpaceScheduler ==
  ASSUME TypeOK, SpaceInv, SchedulerNext
  PROVE  SpaceInv'
<1> USE DEF SpaceInv, CurrentIsOwn, TypeOK
<1>1. CASE WaitSpace
  <2>1. UsedSpaces' = UsedSpaces
    BY <1>1 DEF WaitSpace, UsedSpaces
  <2>2. SpacesConserved'
    BY <1>1, <2>1, UsedFinite, SMT DEF WaitSpace, SpacesConserved
  <2> QED BY <1>1, <2>2 DEF WaitSpace
<1>2. CASE TakeSpace
  <2>1. PICK s \in Spaces : ~used[s] /\ used' = [used EXCEPT ![s] = TRUE] /\ current' = s
    BY <1>2 DEF TakeSpace
  <2>2. UsedSpaces' = UsedSpaces \cup {s} /\ s \notin UsedSpaces
    BY <2>1 DEF UsedSpaces
  <2>3. Cardinality(UsedSpaces') = Cardinality(UsedSpaces) + 1
    BY <2>2, UsedFinite, FS_AddElement
  <2>4. SpacesConserved'
    BY <1>2, <2>3, UsedFinite, SMT DEF TakeSpace, SpacesConserved
  <2>5. used'[s] /\ shell'[s] = "none"
    BY <1>2, <2>1 DEF TakeSpace
  <2>6. \A t \in Spaces : shell'[t] # "none" => used'[t]
    BY <1>2, <2>1 DEF TakeSpace
  <2> QED BY <1>2, <2>1, <2>4, <2>5, <2>6 DEF TakeSpace
<1>3. CASE FreeRefused
  <2>1. used[current] /\ shell[current] = "none"
    BY <1>3 DEF FreeRefused
  <2>2. /\ semAR' + Cardinality(UsedSpaces') = semAR + Cardinality(UsedSpaces)
        /\ semAR' \in Nat /\ Cardinality(UsedSpaces') \in Nat
    BY <1>3, <2>1, FreeCount DEF FreeRefused
  <2>3. SpacesConserved'
    BY <1>3, <2>2, UsedFinite, SMT DEF FreeRefused, SpacesConserved
  <2>4. \A t \in Spaces : shell'[t] # "none" => used'[t]
    BY <1>3, <2>1 DEF FreeRefused, FreeSpace
  <2> QED BY <1>3, <2>3, <2>4 DEF FreeRefused
<1>4. CASE AwaitRequest \/ Dequeue \/ AcceptLogon \/ RefuseLogon \/ Respond \/ Signal
  <2>1. UsedSpaces' = UsedSpaces /\ semAR' = semAR /\ schedPc # "scan" /\ schedPc' # "scan"
    BY <1>4 DEF AwaitRequest, Dequeue, AcceptLogon, RefuseLogon, Respond, Signal,
                spaceVars, UsedSpaces
  <2>2. SpacesConserved'
    BY <2>1 DEF SpacesConserved
  <2>3. CurrentIsOwn'
    BY <1>4 DEF AwaitRequest, Dequeue, AcceptLogon, RefuseLogon, Respond, Signal, spaceVars
  <2>4. \A t \in Spaces : shell'[t] # "none" => used'[t]
    BY <1>4 DEF AwaitRequest, Dequeue, AcceptLogon, RefuseLogon, Respond, Signal, spaceVars
  <2> QED BY <2>2, <2>3, <2>4
<1> QED BY <1>1, <1>2, <1>3, <1>4 DEF SchedulerNext

LEMMA SpaceShell ==
  ASSUME TypeOK, SpaceInv, NEW s \in Spaces, ShellNext(s)
  PROVE  SpaceInv'
<1> USE DEF SpaceInv, CurrentIsOwn, TypeOK, schedVars
<1>1. CASE ShellCopies(s)
  <2>1. UsedSpaces' = UsedSpaces
    BY <1>1 DEF ShellCopies, UsedSpaces
  <2>2. SpacesConserved'
    BY <1>1, <2>1 DEF ShellCopies, SpacesConserved
  <2>3. \A t \in Spaces : shell'[t] # "none" => shell[t] # "none"
    BY <1>1 DEF ShellCopies
  <2>4. \A t \in Spaces : shell[t] = "none" => shell'[t] = "none"
    BY <1>1 DEF ShellCopies
  <2> QED BY <1>1, <2>2, <2>3, <2>4 DEF ShellCopies
<1>2. CASE ShellFrees(s)
  <2>1. used[s]
    BY <1>2 DEF ShellFrees
  <2>2. /\ semAR' + Cardinality(UsedSpaces') = semAR + Cardinality(UsedSpaces)
        /\ semAR' \in Nat /\ Cardinality(UsedSpaces') \in Nat
    BY <1>2, <2>1, FreeCount DEF ShellFrees
  <2>3. SpacesConserved'
    BY <1>2, <2>2, UsedFinite, SMT DEF ShellFrees, SpacesConserved
  <2>4. \A t \in Spaces : t # s => shell'[t] = shell[t] /\ used'[t] = used[t]
    BY <1>2 DEF ShellFrees, FreeSpace
  <2>5. shell'[s] = "none" /\ shell[s] # "none"
    BY <1>2 DEF ShellFrees
  <2> QED BY <1>2, <2>3, <2>4, <2>5 DEF ShellFrees
<1> QED BY <1>1, <1>2 DEF ShellNext

LEMMA SpaceStep == TypeOK /\ SpaceInv /\ [Next]_vars => SpaceInv'
<1> SUFFICES ASSUME TypeOK, SpaceInv, [Next]_vars PROVE SpaceInv'
  OBVIOUS
<1>1. ASSUME UNCHANGED <<schedVars, spaceVars>> PROVE SpaceInv'
  BY <1>1 DEF schedVars, spaceVars, SpaceInv, SpacesConserved, CurrentIsOwn, UsedSpaces
<1>2. ASSUME NEW a \in Agents
      PROVE  AgentNext(a) => UNCHANGED <<schedVars, spaceVars>>
  BY DEF AgentNext, AcquireResource, LockQueue, ResetSlotEvent, FillSlot, Publish, Wake,
         TakeResponse, ClearSlot, ReturnSlot, WriteReply, ReplyFails, AwaitServiceStart
<1>3. UNCHANGED vars => UNCHANGED <<schedVars, spaceVars>>
  BY DEF vars
<1> QED BY <1>1, <1>2, <1>3, SpaceScheduler, SpaceShell DEF Next

-----------------------------------------------------------------------------

\* The inductive invariant of RequestSpace (schedule.c 81 to 147, shell.c 158 to 159).
THEOREM SpacesCorrect == Spec => []SpaceInv
<1> QED BY SpaceInit, SpaceStep, TypeCorrect, PTL DEF Spec

\* A service thread finds its own request in its record, however many records and
\* service threads there are.
THEOREM SpaceNeverShared == Spec => []SpaceNotShared
<1>1. TypeOK /\ SpaceInv => SpaceNotShared
  BY DEF TypeOK, SpaceInv, CurrentIsOwn, SpaceNotShared
<1> QED BY <1>1, SpacesCorrect, TypeCorrect, PTL

\* After its wait on hSemAR the scheduler finds a clear flag: GetAvailableSpace never
\* answers -1, which would lose a unit.
THEOREM ScanAlwaysSucceeds == Spec => []ScanSucceeds
<1>1. TypeOK /\ SpaceInv => ScanSucceeds
  <2> SUFFICES ASSUME TypeOK, SpaceInv, schedPc = "scan", \A s \in Spaces : used[s]
               PROVE  FALSE
    BY DEF ScanSucceeds
  <2>1. UsedSpaces = Spaces
    BY DEF UsedSpaces
  <2>2. semAR + 1 + MAX_SERVICE_THREAD = MAX_SERVICE_THREAD
    BY <2>1, UsedFinite DEF SpaceInv, SpacesConserved
  <2> QED BY <2>2, SMT DEF TypeOK
<1> QED BY <1>1, SpacesCorrect, TypeCorrect, PTL
=============================================================================
