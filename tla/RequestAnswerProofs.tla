----------------------- MODULE RequestAnswerProofs -----------------------
(***************************************************************************)
(* Each agent gets the answer to its own request, for any number of        *)
(* agents, slots and records, as long as no slot is shared.                *)
(*                                                                         *)
(* The argument follows a request: from the agent into its slot            *)
(* (QueueHolds), to the scheduler (SchedulerServes), back into the slot    *)
(* and with the event to the agent (AnswersArrive), and, if accepted,      *)
(* through one service thread to one start message (StartsOnce).  A step   *)
(* of one agent cannot disturb the request of another, since their slots   *)
(* differ (SlotsOwned); a step of the scheduler cannot, since the slot it  *)
(* answers is not one that waits for it (RingPrevious, with the bound on   *)
(* unanswered requests that WakeupsCovered gives).                         *)
(***************************************************************************)
EXTENDS RequestQueueProofs

USE QueueAssumption

\* What AnswerInv says as long as no slot is shared.
RoundTrip == SlotsOwned /\ QueueHolds /\ SchedulerServes /\ AnswersArrive /\ StartsOnce

\* Slot i is one of the n slots from head on; one of those from head to tail.
FromHead(i, head, n) == \E k \in 0 .. n - 1 : i = (head + k) % N

Queued(i) == FromHead(i, pointerOut, Length)

-----------------------------------------------------------------------------
(* The queued slots *)

LEMMA QueueLength ==
  ASSUME QueueInv
  PROVE  /\ Pending \in Nat /\ Unannounced \in {0, 1} /\ pointerOut \in Slots
         /\ schedPtr \in Slots
         /\ Length \in 0 .. N
         /\ Processing => Length \in 0 .. N - 1
         /\ \A a \in Agents : agentPc[a] = "fill" => Pending <= N - 1 /\ Unannounced = 0
<1>1. /\ Pending \in Nat /\ Unanswered \in Nat /\ Unannounced \in {0, 1}
      /\ pointerOut \in Slots /\ schedPtr \in Slots
  BY PendingType DEF QueueInv, TypeOK, Unannounced
<1>2. Unanswered <= N /\ (Unannounced = 1 => Unanswered <= N - 1)
  BY RingBound DEF QueueInv, Unannounced
<1>3. \A a \in Agents : agentPc[a] = "fill" => Unanswered <= N - 1 /\ Unannounced = 0
  BY RingBound DEF QueueInv, Unannounced, MutexInv
<1>4. /\ Length \in 0 .. N
      /\ Processing => Length \in 0 .. N - 1
  BY <1>1, <1>2, SMT DEF Unanswered, Length
<1>5. Pending <= Unanswered
  BY <1>1, SMT DEF Unanswered
<1> QED BY <1>1, <1>3, <1>4, <1>5, SMT

LEMMA QueuedSlot ==
  ASSUME QueueInv, NEW i, Queued(i)
  PROVE  i \in Slots /\ (Processing => i # schedPtr)
<1>1. PICK k \in 0 .. Length - 1 : i = (pointerOut + k) % N
  BY DEF Queued, FromHead
<1>2. k \in Nat /\ k \in 0 .. N - 1
  BY <1>1, QueueLength, SMT
<1>3. i \in Slots
  BY <1>1, <1>2, QueueLength, RingForward
<1>4. ASSUME Processing PROVE i # schedPtr
  <2>1. k + 1 < N
    BY <1>1, <1>4, QueueLength, SMT
  <2>2. pointerOut = Succ(schedPtr)
    BY <1>4 DEF QueueInv, AnswersLast
  <2> QED BY <1>1, <1>2, <2>1, <2>2, QueueLength, RingPrevious
<1> QED BY <1>3, <1>4

LEMMA QueuedAsked ==
  QueueHolds <=> \A i : Queued(i) =>
    \E a \in Agents : Asks(a) /\ ptr[a] = i /\ slot[i] = Asked(a)
<1>1. ASSUME QueueHolds, NEW i, Queued(i)
      PROVE  \E a \in Agents : Asks(a) /\ ptr[a] = i /\ slot[i] = Asked(a)
  <2>1. PICK k \in 0 .. Length - 1 : i = (pointerOut + k) % N
    BY <1>1 DEF Queued, FromHead
  <2> QED BY <1>1, <2>1, Zenon DEF QueueHolds
<1>2. ASSUME \A i : Queued(i) =>
               \E a \in Agents : Asks(a) /\ ptr[a] = i /\ slot[i] = Asked(a),
             NEW k \in 0 .. Length - 1
      PROVE  \E a \in Agents : Asks(a) /\ ptr[a] = (pointerOut + k) % N
                               /\ slot[ptr[a]] = Asked(a)
  <2>1. Queued((pointerOut + k) % N)
    BY DEF Queued, FromHead
  <2> QED BY <1>2, <2>1, Zenon
<1> QED BY <1>1, <1>2 DEF QueueHolds

\* The same with the state after a step.
LEMMA QueuedAskedNext ==
  ASSUME \A i : FromHead(i, pointerOut', Length') =>
           \E a \in Agents : Asks(a)' /\ ptr'[a] = i /\ slot'[i] = Asked(a)
  PROVE  QueueHolds'
<1>1. ASSUME NEW k \in (0 .. Length - 1)'
      PROVE  (\E a \in Agents : Asks(a) /\ ptr[a] = (pointerOut + k) % N
                               /\ slot[ptr[a]] = Asked(a))'
  <2>1. FromHead((pointerOut' + k) % N, pointerOut', Length')
    BY DEF FromHead
  <2> QED BY <2>1, Zenon DEF Asked
<1> QED BY <1>1 DEF QueueHolds

\* A request is queued when its slot is filled, and leaves when it is dequeued.
LEMMA QueuedFill ==
  ASSUME QueueInv, NEW a \in Agents, FillSlot(a), NEW i, FromHead(i, pointerOut', Length')
  PROVE  i = ptr[a] \/ Queued(i)
<1>1. Unannounced = 0 /\ Unannounced' = 1 /\ Pending' = Pending /\ pointerOut' = pointerOut
  BY QueueLength DEF FillSlot, Goto, Unannounced, Pending, Dequeuing, schedVars, QueueInv,
                     TypeOK
<1>2. PICK k \in 0 .. Pending : i = (pointerOut + k) % N
  <2>1. PICK k \in 0 .. Length' - 1 : i = (pointerOut' + k) % N
    BY DEF Queued, FromHead
  <2>2. k \in 0 .. Pending
    BY <1>1, <2>1, QueueLength, SMT DEF Length
  <2> QED BY <1>1, <2>1, <2>2
<1>3. CASE k = Pending
  <2>1. ptr[a] = pointerIn
    BY DEF FillSlot, Goto, QueueInv, MutexInv
  <2>2. pointerIn = (pointerOut + Pending + 0) % N
    BY <1>1 DEF QueueInv, RingConsistent
  <2> QED BY <1>2, <1>3, <2>1, <2>2, QueueLength, SMT DEF Slots
<1>4. CASE k # Pending
  <2>1. k \in 0 .. Length - 1
    BY <1>1, <1>2, <1>4, QueueLength, SMT DEF Length
  <2> QED BY <1>2, <2>1 DEF Queued, FromHead
<1> QED BY <1>3, <1>4

LEMMA QueuedHead ==
  ASSUME QueueInv, Dequeue
  PROVE  Queued(pointerOut)
<1>1. Pending >= 1
  BY SMT DEF Dequeue, Pending, Dequeuing, QueueInv, TypeOK
<1>2. 0 \in 0 .. Length - 1
  BY <1>1, QueueLength, SMT DEF Length
<1>3. pointerOut = (pointerOut + 0) % N
  BY WrapSum, QueueLength, SMT DEF Slots
<1> QED BY <1>2, <1>3 DEF Queued, FromHead

LEMMA QueuedDequeue ==
  ASSUME QueueInv, Dequeue, NEW i, FromHead(i, pointerOut', Length')
  PROVE  Queued(i)
<1>1. /\ Pending' = Pending - 1 /\ Unannounced' = Unannounced
      /\ pointerOut' = Succ(pointerOut)
  BY QueueLength, SMT DEF Dequeue, Pending, Dequeuing, Unannounced, agentVars, QueueInv,
                          TypeOK
<1>2. PICK k \in 0 .. Length' - 1 : i = (pointerOut' + k) % N
  BY DEF Queued, FromHead
<1> DEFINE j == k + 1
<1>3. j \in 1 .. N /\ j \in 0 .. Length - 1 /\ k = j - 1
  <2>1. Length' = Length - 1 /\ Length \in Nat
    BY <1>1, QueueLength, SMT DEF Length
  <2> QED BY <1>2, <2>1, QueueLength, SMT
<1>4. (Succ(pointerOut) + (j - 1)) % N = (pointerOut + j) % N
  BY <1>3, QueueLength, RingShift
<1>5. i = (pointerOut + j) % N
  BY <1>1, <1>2, <1>3, <1>4
<1> HIDE DEF j
<1> QED BY <1>3, <1>5 DEF Queued, FromHead

LEMMA QueuedSame ==
  ASSUME QueueInv, [Next]_vars, ~Dequeue, \A a \in Agents : ~FillSlot(a)
  PROVE  \A i : FromHead(i, pointerOut', Length') => Queued(i)
<1>1. CASE pointerOut' = pointerOut /\ Pending' + Unannounced' = Pending + Unannounced
  <2>1. Length' = Length
    BY <1>1 DEF Length
  <2> QED BY <1>1, <2>1 DEF Queued, FromHead
<1>2. ASSUME NEW a \in Agents, Publish(a)
      PROVE  pointerOut' = pointerOut /\ Pending' + Unannounced' = Pending + Unannounced
  <2>1. Unannounced = 1 /\ Unannounced' = 0
    BY <1>2 DEF Publish, Goto, Unannounced, MutexInv, QueueInv, TypeOK
  <2>2. Pending' = Pending + 1 /\ pointerOut' = pointerOut
    BY <1>2, SMT DEF Publish, Pending, Dequeuing, schedVars, QueueInv, TypeOK
  <2> QED BY <2>1, <2>2, QueueLength, SMT
<1>3. ASSUME NEW a \in Agents,
             AcquireResource(a) \/ LockQueue(a) \/ ResetSlotEvent(a) \/ Wake(a)
             \/ TakeResponse(a) \/ ClearSlot(a) \/ ReturnSlot(a) \/ WriteReply(a) \/ ReplyFails(a)
             \/ AwaitServiceStart(a)
      PROVE  pointerOut' = pointerOut /\ Pending' + Unannounced' = Pending + Unannounced
  <2>1. UNCHANGED <<pointerOut, userSem, schedPc>>
    BY <1>3 DEF AcquireResource, LockQueue, ResetSlotEvent, Wake, TakeResponse, ClearSlot,
                ReturnSlot, WriteReply, ReplyFails, AwaitServiceStart, queueVars, schedVars
  <2>2. Unannounced' = Unannounced
    BY <1>3 DEF AcquireResource, LockQueue, ResetSlotEvent, Wake, TakeResponse, ClearSlot,
                ReturnSlot, WriteReply, ReplyFails, AwaitServiceStart, Goto, Unannounced, QueueInv, TypeOK
  <2> QED BY <2>1, <2>2 DEF Pending, Dequeuing
<1>4. ASSUME WaitSpace \/ TakeSpace \/ AwaitRequest \/ AcceptLogon
             \/ RefuseLogon \/ Respond \/ Signal \/ FreeRefused
      PROVE  pointerOut' = pointerOut /\ Pending' + Unannounced' = Pending + Unannounced
  <2>1. UNCHANGED <<pointerOut, agentPc>>
    BY <1>4 DEF WaitSpace, TakeSpace, AwaitRequest, AcceptLogon, RefuseLogon, Respond,
                Signal, FreeRefused, queueVars, agentVars
  <2>2. Pending' = Pending
    BY <1>4, SMT DEF WaitSpace, TakeSpace, AwaitRequest, AcceptLogon, RefuseLogon, Respond,
                Signal, FreeRefused, queueVars, Pending, Dequeuing, QueueInv, TypeOK
  <2> QED BY <2>1, <2>2 DEF Unannounced
<1>5. UNCHANGED <<pointerOut, userSem, schedPc, agentPc>> =>
        pointerOut' = pointerOut /\ Pending' + Unannounced' = Pending + Unannounced
  BY DEF Pending, Dequeuing, Unannounced
<1>6. ASSUME NEW s \in Spaces
      PROVE  ShellNext(s) => UNCHANGED <<pointerOut, userSem, schedPc, agentPc>>
  BY DEF ShellNext, ShellCopies, ShellFrees, queueVars, agentVars, schedVars
<1>7. UNCHANGED vars => UNCHANGED <<pointerOut, userSem, schedPc, agentPc>>
  BY DEF vars, queueVars, agentVars, schedVars
<1> QED
  BY <1>1, <1>2, <1>3, <1>4, <1>5, <1>6, <1>7 DEF Next, AgentNext, SchedulerNext

-----------------------------------------------------------------------------
(* A step of an agent *)

\* An agent's step touches no other agent's locals, and of the ring at most its own slot.
LEMMA AgentFrame ==
  ASSUME QueueInv, NEW a \in Agents, AgentNext(a)
  PROVE  /\ UNCHANGED <<schedPc, schedPtr, current, verdict, space, shell, client, pointerOut>>
         /\ \A b \in Agents : b # a =>
              /\ agentPc'[b] = agentPc[b] /\ ptr'[b] = ptr[b] /\ reply'[b] = reply[b]
              /\ started'[b] = started[b] /\ decided'[b] = decided[b]
         /\ \A i \in Slots : event'[i] => event[i]
         /\ \A i \in Slots : slot'[i] = slot[i] \/ (Owns(a) /\ i = ptr[a])
         /\ lapped => lapped'
<1> USE DEF QueueInv, TypeOK, Goto, queueVars, schedVars, spaceVars, ghostVars, Owns
<1>1. CASE AcquireResource(a)
  BY <1>1 DEF AcquireResource
<1>2. CASE LockQueue(a)
  BY <1>2 DEF LockQueue
<1>3. CASE ResetSlotEvent(a)
  BY <1>3 DEF ResetSlotEvent
<1>4. CASE FillSlot(a)
  BY <1>4 DEF FillSlot
<1>5. CASE Publish(a)
  BY <1>5 DEF Publish
<1>6. CASE Wake(a)
  BY <1>6 DEF Wake
<1>7. CASE TakeResponse(a)
  BY <1>7 DEF TakeResponse
<1>8. CASE ClearSlot(a)
  BY <1>8 DEF ClearSlot
<1>9. CASE ReturnSlot(a)
  BY <1>9 DEF ReturnSlot
<1>10. CASE WriteReply(a)
  BY <1>10 DEF WriteReply
<1>11. CASE ReplyFails(a)
  BY <1>11 DEF ReplyFails
<1>12. CASE AwaitServiceStart(a)
  BY <1>12 DEF AwaitServiceStart
<1> QED
  BY <1>1, <1>2, <1>3, <1>4, <1>5, <1>6, <1>7, <1>8, <1>9, <1>10, <1>11, <1>12
  DEF AgentNext

\* So the slot of another agent keeps its content.
LEMMA OtherSlot ==
  ASSUME QueueInv, SlotsOwned, NEW a \in Agents, AgentNext(a), NEW b \in Agents, b # a,
         Owns(b)
  PROVE  slot'[ptr[b]] = slot[ptr[b]]
BY AgentFrame DEF SlotsOwned, QueueInv, TypeOK

\* A set event wakes the agent that the answer is for.
LEMMA WokenIsAnswered ==
  ASSUME QueueInv, SlotsOwned, AnswersArrive, NEW a \in Agents, agentPc[a] = "wait",
         event[ptr[a]]
  PROVE  slot[ptr[a]] = Answer(a) /\ Decided(a)
<1>1. PICK b \in Agents :
        agentPc[b] = "wait" /\ ptr[b] = ptr[a] /\ slot[ptr[a]] = Answer(b) /\ Decided(b)
  BY DEF AnswersArrive, QueueInv, TypeOK
<1>2. b = a
  BY <1>1 DEF SlotsOwned, Owns
<1> QED BY <1>1, <1>2

\* ResetEvent is where a slot is taken: the history tells whether it was free.
LEMMA OwnedAgent ==
  ASSUME QueueInv, SlotsOwned, NEW a \in Agents, AgentNext(a), ~lapped'
  PROVE  SlotsOwned'
<1> USE DEF Owns, SlotsOwned
<1>1. ASSUME ResetSlotEvent(a), NEW b \in Agents, b # a, Owns(b), ptr[b] = ptr[a]
      PROVE  FALSE
  <2>1. UsingSlot(ptr[a]) = {}
    BY <1>1 DEF ResetSlotEvent
  <2>2. agentPc[b] \in {"fill", "publish"}
    BY <1>1, <2>1 DEF UsingSlot
  <2> QED BY <1>1, <2>2 DEF ResetSlotEvent, Goto, QueueInv, MutexInv
<1>2. CASE ResetSlotEvent(a)
  BY <1>1, <1>2 DEF ResetSlotEvent, Goto, QueueInv, TypeOK
<1>3. CASE ~ResetSlotEvent(a)
  <2>1. \A b \in Agents : Owns(b)' => Owns(b) /\ ptr'[b] = ptr[b]
    BY <1>3 DEF AgentNext, AcquireResource, LockQueue, FillSlot, Publish, Wake, TakeResponse,
                ClearSlot, ReturnSlot, WriteReply, ReplyFails, AwaitServiceStart, Goto, queueVars, QueueInv, TypeOK
  <2> QED BY <2>1
<1> QED BY <1>2, <1>3

LEMMA QueueAgent ==
  ASSUME QueueInv, RoundTrip, NEW a \in Agents, AgentNext(a)
  PROVE  QueueHolds'
<1> USE DEF RoundTrip
<1>1. ASSUME NEW i, Queued(i), AgentNext(a)
      PROVE  \E b \in Agents : Asks(b)' /\ ptr'[b] = i /\ slot'[i] = Asked(b)
  <2>1. PICK b \in Agents : Asks(b) /\ ptr[b] = i /\ slot[i] = Asked(b)
    BY <1>1, QueuedAsked
  <2>2. CASE b # a
    BY <2>1, <2>2, AgentFrame, OtherSlot DEF Asks, Owns
  <2>3. CASE b = a
    <3>1. Publish(a)
      <4>1. ~Wake(a)
        BY <2>1, <2>3, WokenIsAnswered DEF Wake, Goto, Asks, Decided
      <4> QED
        BY <1>1, <2>1, <2>3, <4>1
        DEF AgentNext, AcquireResource, LockQueue, ResetSlotEvent, FillSlot, TakeResponse,
            ClearSlot, ReturnSlot, WriteReply, ReplyFails, AwaitServiceStart, Goto, Asks
    <3> QED BY <2>1, <2>3, <3>1 DEF Publish, Goto, Asks, ghostVars, QueueInv, TypeOK
  <2> QED BY <2>2, <2>3
<1>2. CASE FillSlot(a)
  <2>1. /\ Asks(a)' /\ ptr'[a] = ptr[a] /\ slot'[ptr[a]] = Asked(a)
    BY <1>2 DEF FillSlot, Goto, Asks, Asked, QueueInv, TypeOK
  <2>2. ASSUME NEW i, FromHead(i, pointerOut', Length')
        PROVE  \E b \in Agents : Asks(b)' /\ ptr'[b] = i /\ slot'[i] = Asked(b)
    BY <1>1, <1>2, <2>1, <2>2, QueuedFill
  <2> QED BY <2>2, QueuedAskedNext
<1>3. CASE ~FillSlot(a)
  <2>1. ~Dequeue /\ \A b \in Agents : ~FillSlot(b)
    <3>1. agentPc' # agentPc
      BY DEF AgentNext, AcquireResource, LockQueue, ResetSlotEvent, FillSlot, Publish, Wake,
             TakeResponse, ClearSlot, ReturnSlot, WriteReply, ReplyFails, AwaitServiceStart, Goto, QueueInv, TypeOK
    <3>2. ~Dequeue
      BY <3>1 DEF Dequeue, agentVars
    <3>3. ASSUME NEW b \in Agents, FillSlot(b) PROVE b = a
      <4>1. agentPc'[b] # agentPc[b]
        BY <3>3 DEF FillSlot, Goto, QueueInv, TypeOK
      <4> QED BY <4>1, AgentFrame
    <3> QED BY <1>3, <3>2, <3>3
  <2>2. \A i : FromHead(i, pointerOut', Length') => Queued(i)
    BY <2>1, QueuedSame DEF Next
  <2>3. ASSUME NEW i, FromHead(i, pointerOut', Length')
        PROVE  \E b \in Agents : Asks(b)' /\ ptr'[b] = i /\ slot'[i] = Asked(b)
    BY <1>1, <2>2, <2>3
  <2> QED BY <2>3, QueuedAskedNext
<1> QED BY <1>2, <1>3

LEMMA ServesAgent ==
  ASSUME QueueInv, RoundTrip, NEW a \in Agents, AgentNext(a)
  PROVE  SchedulerServes'
<1> SUFFICES ASSUME Processing PROVE SchedulerServes'
  BY AgentFrame DEF SchedulerServes, Processing
<1>1. PICK c \in Agents :
        /\ agentPc[c] = "wait" /\ ptr[c] = schedPtr /\ ~event[schedPtr]
        /\ schedPc = "logon" => space[current] = Asked(c) /\ ~Decided(c)
        /\ schedPc = "respond" => space[current].agent = c /\ decided[c] = verdict
        /\ schedPc = "signal" =>
             slot[schedPtr] = Answer(c) /\ decided[c] = verdict /\ Decided(c)
  BY DEF RoundTrip, SchedulerServes
<1>2. c # a
  BY <1>1 DEF AgentNext, AcquireResource, LockQueue, ResetSlotEvent, FillSlot, Publish, Wake,
              TakeResponse, ClearSlot, ReturnSlot, WriteReply, ReplyFails, AwaitServiceStart, Goto
<1>3. /\ agentPc'[c] = "wait" /\ ptr'[c] = schedPtr' /\ ~event'[schedPtr']
      /\ UNCHANGED <<schedPc, current, verdict, space, schedPtr>>
      /\ decided'[c] = decided[c]
  BY <1>1, <1>2, AgentFrame DEF QueueInv, TypeOK
<1>4. slot'[schedPtr] = slot[schedPtr]
  BY <1>1, <1>2, OtherSlot DEF RoundTrip, Owns
<1> QED BY <1>1, <1>3, <1>4 DEF SchedulerServes, Asked, Answer, Decided

LEMMA AnswersAgent ==
  ASSUME QueueInv, RoundTrip, NEW a \in Agents, AgentNext(a)
  PROVE  AnswersArrive'
<1> USE DEF RoundTrip
<1>1. ASSUME NEW i \in Slots, event'[i]
      PROVE  \E b \in Agents : agentPc'[b] = "wait" /\ ptr'[b] = i /\ slot'[i] = Answer(b)'
                               /\ Decided(b)'
  <2>1. PICK b \in Agents :
          agentPc[b] = "wait" /\ ptr[b] = i /\ slot[i] = Answer(b) /\ Decided(b)
    BY <1>1, AgentFrame DEF AnswersArrive
  <2>2. b # a
    BY <1>1, <2>1 DEF AgentNext, AcquireResource, LockQueue, ResetSlotEvent, FillSlot,
       Publish, Wake, TakeResponse, ClearSlot, ReturnSlot, WriteReply, ReplyFails, AwaitServiceStart, Goto, QueueInv,
       TypeOK
  <2>3. slot'[i] = slot[i]
    BY <2>1, <2>2, OtherSlot DEF Owns
  <2> QED BY <2>1, <2>2, <2>3, AgentFrame DEF Answer, Decided
<1>2. ASSUME NEW b \in Agents, b # a
      PROVE  /\ agentPc'[b] = "copy" => slot'[ptr'[b]] = Answer(b)' /\ Decided(b)'
             /\ agentPc'[b] \in {"clear", "return"} =>
                  reply'[b] = Answer(b)' /\ Decided(b)'
  BY <1>2, AgentFrame, OtherSlot DEF AnswersArrive, Answer, Decided, Owns
<1>3. /\ agentPc'[a] = "copy" => slot'[ptr'[a]] = Answer(a)' /\ Decided(a)'
      /\ agentPc'[a] \in {"clear", "return"} => reply'[a] = Answer(a)' /\ Decided(a)'
  <2> USE DEF Goto, ghostVars, Answer, Decided, QueueInv, TypeOK
  <2>1. CASE Wake(a)
    BY <2>1, WokenIsAnswered DEF Wake, queueVars
  <2>2. CASE TakeResponse(a)
    BY <2>2 DEF TakeResponse, AnswersArrive, queueVars
  <2>3. CASE ClearSlot(a)
    <3>1. reply[a] = [kind |-> decided[a], agent |-> a] /\ decided[a] # "none"
      BY <2>3 DEF ClearSlot, AnswersArrive
    <3>2. agentPc'[a] = "return" /\ reply' = reply /\ decided' = decided
      BY <2>3 DEF ClearSlot
    <3> QED BY <3>1, <3>2
  <2>4. CASE ~(Wake(a) \/ TakeResponse(a) \/ ClearSlot(a))
    BY <2>4 DEF AgentNext, AcquireResource, LockQueue, ResetSlotEvent, FillSlot, Publish,
                ReturnSlot, WriteReply, ReplyFails, AwaitServiceStart
  <2> QED BY <2>1, <2>2, <2>3, <2>4
<1> QED BY <1>1, <1>2, <1>3 DEF AnswersArrive

\* An agent's step leaves the service threads alone, and an id leaves orphans only when
\* no service thread has still to post to it.
LEMMA OrphansAgent ==
  ASSUME QueueInv, NEW a \in Agents, AgentNext(a)
  PROVE  /\ \A s \in Spaces : ClientOf(s)' = ClientOf(s) /\ shell'[s] = shell[s]
         /\ \A b \in Agents : b # a => (b \in orphans' <=> b \in orphans)
         /\ (a \in orphans /\ a \notin orphans') \/ ReplyFails(a) =>
              a \in orphans' \/ (~started'[a] /\ ~StartUnderWay(a, {}))
<1>1. \A s \in Spaces : ClientOf(s)' = ClientOf(s) /\ shell'[s] = shell[s]
  BY AgentFrame DEF ClientOf
<1>2. CASE ReturnSlot(a)
  BY <1>1, <1>2 DEF ReturnSlot, Goto, Settle, ReplyFails, QueueInv, TypeOK
<1>3. CASE ReplyFails(a)
  BY <1>1, <1>3 DEF ReplyFails, Goto, QueueInv, TypeOK
<1>4. CASE AwaitServiceStart(a)
  BY <1>1, <1>4 DEF AwaitServiceStart, Goto, Settle, ReplyFails, QueueInv, TypeOK
<1>5. CASE ~(ReturnSlot(a) \/ ReplyFails(a) \/ AwaitServiceStart(a))
  BY <1>1, <1>5 DEF AgentNext, AcquireResource, LockQueue, ResetSlotEvent, FillSlot, Publish,
     Wake, TakeResponse, ClearSlot, WriteReply, ghostVars
<1> QED BY <1>2, <1>3, <1>4, <1>5

LEMMA StartsAgent ==
  ASSUME QueueInv, RoundTrip, NEW a \in Agents, AgentNext(a)
  PROVE  StartsOnce'
<1> USE DEF RoundTrip
<1>1. \A s \in Spaces : ClientOf(s)' = ClientOf(s) /\ shell'[s] = shell[s]
  BY OrphansAgent
<1>2. ASSUME Accepted(a), ~ReplyFails(a), ~AwaitServiceStart(a)
      PROVE  Accepted(a)' /\ started'[a] = started[a]
  <2>1. agentPc[a] = "return" => reply[a].kind = "ok"
    <3>1. agentPc[a] = "return" => reply[a] = [kind |-> decided[a], agent |-> a]
      BY DEF AnswersArrive, Answer
    <3> QED BY <1>2, <3>1 DEF Accepted
  <2> QED
    BY <1>2, <2>1 DEF AgentNext, AcquireResource, LockQueue, ResetSlotEvent, FillSlot, Publish,
       Wake, TakeResponse, ClearSlot, ReturnSlot, WriteReply, Goto, ghostVars, Accepted,
       QueueInv, TypeOK
<1>3. \A b \in Agents : b # a =>
        /\ Accepted(b)' = Accepted(b) /\ started'[b] = started[b]
        /\ (b \in orphans' <=> b \in orphans)
  BY AgentFrame, OrphansAgent DEF Accepted
<1>4. started'[a] => started[a]
  BY DEF AgentNext, AcquireResource, LockQueue, ResetSlotEvent, FillSlot, Publish,
         Wake, TakeResponse, ClearSlot, ReturnSlot, WriteReply, ReplyFails,
         AwaitServiceStart, QueueInv, TypeOK
\* Of a itself, when it is no orphan: what holds of it goes on, or nothing is left of it.
<1>5. ASSUME a \notin orphans'
      PROVE  /\ started'[a] => Accepted(a)'
             /\ \A s \in Spaces : shell[s] # "none" /\ ClientOf(s) = a =>
                  /\ Accepted(a)' /\ ~started'[a]
                  /\ \A t \in Spaces : t # s /\ shell[t] # "none" => ClientOf(t) # a
  <2>1. CASE a \in orphans \/ ReplyFails(a)
    BY <1>5, <2>1, OrphansAgent DEF StartUnderWay
  <2>2. CASE a \notin orphans /\ ~ReplyFails(a) /\ ~AwaitServiceStart(a)
    BY <1>2, <1>4, <2>2 DEF StartsOnce
  <2>3. CASE a \notin orphans /\ AwaitServiceStart(a)
    BY <2>3 DEF AwaitServiceStart, StartsOnce, QueueInv, TypeOK
  <2> QED BY <2>1, <2>2, <2>3
<1>6. \A b \in Agents \ orphans' : started'[b] => Accepted(b)'
  BY <1>3, <1>5 DEF StartsOnce
<1>7. \A s \in Spaces : shell'[s] # "none" => ClientOf(s)' \in Agents
  BY <1>1 DEF StartsOnce
<1>8. ASSUME NEW s \in Spaces, shell'[s] # "none", ClientOf(s)' \notin orphans'
      PROVE  /\ Accepted(ClientOf(s))' /\ ~started'[ClientOf(s)']
             /\ \A t \in Spaces : t # s /\ shell'[t] # "none" => ClientOf(t)' # ClientOf(s)'
  <2>1. ClientOf(s)' = ClientOf(s) /\ ClientOf(s) \in Agents /\ shell[s] # "none"
    BY <1>1, <1>7, <1>8
  <2>2. CASE ClientOf(s) = a
    <3>1. Accepted(a)' /\ ~started'[a]
          /\ \A t \in Spaces : t # s /\ shell[t] # "none" => ClientOf(t) # a
      BY <1>5, <1>8, <2>1, <2>2
    <3> QED BY <1>1, <2>1, <2>2, <3>1 DEF Accepted
  <2>3. CASE ClientOf(s) # a
    <3>1. /\ ClientOf(s) \notin orphans /\ Accepted(ClientOf(s)) /\ ~started[ClientOf(s)]
          /\ \A t \in Spaces : t # s /\ shell[t] # "none" => ClientOf(t) # ClientOf(s)
      BY <1>3, <1>8, <2>1, <2>3 DEF StartsOnce
    <3> QED BY <1>1, <1>3, <2>1, <2>3, <3>1 DEF Accepted
  <2> QED BY <2>2, <2>3
<1> QED BY <1>6, <1>7, <1>8 DEF StartsOnce

-----------------------------------------------------------------------------
(* A step of the scheduler *)

\* The agent that the scheduler works for, by what it has done for it.
Served(c) ==
  /\ agentPc[c] = "wait" /\ ptr[c] = schedPtr /\ ~event[schedPtr]
  /\ schedPc = "logon" => space[current] = Asked(c) /\ ~Decided(c)
  /\ schedPc = "respond" => space[current].agent = c /\ decided[c] = verdict
  /\ schedPc = "signal" => slot[schedPtr] = Answer(c) /\ decided[c] = verdict /\ Decided(c)

\* A logon decides the one request it is about.
LEMMA LogonDecides ==
  ASSUME QueueInv, RoundTrip, AcceptLogon \/ RefuseLogon
  PROVE  \E c \in Agents :
           /\ Served(c) /\ ~Decided(c)
           /\ space[current].agent = c
           /\ decided' = [decided EXCEPT ![c] = verdict']
           /\ verdict' # "none"
<1>1. schedPc = "logon" /\ Processing
  BY DEF AcceptLogon, RefuseLogon, Processing
<1>2. PICK c \in Agents : Served(c)
  BY <1>1 DEF RoundTrip, SchedulerServes, Served
<1>3. space[current].kind = "request" /\ space[current].agent = c /\ ~Decided(c)
  BY <1>1, <1>2 DEF Served, Asked
<1>4. decided' = [decided EXCEPT ![c] = verdict'] /\ verdict' # "none"
  BY <1>3 DEF AcceptLogon, RefuseLogon, Decide
<1> QED BY <1>2, <1>3, <1>4

LEMMA QueueScheduler ==
  ASSUME QueueInv, RoundTrip, SchedulerNext
  PROVE  QueueHolds'
<1> USE DEF RoundTrip
<1>0. agentPc' = agentPc /\ ptr' = ptr
  BY DEF SchedulerNext, WaitSpace, TakeSpace, AwaitRequest, Dequeue, AcceptLogon,
         RefuseLogon, Respond, Signal, FreeRefused, agentVars
<1>1. ASSUME NEW i, FromHead(i, pointerOut', Length') PROVE Queued(i)
  <2>1. CASE Dequeue
    BY <1>1, <2>1, QueuedDequeue
  <2>2. CASE ~Dequeue
    <3>1. \A a \in Agents : ~FillSlot(a)
      BY <1>0 DEF FillSlot, Goto, QueueInv, TypeOK
    <3> QED BY <1>1, <2>2, <3>1, QueuedSame DEF Next
  <2> QED BY <2>1, <2>2
<1>2. ASSUME NEW i, Queued(i)
      PROVE  \E b \in Agents : Asks(b)' /\ ptr'[b] = i /\ slot'[i] = Asked(b)
  <2>1. PICK b \in Agents : Asks(b) /\ ptr[b] = i /\ slot[i] = Asked(b)
    BY <1>2, QueuedAsked
  <2>2. i \in Slots /\ (Processing => i # schedPtr)
    BY <1>2, QueuedSlot
  <2>3. slot'[i] = slot[i]
    BY <2>2 DEF SchedulerNext, WaitSpace, TakeSpace, AwaitRequest, Dequeue, AcceptLogon,
       RefuseLogon, Respond, Signal, FreeRefused, queueVars, Processing, QueueInv, TypeOK
  <2>4. decided'[b] = decided[b]
    <3>1. CASE AcceptLogon \/ RefuseLogon
      <4>1. PICK c \in Agents : Served(c) /\ decided' = [decided EXCEPT ![c] = verdict']
        BY <3>1, LogonDecides
      <4>2. b # c
        BY <2>1, <2>2, <3>1, <4>1 DEF Served, AcceptLogon, RefuseLogon, Processing
      <4> QED BY <4>1, <4>2 DEF QueueInv, TypeOK
    <3>2. CASE ~(AcceptLogon \/ RefuseLogon)
      BY <3>2 DEF SchedulerNext, WaitSpace, TakeSpace, AwaitRequest, Dequeue, Respond, Signal,
                  FreeRefused, ghostVars
    <3> QED BY <3>1, <3>2
  <2> QED BY <1>0, <2>1, <2>3, <2>4 DEF Asks
<1> QED BY <1>1, <1>2, QueuedAskedNext

LEMMA ServesScheduler ==
  ASSUME QueueInv, RoundTrip, SchedulerNext
  PROVE  SchedulerServes'
<1> USE DEF RoundTrip
<1>1. CASE WaitSpace \/ TakeSpace \/ AwaitRequest \/ Signal \/ FreeRefused
  BY <1>1 DEF WaitSpace, TakeSpace, AwaitRequest, Signal, FreeRefused, SchedulerServes,
              Processing
<1>2. CASE Dequeue
  <2>1. PICK b \in Agents : Asks(b) /\ ptr[b] = pointerOut /\ slot[pointerOut] = Asked(b)
    BY <1>2, QueuedHead, QueuedAsked
  <2>2. agentPc[b] = "wait"
    BY <1>2, <2>1 DEF Dequeue, Asks, QueueInv, MutexInv
  <2>3. ~event[pointerOut] /\ ~Decided(b)
    BY <2>1, <2>2, WokenIsAnswered DEF Asks, Decided
  <2>4. /\ schedPtr' = pointerOut /\ space'[current'] = slot[pointerOut]
        /\ schedPc' = "logon" /\ agentPc' = agentPc /\ ptr' = ptr /\ event' = event
        /\ decided' = decided
    BY <1>2 DEF Dequeue, agentVars, ghostVars, QueueInv, TypeOK
  <2> QED BY <2>1, <2>2, <2>3, <2>4 DEF SchedulerServes, Processing, Asked, Decided
<1>3. CASE AcceptLogon \/ RefuseLogon
  <2>1. PICK c \in Agents : /\ Served(c) /\ space[current].agent = c
                            /\ decided' = [decided EXCEPT ![c] = verdict']
    BY <1>3, LogonDecides
  <2>2. /\ schedPc' = "respond"
        /\ UNCHANGED <<agentPc, ptr, event, schedPtr, space, current>>
    BY <1>3 DEF AcceptLogon, RefuseLogon, queueVars, agentVars, spaceVars
  <2>3. decided'[c] = verdict'
    BY <2>1 DEF QueueInv, TypeOK
  <2> QED BY <2>1, <2>2, <2>3 DEF SchedulerServes, Served
<1>4. CASE Respond
  <2>1. PICK c \in Agents : Served(c)
    BY <1>4 DEF SchedulerServes, Served, Respond, Processing
  <2>2. verdict # "none" /\ space[current].agent = c /\ decided[c] = verdict
    BY <1>4, <2>1 DEF Served, Respond, QueueInv, TypeOK
  <2>3. slot'[schedPtr] = [kind |-> verdict, agent |-> space[current].agent]
    BY <1>4 DEF Respond, QueueInv, TypeOK
  <2>4. /\ schedPc' = "signal"
        /\ UNCHANGED <<agentPc, ptr, event, schedPtr, verdict, decided>>
    BY <1>4 DEF Respond, agentVars, ghostVars
  <2> QED BY <2>1, <2>2, <2>3, <2>4 DEF SchedulerServes, Served, Answer, Decided
<1> QED BY <1>1, <1>2, <1>3, <1>4 DEF SchedulerNext

LEMMA AnswersScheduler ==
  ASSUME QueueInv, RoundTrip, SchedulerNext
  PROVE  AnswersArrive'
<1> USE DEF RoundTrip
<1>0. agentPc' = agentPc /\ ptr' = ptr /\ reply' = reply
  BY DEF SchedulerNext, WaitSpace, TakeSpace, AwaitRequest, Dequeue, AcceptLogon,
         RefuseLogon, Respond, Signal, FreeRefused, agentVars
<1>1. CASE UNCHANGED <<event, slot, decided>>
  BY <1>0, <1>1 DEF AnswersArrive, Answer, Decided
<1>2. CASE WaitSpace \/ TakeSpace \/ AwaitRequest \/ Dequeue \/ FreeRefused
  BY <1>1, <1>2 DEF WaitSpace, TakeSpace, AwaitRequest, Dequeue, FreeRefused, queueVars,
                    ghostVars
<1>3. CASE AcceptLogon \/ RefuseLogon
  <2>1. PICK c \in Agents : Served(c) /\ decided' = [decided EXCEPT ![c] = verdict']
    BY <1>3, LogonDecides
  <2>2. UNCHANGED <<event, slot>>
    BY <1>3 DEF AcceptLogon, RefuseLogon, queueVars
  <2>3. \A b \in Agents : b # c => decided'[b] = decided[b]
    BY <2>1 DEF QueueInv, TypeOK
  <2>4. agentPc[c] = "wait" /\ ~event[ptr[c]]
    BY <2>1 DEF Served
  <2>5. \A b \in Agents : b # c => Answer(b)' = Answer(b) /\ Decided(b)' = Decided(b)
    BY <2>3 DEF Answer, Decided
  <2>6. ASSUME NEW i \in Slots, event'[i]
        PROVE  \E b \in Agents : agentPc'[b] = "wait" /\ ptr'[b] = i /\ slot'[i] = Answer(b)'
                                 /\ Decided(b)'
    BY <1>0, <2>2, <2>4, <2>5, <2>6 DEF AnswersArrive
  <2>7. \A b \in Agents : agentPc[b] \in {"copy", "clear", "return"} => b # c
    BY <2>4
  <2> QED BY <1>0, <2>2, <2>5, <2>6, <2>7 DEF AnswersArrive
<1>4. CASE Respond
  <2>1. PICK c \in Agents : Served(c)
    BY <1>4 DEF SchedulerServes, Served, Respond, Processing
  <2>2. /\ \A i \in Slots : i # schedPtr => slot'[i] = slot[i]
        /\ UNCHANGED <<event, decided>>
    BY <1>4 DEF Respond, ghostVars, QueueInv, TypeOK
  <2>3. \A b \in Agents : agentPc[b] = "copy" => ptr[b] # schedPtr
    BY <2>1 DEF Served, SlotsOwned, Owns
  <2>4. \A b \in Agents : Answer(b)' = Answer(b) /\ Decided(b)' = Decided(b)
    BY <2>2 DEF Answer, Decided
  <2>5. \A i \in Slots : event'[i] => event[i] /\ slot'[i] = slot[i]
    BY <2>1, <2>2 DEF Served
  <2>6. \A b \in Agents : agentPc[b] = "copy" => slot'[ptr[b]] = slot[ptr[b]]
    BY <2>2, <2>3 DEF QueueInv, TypeOK
  <2> QED BY <1>0, <2>4, <2>5, <2>6 DEF AnswersArrive
<1>5. CASE Signal
  <2>1. PICK c \in Agents : Served(c)
    BY <1>5 DEF SchedulerServes, Served, Signal, Processing
  <2>2. agentPc[c] = "wait" /\ ptr[c] = schedPtr /\ slot[schedPtr] = Answer(c) /\ Decided(c)
    BY <1>5, <2>1 DEF Served, Signal
  <2>3. /\ \A i \in Slots : i # schedPtr => event'[i] = event[i]
        /\ UNCHANGED <<slot, decided>>
    BY <1>5 DEF Signal, ghostVars, QueueInv, TypeOK
  <2> QED BY <1>0, <2>2, <2>3 DEF AnswersArrive, Answer, Decided
<1> QED BY <1>2, <1>3, <1>4, <1>5 DEF SchedulerNext

LEMMA StartsScheduler ==
  ASSUME QueueInv, SpaceInv, RoundTrip, SchedulerNext
  PROVE  StartsOnce'
<1> USE DEF RoundTrip
<1>0. agentPc' = agentPc /\ started' = started /\ client' = client /\ orphans' = orphans
  BY DEF SchedulerNext, WaitSpace, TakeSpace, AwaitRequest, Dequeue, AcceptLogon,
         RefuseLogon, Respond, Signal, FreeRefused, agentVars, spaceVars, ghostVars
<1>1. CASE UNCHANGED <<space, shell, decided>>
  BY <1>0, <1>1 DEF StartsOnce, Accepted, ClientOf
<1>2. CASE WaitSpace \/ TakeSpace \/ AwaitRequest \/ Respond \/ Signal \/ FreeRefused
  BY <1>1, <1>2 DEF WaitSpace, TakeSpace, AwaitRequest, Respond, Signal, FreeRefused,
                    spaceVars, ghostVars
<1>3. CASE Dequeue
  <2>1. shell[current] = "none" /\ UNCHANGED <<shell, decided>>
    BY <1>3 DEF Dequeue, SpaceInv, CurrentIsOwn, ghostVars
  <2>2. \A s \in Spaces : shell[s] # "none" => ClientOf(s)' = ClientOf(s)
    BY <1>0, <1>3, <2>1 DEF Dequeue, ClientOf, QueueInv, TypeOK
  <2> QED BY <1>0, <2>1, <2>2 DEF StartsOnce, Accepted
<1>4. CASE AcceptLogon \/ RefuseLogon
  <2>1. PICK c \in Agents : /\ Served(c) /\ ~Decided(c) /\ space[current].agent = c
                            /\ decided' = [decided EXCEPT ![c] = verdict']
    BY <1>4, LogonDecides
  <2>2. ~Accepted(c) /\ agentPc[c] = "wait"
    BY <2>1 DEF Accepted, Decided, Served
  <2>3. \A b \in Agents : Accepted(b) => Accepted(b)'
    BY <1>0, <2>1, <2>2 DEF Accepted, QueueInv, TypeOK
  <2>4. c \notin orphans =>
          ~started[c] /\ \A s \in Spaces : shell[s] # "none" => ClientOf(s) # c
    BY <2>2 DEF StartsOnce
  <2>5. CASE RefuseLogon
    <3>1. \A s \in Spaces : shell'[s] = shell[s] /\ ClientOf(s)' = ClientOf(s)
      BY <1>0, <2>5 DEF RefuseLogon, spaceVars, ClientOf
    <3> QED BY <1>0, <2>3, <3>1 DEF StartsOnce
  <2>6. CASE AcceptLogon
    <3>1. Accepted(c)'
      BY <1>0, <2>1, <2>2, <2>6 DEF AcceptLogon, Accepted, QueueInv, TypeOK
    <3>2. \A s \in Spaces : s = current => shell'[s] = "created" /\ ClientOf(s)' = c
      BY <2>1, <2>6 DEF AcceptLogon, ClientOf, QueueInv, TypeOK
    <3>3. \A s \in Spaces : s # current => shell'[s] = shell[s] /\ ClientOf(s)' = ClientOf(s)
      BY <1>0, <2>6 DEF AcceptLogon, ClientOf, QueueInv, TypeOK
    <3>4. \A a \in Agents \ orphans' : started'[a] => Accepted(a)'
      BY <1>0, <2>3 DEF StartsOnce
    <3>5. \A s \in Spaces : shell'[s] # "none" => ClientOf(s)' \in Agents
      BY <3>2, <3>3 DEF StartsOnce
    <3>6. ASSUME NEW s \in Spaces, shell'[s] # "none", ClientOf(s)' \notin orphans'
          PROVE  Accepted(ClientOf(s))' /\ ~started'[ClientOf(s)']
      <4>1. CASE s = current
        BY <1>0, <2>4, <3>1, <3>2, <3>6, <4>1 DEF Accepted
      <4>2. CASE s # current
        <5>1. ClientOf(s)' = ClientOf(s) /\ shell[s] # "none"
          BY <3>3, <3>6, <4>2
        <5>2. ClientOf(s) \in Agents /\ Accepted(ClientOf(s)) /\ ~started[ClientOf(s)]
          BY <1>0, <3>6, <5>1 DEF StartsOnce
        <5>3. Accepted(ClientOf(s)) => \E b \in Agents : b = ClientOf(s) /\ Accepted(b)'
          BY <2>3, <5>2
        <5> QED BY <1>0, <5>1, <5>2, <5>3 DEF Accepted
      <4> QED BY <4>1, <4>2
    <3>7. ASSUME NEW s \in Spaces, NEW t \in Spaces, t # s,
                 shell'[s] # "none", shell'[t] # "none", ClientOf(s)' \notin orphans'
          PROVE  ClientOf(t)' # ClientOf(s)'
      <4>1. CASE s = current
        <5>1. \A u \in Spaces : u # current /\ shell'[u] # "none" => ClientOf(u)' # c
          BY <1>0, <2>4, <3>2, <3>3, <3>7, <4>1
        <5> QED BY <3>2, <3>7, <4>1, <5>1
      <4>2. CASE s # current /\ t = current
        <5>1. ClientOf(s)' = ClientOf(s) /\ shell[s] # "none" /\ ClientOf(s) \notin orphans
          BY <1>0, <3>3, <3>7, <4>2
        <5>2. ClientOf(s) # c
          BY <2>2, <5>1 DEF StartsOnce
        <5> QED BY <3>2, <4>2, <5>1, <5>2
      <4>3. CASE s # current /\ t # current
        BY <1>0, <3>3, <3>7, <4>3 DEF StartsOnce
      <4> QED BY <4>1, <4>2, <4>3
    <3> QED BY <3>4, <3>5, <3>6, <3>7 DEF StartsOnce
  <2> QED BY <1>4, <2>5, <2>6
<1> QED BY <1>2, <1>3, <1>4 DEF SchedulerNext

-----------------------------------------------------------------------------
(* A step of a service thread, and the whole *)

LEMMA StartsShell ==
  ASSUME QueueInv, RoundTrip, NEW s \in Spaces, ShellNext(s)
  PROVE  StartsOnce'
<1> USE DEF RoundTrip
<1>1. agentPc' = agentPc /\ decided' = decided /\ space' = space
  BY DEF ShellNext, ShellCopies, ShellFrees, agentVars, ghostVars
<1>2. \A b \in Agents : Accepted(b)' = Accepted(b)
  BY <1>1 DEF Accepted
<1>3. CASE ShellCopies(s)
  <2>1. /\ started' = started /\ orphans' = orphans
        /\ \A t \in Spaces : /\ ClientOf(t)' = ClientOf(t)
                             /\ shell'[t] # "none" <=> shell[t] # "none"
    BY <1>1, <1>3 DEF ShellCopies, ClientOf, agentVars, ghostVars, QueueInv, TypeOK
  <2> QED BY <1>2, <2>1 DEF StartsOnce
<1>4. CASE ShellFrees(s)
  <2>1. /\ shell[s] = "copied" /\ shell'[s] = "none"
        /\ \A t \in Spaces : t # s => shell'[t] = shell[t] /\ ClientOf(t)' = ClientOf(t)
    BY <1>1, <1>4 DEF ShellFrees, ClientOf, QueueInv, TypeOK
  <2>2. /\ client[s] = ClientOf(s) /\ client[s] \in Agents
        /\ client[s] \notin orphans => Accepted(client[s])
    BY <2>1 DEF ClientOf, StartsOnce
  <2>3. CASE started' = [started EXCEPT ![client[s]] = TRUE] /\ orphans' = orphans
    <3>1. \A b \in Agents : started'[b] <=> started[b] \/ b = client[s]
      BY <2>2, <2>3 DEF QueueInv, TypeOK
    <3> QED BY <1>2, <2>1, <2>2, <2>3, <3>1 DEF StartsOnce
  <2>4. CASE /\ agentPc[client[s]] = "idle" /\ started' = started
             /\ orphans' = IF StartUnderWay(client[s], {s}) \/ started[client[s]]
                           THEN orphans ELSE orphans \ {client[s]}
    <3>1. client[s] \in orphans
      BY <2>2, <2>4 DEF Accepted
    <3>2. client[s] \notin orphans' =>
            /\ ~started[client[s]]
            /\ \A t \in Spaces : shell'[t] # "none" => ClientOf(t)' # client[s]
      BY <2>1, <2>4, <3>1 DEF StartUnderWay
    <3>3. orphans' \subseteq orphans /\ \A b : b # client[s] => (b \in orphans' <=> b \in orphans)
      BY <2>4
    <3> QED BY <1>2, <2>1, <2>2, <2>4, <3>2, <3>3 DEF StartsOnce
  <2> QED BY <1>4, <2>2, <2>3, <2>4 DEF ShellFrees, PostStart
<1> QED BY <1>3, <1>4 DEF ShellNext

LEMMA RoundTripUnchanged ==
  ASSUME RoundTrip,
         UNCHANGED <<queueVars, agentPc, ptr, reply, schedVars, space, decided>>
  PROVE  SlotsOwned' /\ QueueHolds' /\ SchedulerServes' /\ AnswersArrive'
<1> USE DEF RoundTrip, queueVars, schedVars
<1>1. SlotsOwned'
  BY DEF SlotsOwned, Owns
<1>2. QueueHolds'
  <2>1. Length' = Length /\ pointerOut' = pointerOut
    BY DEF Length, Pending, Dequeuing, Unannounced
  <2> QED BY <2>1 DEF QueueHolds, Asks, Asked
<1>3. SchedulerServes'
  BY DEF SchedulerServes, Processing, Asked, Answer, Decided
<1>4. AnswersArrive'
  BY DEF AnswersArrive, Answer, Decided
<1> QED BY <1>1, <1>2, <1>3, <1>4

LEMMA AnswerStep ==
  QueueInv /\ SpaceInv /\ AnswerInv /\ [Next]_vars => AnswerInv'
<1> SUFFICES ASSUME QueueInv, SpaceInv, AnswerInv, [Next]_vars, ~lapped'
             PROVE  RoundTrip'
  BY DEF AnswerInv, RoundTrip
<1>1. ~lapped
  <2>1. \A a \in Agents : AgentNext(a) => (lapped => lapped')
    BY AgentFrame
  <2>2. SchedulerNext => lapped' = lapped
    BY DEF SchedulerNext, WaitSpace, TakeSpace, AwaitRequest, Dequeue, AcceptLogon,
           RefuseLogon, Respond, Signal, FreeRefused, ghostVars
  <2>3. \A s \in Spaces : ShellNext(s) => lapped' = lapped
    BY DEF ShellNext, ShellCopies, ShellFrees, ghostVars
  <2> QED BY <2>1, <2>2, <2>3 DEF Next, vars, ghostVars
<1>2. RoundTrip
  BY <1>1 DEF AnswerInv, RoundTrip
<1>3. ASSUME NEW a \in Agents, AgentNext(a) PROVE RoundTrip'
  BY <1>2, <1>3, OwnedAgent, QueueAgent, ServesAgent, AnswersAgent, StartsAgent
  DEF RoundTrip
<1>4. CASE SchedulerNext
  <2>1. agentPc' = agentPc /\ ptr' = ptr
    BY <1>4 DEF SchedulerNext, WaitSpace, TakeSpace, AwaitRequest, Dequeue, AcceptLogon,
       RefuseLogon, Respond, Signal, FreeRefused, agentVars
  <2>2. SlotsOwned'
    BY <1>2, <2>1 DEF RoundTrip, SlotsOwned, Owns
  <2> QED
    BY <1>2, <1>4, <2>2, QueueScheduler, ServesScheduler, AnswersScheduler, StartsScheduler
    DEF RoundTrip
<1>5. ASSUME NEW s \in Spaces, ShellNext(s) PROVE RoundTrip'
  <2>1. UNCHANGED <<queueVars, agentPc, ptr, reply, schedVars, space, decided>>
    BY <1>5 DEF ShellNext, ShellCopies, ShellFrees, agentVars, ghostVars
  <2> QED BY <1>2, <1>5, <2>1, RoundTripUnchanged, StartsShell DEF RoundTrip
<1>6. CASE UNCHANGED vars
  <2>1. UNCHANGED <<queueVars, agentPc, ptr, reply, schedVars, space, decided>>
    BY <1>6 DEF vars, agentVars, spaceVars, ghostVars
  <2>2. StartsOnce'
    BY <1>2, <1>6 DEF vars, agentVars, spaceVars, ghostVars, RoundTrip, StartsOnce, Accepted,
                      ClientOf
  <2> QED BY <1>2, <2>1, <2>2, RoundTripUnchanged DEF RoundTrip
<1> QED BY <1>3, <1>4, <1>5, <1>6 DEF Next

LEMMA AnswerInit == Init => AnswerInv
<1> SUFFICES ASSUME Init PROVE RoundTrip
  BY DEF AnswerInv, RoundTrip
<1>1. SlotsOwned /\ SchedulerServes /\ AnswersArrive /\ StartsOnce
  BY DEF Init, SlotsOwned, Owns, SchedulerServes, Processing, AnswersArrive, StartsOnce
<1>2. Pending = 0 /\ Unannounced = 0
  BY DEF Init, Pending, Dequeuing, Unannounced
<1>3. 0 .. Length - 1 = {}
  BY <1>2, SMT DEF Length
<1> QED BY <1>1, <1>3 DEF RoundTrip, QueueHolds

-----------------------------------------------------------------------------

\* The inductive invariant of a request's way round (tqueue.c 196 to 400, schedule.c,
\* shell.c 158): without a shared slot it meets no other request.
THEOREM AnswersCorrect == Spec => []AnswerInv
<1> QED BY AnswerInit, AnswerStep, QueueCorrect, SpacesCorrect, PTL DEF Spec

\* The whole round: the ring and its pointers, the records of RequestSpace, and the request.
THEOREM RoundsCorrect == Spec => []RoundInv
<1>1. QueueInv /\ SpaceInv /\ AnswerInv => RoundInv
  BY DEF RoundInv
<1> QED BY <1>1, AnswersCorrect, QueueCorrect, SpacesCorrect, PTL

\* SendRequest returns to each agent the decision on its own request, for any number of
\* agents and slots, as long as no agent is given a slot that another still reads.
THEOREM AnswersOwn == Spec => []AnswerIsOwn
<1>1. AnswerInv => AnswerIsOwn
  BY DEF AnswerInv, AnswersArrive, AnswerIsOwn, Answer
<1> QED BY <1>1, AnswersCorrect, PTL

\* A start message goes to an agent that was accepted and has not met its service thread,
\* and to no later user of its thread id, unless a slot was shared or the service thread
\* of an agent that died before its logon reply still names the id.
THEOREM StartsAccepted == Spec => []StartOnlyAccepted
<1>1. AnswerInv => StartOnlyAccepted
  BY DEF AnswerInv, StartsOnce, StartOnlyAccepted, Accepted
<1> QED BY <1>1, AnswersCorrect, PTL
=============================================================================
