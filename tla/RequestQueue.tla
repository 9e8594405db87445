--------------------------- MODULE RequestQueue ---------------------------
(***************************************************************************)
(* The request queue of the server kernel (tqueue.c) and the scheduler     *)
(* thread that drains it (schedule.c).                                     *)
(*                                                                         *)
(* Every connected client has an agent thread.  To log on, the agent puts  *)
(* a REQUEST in a ring of N slots (SendRequest) and sleeps on the slot's   *)
(* auto-reset event; the single scheduler thread takes requests in ring    *)
(* order (ProcessRequest), decides the logon, starts a service thread for  *)
(* an accepted one, writes the answer back in the SAME slot and sets the   *)
(* slot's event.  Two semaphores count free slots (hResSemaphore) and      *)
(* queued requests (hUserSemaphore), and a mutex guards the two pointers.  *)
(* The agent reads and clears its slot WITHOUT the mutex.                  *)
(*                                                                         *)
(* The scheduler works on one of a pool of REQUEST records (RequestSpace); *)
(* the service thread copies the record it was started with and frees it.  *)
(***************************************************************************)
EXTENDS Integers, FiniteSets

CONSTANTS
  Agents,     \* client agent threads; dwRequestId is the agent's thread id
  N,          \* dwTotal, the slots of the ring (>= MIN_QUEUE in the code)
  MAX_SERVICE_THREAD,   \* the entries of RequestSpace
  NoAgent     \* the owner of a zeroed REQUEST

ASSUME QueueAssumption ==
  /\ N \in Nat \ {0}
  /\ IsFiniteSet(Agents)
  /\ MAX_SERVICE_THREAD \in Nat \ {0}
  /\ NoAgent \notin Agents

VARIABLES
  resSem,       \* count of hResSemaphore
  userSem,      \* count of hUserSemaphore
  mutex,        \* TRUE while an agent owns hQueueMutex
  pointerIn,    \* dwPointerIn
  pointerOut,   \* dwPointerOut
  event,        \* event[i]: lphEvent[i] is signalled
  slot,         \* slot[i]: the REQUEST in lpQueue[i]
  agentPc,      \* where each agent is in SendRequest
  ptr,          \* ptr[a]: the agent's local dwPointer
  reply,        \* reply[a]: the agent's REQUEST after the copy of line 256
  started,      \* started[a]: TS_SERVICE_START is in the agent's message queue
  schedPc,      \* where the scheduler is in Schedule/ProcessRequest
  schedPtr,     \* the scheduler's local dwPointer
  current,      \* the scheduler's local i, the space it works on
  verdict,      \* the scheduler's dwRetCode: "none", "ok" or "error"
  semAR,        \* count of hSemAR
  used,         \* used[s]: szRequestFlag[s]
  space,        \* space[s]: the REQUEST in RequestSpace[s]
  shell,        \* shell[s]: the service thread started on space s
  client,       \* client[s]: the agent named by that thread's own copy
  decided,      \* history: what the scheduler decided for an agent's request
  orphans,      \* history: thread ids that the service thread of a dead agent still names
  lapped        \* history: an agent took a slot its last user was not done with

queueVars == <<resSem, userSem, mutex, pointerIn, pointerOut, event, slot>>
agentVars == <<agentPc, ptr, reply, started>>
schedVars == <<schedPc, schedPtr, current, verdict>>
spaceVars == <<semAR, used, space, shell, client>>
ghostVars == <<decided, orphans, lapped>>
vars == <<queueVars, agentVars, schedVars, spaceVars, ghostVars>>

-----------------------------------------------------------------------------
(* Types and state functions *)

Slots == 0 .. N - 1

Spaces == 0 .. MAX_SERVICE_THREAD - 1

Kinds == {"zero", "request", "ok", "error"}

\* A REQUEST as far as the queue can tell: whether it is a request or an
\* answer (dwRequest), and the agent it is about (dwRequestId).
Records == [kind : Kinds, agent : Agents \cup {NoAgent}]

Zero == [kind |-> "zero", agent |-> NoAgent]

AgentPcs == {"idle", "lock", "reset", "fill", "publish",
             "wait", "copy", "clear", "return", "reply", "starting"}

SchedPcs == {"space", "scan", "await", "dequeue", "logon",
             "respond", "signal", "free"}

\* Agents between the waits of lines 220 and 264: each holds a unit of hResSemaphore.
Holders == {a \in Agents : agentPc[a] \notin {"idle", "reply", "starting"}}

\* Agents asleep at line 249.
Waiting == {a \in Agents : agentPc[a] = "wait"}

\* Agents that still read or clear the slot they queued in (lines 249 to 261).
UsingSlot(i) == {a \in Agents : agentPc[a] \in {"wait", "copy", "clear"} /\ ptr[a] = i}

Succ(i) == (i + 1) % N

\* The scheduler has taken a unit of hUserSemaphore and not yet moved dwPointerOut.
Dequeuing == schedPc = "dequeue"

\* The scheduler has moved dwPointerOut and not yet set the event of schedPtr.
Processing == schedPc \in {"logon", "respond", "signal"}

\* Requests in the ring that the scheduler has not dequeued.
Pending == userSem + (IF Dequeuing THEN 1 ELSE 0)

\* A request past FillSlot that hUserSemaphore does not count yet.
Unannounced == IF \E a \in Agents : agentPc[a] = "publish" THEN 1 ELSE 0

\* Requests queued and not yet answered with SetEvent.
Unanswered == Pending + (IF Processing THEN 1 ELSE 0)

Signalled == {i \in Slots : event[i]}

\* The agent for which the service thread on space s was started.
ClientOf(s) == IF shell[s] = "created" THEN space[s].agent ELSE client[s]

\* A service thread other than that on a space of Done has still to post to thread id a.
StartUnderWay(a, Done) ==
  \E s \in Spaces \ Done : shell[s] # "none" /\ ClientOf(s) = a

\* Position i holds a request that is queued and not yet dequeued.
IsPending(i) == \E k \in 0 .. Pending - 1 : i = (pointerOut + k) % N

Init ==
  /\ resSem = N
  /\ userSem = 0
  /\ mutex = FALSE
  /\ pointerIn = 0
  /\ pointerOut = 0
  /\ event = [i \in Slots |-> FALSE]
  /\ slot = [i \in Slots |-> Zero]
  /\ agentPc = [a \in Agents |-> "idle"]
  /\ ptr = [a \in Agents |-> 0]
  /\ reply = [a \in Agents |-> Zero]
  /\ started = [a \in Agents |-> FALSE]
  /\ schedPc = "space"
  /\ schedPtr = 0
  /\ current = 0
  /\ verdict = "none"
  /\ semAR = MAX_SERVICE_THREAD
  /\ used = [s \in Spaces |-> FALSE]
  /\ space = [s \in Spaces |-> Zero]
  /\ shell = [s \in Spaces |-> "none"]
  /\ client = [s \in Spaces |-> NoAgent]
  /\ decided = [a \in Agents |-> "none"]
  /\ orphans = {}
  /\ lapped = FALSE

-----------------------------------------------------------------------------
(* SendRequest, by agent a *)

Goto(a, from, to) ==
  /\ agentPc[a] = from
  /\ agentPc' = [agentPc EXCEPT ![a] = to]

\* Mutant: a wait that times out is taken for a success.
AcquireResourceTimedOut(a) ==
  /\ Goto(a, "idle", "lock")
  /\ resSem' = IF resSem > 0 THEN resSem - 1 ELSE 0
  /\ UNCHANGED <<userSem, mutex, pointerIn, pointerOut, event, slot, ptr, reply, started,
                 schedVars, spaceVars, ghostVars>>

\* The wait on hResSemaphore.
AcquireResource(a) ==
  /\ Goto(a, "idle", "lock")
  /\ resSem > 0
  /\ resSem' = resSem - 1
  /\ UNCHANGED <<userSem, mutex, pointerIn, pointerOut, event, slot, ptr, reply, started,
                 schedVars, spaceVars, ghostVars>>

\* Mutant: the mutex is not waited for.
LockQueueUnguarded(a) ==
  /\ Goto(a, "lock", "reset")
  /\ mutex' = TRUE
  /\ ptr' = [ptr EXCEPT ![a] = pointerIn]
  /\ UNCHANGED <<resSem, userSem, pointerIn, pointerOut, event, slot, reply, started,
                 schedVars, spaceVars, ghostVars>>

\* The wait on hQueueMutex; dwPointer is the tail.
LockQueue(a) ==
  /\ Goto(a, "lock", "reset")
  /\ ~mutex
  /\ mutex' = TRUE
  /\ ptr' = [ptr EXCEPT ![a] = pointerIn]
  /\ UNCHANGED <<resSem, userSem, pointerIn, pointerOut, event, slot, reply, started,
                 schedVars, spaceVars, ghostVars>>

\* ResetEvent on the slot.  The history notes whether its last user still needs it.
ResetSlotEvent(a) ==
  /\ Goto(a, "reset", "fill")
  /\ event' = [event EXCEPT ![ptr[a]] = FALSE]
  /\ lapped' = (lapped \/ UsingSlot(ptr[a]) # {})
  /\ UNCHANGED <<resSem, userSem, mutex, pointerIn, pointerOut, slot, ptr, reply, started,
                 schedVars, spaceVars, decided, orphans>>

\* The copy into the slot and the advance of dwPointerIn.
FillSlot(a) ==
  /\ Goto(a, "fill", "publish")
  /\ slot' = [slot EXCEPT ![ptr[a]] = [kind |-> "request", agent |-> a]]
  /\ pointerIn' = Succ(ptr[a])
  /\ decided' = [decided EXCEPT ![a] = "none"]
  /\ UNCHANGED <<resSem, userSem, mutex, pointerOut, event, ptr, reply, started,
                 schedVars, spaceVars, orphans, lapped>>

\* ReleaseSemaphore on hUserSemaphore and ReleaseMutex.
Publish(a) ==
  /\ Goto(a, "publish", "wait")
  /\ userSem' = userSem + 1
  /\ mutex' = FALSE
  /\ UNCHANGED <<resSem, pointerIn, pointerOut, event, slot, ptr, reply, started,
                 schedVars, spaceVars, ghostVars>>

\* Mutant: the events are created manual-reset.
WakeManualReset(a) ==
  /\ Goto(a, "wait", "copy")
  /\ event[ptr[a]]
  /\ UNCHANGED <<queueVars, ptr, reply, started, schedVars, spaceVars, ghostVars>>

\* The wait on the slot's auto-reset event.
Wake(a) ==
  /\ Goto(a, "wait", "copy")
  /\ event[ptr[a]]
  /\ event' = [event EXCEPT ![ptr[a]] = FALSE]
  /\ UNCHANGED <<resSem, userSem, mutex, pointerIn, pointerOut, slot, ptr, reply, started,
                 schedVars, spaceVars, ghostVars>>

\* The copy out of the slot, without the mutex.
TakeResponse(a) ==
  /\ Goto(a, "copy", "clear")
  /\ reply' = [reply EXCEPT ![a] = slot[ptr[a]]]
  /\ UNCHANGED <<queueVars, ptr, started, schedVars, spaceVars, ghostVars>>

\* The FillMemory of the slot, without the mutex.
ClearSlot(a) ==
  /\ Goto(a, "clear", "return")
  /\ slot' = [slot EXCEPT ![ptr[a]] = Zero]
  /\ UNCHANGED <<resSem, userSem, mutex, pointerIn, pointerOut, event, ptr, reply, started,
                 schedVars, spaceVars, ghostVars>>

\* History: the message queue of thread a has gone or been emptied; if no service
\* thread has still to post to it, a is nobody's old id any more.
Settle(a) == orphans' = IF StartUnderWay(a, {}) THEN orphans ELSE orphans \ {a}

\* ReleaseSemaphore on hResSemaphore; SendRequest returns.  Told of success (a
\* zeroed REQUEST reads as TERR_SUCCESS, and dwRequest of a request is whatever
\* its sender left there), the agent goes on to answer its client; refused, it
\* ends whether the client can be told or not, its message queue with it, and its
\* thread id may come back for another connection.
\* (The locals of the call are gone: ptr and reply go back to their initial values.)
ReturnSlot(a) ==
  /\ \/ /\ reply[a].kind # "error"
        /\ Goto(a, "return", "reply")
        /\ UNCHANGED <<started, orphans>>
     \/ /\ reply[a].kind \in {"error", "request"}
        /\ Goto(a, "return", "idle")
        /\ started' = [started EXCEPT ![a] = FALSE]
        /\ Settle(a)
  /\ resSem' = resSem + 1
  /\ ptr' = [ptr EXCEPT ![a] = 0]
  /\ reply' = [reply EXCEPT ![a] = Zero]
  /\ UNCHANGED <<userSem, mutex, pointerIn, pointerOut, event, slot,
                 schedVars, spaceVars, decided, lapped>>

\* ClientAgentThread: msgTS_LOGON_OK is written to the pipe.
WriteReply(a) ==
  /\ Goto(a, "reply", "starting")
  /\ UNCHANGED <<queueVars, ptr, reply, started, schedVars, spaceVars, ghostVars>>

\* The WriteFile fails (the client has gone): the agent ends without waiting for its
\* service thread, which is not told; its thread id may come back.
ReplyFails(a) ==
  /\ Goto(a, "reply", "idle")
  /\ started' = [started EXCEPT ![a] = FALSE]
  /\ orphans' = IF StartUnderWay(a, {}) THEN orphans \cup {a} ELSE orphans \ {a}
  /\ UNCHANGED <<queueVars, ptr, reply, schedVars, spaceVars, decided, lapped>>

\* ClientAgentThread: the GetMessage of TS_SERVICE_START.  The session that
\* follows does not touch the queue.
AwaitServiceStart(a) ==
  /\ Goto(a, "starting", "idle")
  /\ started[a]
  /\ started' = [started EXCEPT ![a] = FALSE]
  /\ Settle(a)
  /\ UNCHANGED <<queueVars, ptr, reply, schedVars, spaceVars, decided, lapped>>

-----------------------------------------------------------------------------
(* Schedule and ProcessRequest, by the scheduler thread *)

\* GetAvailableSpace: the wait on hSemAR.
WaitSpace ==
  /\ schedPc = "space"
  /\ semAR > 0
  /\ semAR' = semAR - 1
  /\ schedPc' = "scan"
  /\ UNCHANGED <<queueVars, agentVars, schedPtr, current, verdict,
                 used, space, shell, client, ghostVars>>

\* GetAvailableSpace: the scan for the first free flag, in the critical section.
\* (ScanSucceeds shows that the answer -1, "none free", never occurs.)
TakeSpace ==
  /\ schedPc = "scan"
  /\ \E s \in Spaces :
       /\ ~used[s]
       /\ \A t \in Spaces : t < s => used[t]
       /\ used' = [used EXCEPT ![s] = TRUE]
       /\ current' = s
  /\ schedPc' = "await"
  /\ UNCHANGED <<queueVars, agentVars, schedPtr, verdict, semAR, space, shell, client, ghostVars>>

\* ProcessRequest: the wait on hUserSemaphore.
AwaitRequest ==
  /\ schedPc = "await"
  /\ userSem > 0
  /\ userSem' = userSem - 1
  /\ schedPc' = "dequeue"
  /\ UNCHANGED <<resSem, mutex, pointerIn, pointerOut, event, slot, agentVars,
                 schedPtr, current, verdict, spaceVars, ghostVars>>

\* ProcessRequest: the copy out of the head slot and the advance of
\* dwPointerOut, inside the mutex (no agent can be inside it as well).
Dequeue ==
  /\ schedPc = "dequeue"
  /\ ~mutex
  /\ schedPtr' = pointerOut
  /\ space' = [space EXCEPT ![current] = slot[pointerOut]]
  /\ pointerOut' = Succ(pointerOut)
  /\ schedPc' = "logon"
  /\ UNCHANGED <<resSem, userSem, mutex, pointerIn, event, slot, agentVars, current,
                 verdict, semAR, used, shell, client, ghostVars>>

\* What is recorded for the request in the current space (history).
Decide(v) ==
  decided' = IF space[current].kind = "request"
             THEN [decided EXCEPT ![space[current].agent] = v] ELSE decided

\* TUserLogon, AllocExchngBuf and CreateThread succeed: a service thread starts
\* on the space.
AcceptLogon ==
  /\ schedPc = "logon"
  /\ space[current].kind # "zero"
  /\ verdict' = "ok"
  /\ shell' = [shell EXCEPT ![current] = "created"]
  /\ Decide("ok")
  /\ schedPc' = "respond"
  /\ UNCHANGED <<queueVars, agentVars, schedPtr, current, semAR, used, space, client,
                 orphans, lapped>>

\* Mutant: the failure is noticed after CreateThread.
RefuseLogonLate ==
  /\ schedPc = "logon"
  /\ verdict' = "error"
  /\ Decide("error")
  /\ shell' = [shell EXCEPT ![current] = "created"]
  /\ schedPc' = "respond"
  /\ UNCHANGED <<queueVars, agentVars, schedPtr, current, semAR, used, space, client,
                 orphans, lapped>>

\* One of the three fails (a zeroed request has no user name, and fails).
RefuseLogon ==
  /\ schedPc = "logon"
  /\ verdict' = "error"
  /\ Decide("error")
  /\ schedPc' = "respond"
  /\ UNCHANGED <<queueVars, agentVars, schedPtr, current, spaceVars, orphans, lapped>>

\* Mutant: the answer goes to the slot at dwPointerOut, which has moved on.
RespondAtHead ==
  /\ schedPc = "respond"
  /\ slot' = [slot EXCEPT ![pointerOut] =
                [kind |-> verdict, agent |-> space[current].agent]]
  /\ schedPc' = "signal"
  /\ UNCHANGED <<resSem, userSem, mutex, pointerIn, pointerOut, event, agentVars,
                 schedPtr, current, verdict, spaceVars, ghostVars>>

\* _Response: the copy of the answer into the slot, without the mutex.
Respond ==
  /\ schedPc = "respond"
  /\ slot' = [slot EXCEPT ![schedPtr] =
                [kind |-> verdict, agent |-> space[current].agent]]
  /\ schedPc' = "signal"
  /\ UNCHANGED <<resSem, userSem, mutex, pointerIn, pointerOut, event, agentVars,
                 schedPtr, current, verdict, spaceVars, ghostVars>>

\* Mutant: Schedule frees the space whatever ProcessRequest returned.
SignalThenFree ==
  /\ schedPc = "signal"
  /\ event' = [event EXCEPT ![schedPtr] = TRUE]
  /\ schedPc' = "free"
  /\ schedPtr' = 0
  /\ verdict' = "none"
  /\ UNCHANGED <<resSem, userSem, mutex, pointerIn, pointerOut, slot, agentVars,
                 current, spaceVars, ghostVars>>

\* SetEvent on the slot, and ProcessRequest returns (its locals are gone);
\* Schedule goes on, or frees the space of a failure.
Signal ==
  /\ schedPc = "signal"
  /\ event' = [event EXCEPT ![schedPtr] = TRUE]
  /\ schedPc' = IF verdict = "ok" THEN "space" ELSE "free"
  /\ schedPtr' = 0
  /\ verdict' = "none"
  /\ UNCHANGED <<resSem, userSem, mutex, pointerIn, pointerOut, slot, agentVars,
                 current, spaceVars, ghostVars>>

\* Mutant: the semaphore is released and the flag stays.
FreeSpaceKeepsFlag(s) ==
  /\ semAR' = semAR + 1
  /\ used' = used

\* FreeSpace: clears the flag and releases hSemAR in one critical section.
FreeSpace(s) ==
  /\ used' = [used EXCEPT ![s] = FALSE]
  /\ semAR' = semAR + 1

\* Mutant: Schedule ignores the error and forgets the space.
FreeRefusedForgets ==
  /\ schedPc = "free"
  /\ schedPc' = "space"
  /\ UNCHANGED <<queueVars, agentVars, schedPtr, current, verdict, spaceVars, ghostVars>>

FreeRefused ==
  /\ schedPc = "free"
  /\ FreeSpace(current)
  /\ schedPc' = "space"
  /\ UNCHANGED <<queueVars, agentVars, schedPtr, current, verdict, space, shell, client, ghostVars>>

-----------------------------------------------------------------------------
(* ServiceShell, the first lines of a service thread started on space s *)

\* The copy of the REQUEST to the service thread's stack.
ShellCopies(s) ==
  /\ shell[s] = "created"
  /\ shell' = [shell EXCEPT ![s] = "copied"]
  /\ client' = [client EXCEPT ![s] = space[s].agent]
  /\ UNCHANGED <<queueVars, agentVars, schedVars, semAR, used, space, ghostVars>>

\* PostThreadMessage of TS_SERVICE_START to the agent that space s was for.  The message
\* is lost when the thread has ended; where its id is in use again, a thread that has
\* still to send its request ("idle" too) may have its queue already.
PostStart(s, a) ==
  \/ /\ started' = [started EXCEPT ![a] = TRUE]
     /\ UNCHANGED orphans
  \/ /\ a \in Agents => agentPc[a] = "idle"
     /\ UNCHANGED started
     /\ orphans' = IF StartUnderWay(a, {s}) \/ (a \in Agents => started[a])
                   THEN orphans ELSE orphans \ {a}

\* Mutant: the service thread keeps its space.
ShellKeepsSpace(s) ==
  /\ shell[s] = "copied"
  /\ shell' = [shell EXCEPT ![s] = "none"]
  /\ client' = [client EXCEPT ![s] = NoAgent]
  /\ PostStart(s, client[s])
  /\ UNCHANGED <<queueVars, agentPc, ptr, reply, schedVars, semAR, used, space,
                 decided, lapped>>

\* FreeSpace, then TS_SERVICE_START to the agent the copied REQUEST names.
ShellFrees(s) ==
  /\ shell[s] = "copied"
  /\ shell' = [shell EXCEPT ![s] = "none"]
  /\ FreeSpace(s)
  /\ client' = [client EXCEPT ![s] = NoAgent]
  /\ PostStart(s, client[s])
  /\ UNCHANGED <<queueVars, agentPc, ptr, reply, schedVars, space, decided, lapped>>

-----------------------------------------------------------------------------

AgentNext(a) ==
  \/ AcquireResource(a) \/ LockQueue(a) \/ ResetSlotEvent(a) \/ FillSlot(a)
  \/ Publish(a) \/ Wake(a) \/ TakeResponse(a) \/ ClearSlot(a) \/ ReturnSlot(a)
  \/ WriteReply(a) \/ ReplyFails(a) \/ AwaitServiceStart(a)

SchedulerNext ==
  \/ WaitSpace \/ TakeSpace \/ AwaitRequest \/ Dequeue
  \/ AcceptLogon \/ RefuseLogon \/ Respond \/ Signal \/ FreeRefused

ShellNext(s) == ShellCopies(s) \/ ShellFrees(s)

Next ==
  \/ \E a \in Agents : AgentNext(a)
  \/ SchedulerNext
  \/ \E s \in Spaces : ShellNext(s)

Spec == Init /\ [][Next]_vars

(***************************************************************************)
(* Fairness: every thread keeps running, except that no client has to      *)
(* connect.  The kernel serves the waiters of a mutex in turn, so a thread *)
(* that finds hQueueMutex free again and again gets it (SF).               *)
(***************************************************************************)
AgentFairness(a) ==
  /\ SF_vars(LockQueue(a))
  /\ WF_vars(ResetSlotEvent(a) \/ FillSlot(a) \/ Publish(a) \/ Wake(a) \/ TakeResponse(a)
             \/ ClearSlot(a) \/ ReturnSlot(a) \/ WriteReply(a) \/ ReplyFails(a)
             \/ AwaitServiceStart(a))

Fairness ==
  /\ \A a \in Agents : AgentFairness(a)
  /\ SF_vars(Dequeue)
  /\ WF_vars(SchedulerNext)
  /\ \A s \in Spaces : WF_vars(ShellNext(s))

FairSpec == Spec /\ Fairness

-----------------------------------------------------------------------------
(* Properties *)

\* Type invariant.
TypeOK ==
  /\ resSem \in Nat
  /\ userSem \in Nat
  /\ mutex \in BOOLEAN
  /\ pointerIn \in Slots
  /\ pointerOut \in Slots
  /\ event \in [Slots -> BOOLEAN]
  /\ slot \in [Slots -> Records]
  /\ agentPc \in [Agents -> AgentPcs]
  /\ ptr \in [Agents -> Slots]
  /\ reply \in [Agents -> Records]
  /\ started \in [Agents -> BOOLEAN]
  /\ schedPc \in SchedPcs
  /\ schedPtr \in Slots
  /\ current \in Spaces
  /\ verdict \in {"none", "ok", "error"}
  /\ schedPc = "respond" => verdict \in {"ok", "error"}
  /\ semAR \in Nat
  /\ used \in [Spaces -> BOOLEAN]
  /\ space \in [Spaces -> Records]
  /\ shell \in [Spaces -> {"none", "created", "copied"}]
  /\ client \in [Spaces -> Agents \cup {NoAgent}]
  /\ decided \in [Agents -> {"none", "ok", "error"}]
  /\ orphans \subseteq Agents
  /\ lapped \in BOOLEAN

\* The ring never overruns: the slot an agent is about to fill holds no request
\* that waits for the scheduler, and is not the one the scheduler is answering,
\* although slots are given back in any order (tqueue.c 220 to 264).
NoOverrun ==
  \A a \in Agents : agentPc[a] \in {"reset", "fill"} =>
    /\ ~IsPending(ptr[a])
    /\ ~(Processing /\ schedPtr = ptr[a])

\* dwPointerIn leads dwPointerOut by exactly the requests hUserSemaphore has
\* announced (one more while the newest is not announced yet).
RingConsistent ==
  pointerIn = (pointerOut + Pending + Unannounced) % N

\* A wake-up may be lost, never invented: the set events and the requests still to be
\* answered are together at most the sleepers, however often ResetEvent (line 230) or a
\* second SetEvent swallowed one.  This is why a slot that comes back to hResSemaphore
\* out of order does not let the tail overtake the head.
WakeupsCovered == Cardinality(Signalled) + Unanswered <= Cardinality(Waiting)

\* As long as no agent is given a slot its last user is still reading, SendRequest
\* returns to each agent the answer to its own request: the decision the
\* scheduler took on it, and no other agent's (the purpose of tqueue.c).
AnswerIsOwn ==
  ~lapped => \A a \in Agents : agentPc[a] \in {"clear", "return"} =>
    reply[a] = [kind |-> decided[a], agent |-> a]

\* A service thread always finds in its RequestSpace record the request it was
\* started for: the scheduler gets no record a thread has still to copy
\* (schedule.c 81 to 125, shell.c 158).
SpaceNotShared ==
  \A s \in Spaces : shell[s] # "none" =>
    /\ used[s]
    /\ current = s => schedPc \notin {"await", "dequeue", "logon"}

\* hSemAR and szRequestFlag agree: after the wait there is always a free flag, so
\* the "-1" of GetAvailableSpace, which would lose a unit of hSemAR, cannot happen.
ScanSucceeds == schedPc = "scan" => \E s \in Spaces : ~used[s]

\* A thread has TS_SERVICE_START in its queue only while it is the agent that was
\* accepted and has not yet met its service thread: none that was refused is sent one,
\* and none is left to a later connection of the same thread id.  Excepted are the
\* runs in which a slot was shared, and the thread ids that the service thread of
\* an agent which could not answer its client (conv.c:919) still names: it posts all
\* the same, to whoever has the id by then.
StartOnlyAccepted ==
  ~lapped => \A a \in Agents \ orphans :
    started[a] => agentPc[a] \notin {"idle", "lock", "reset", "fill"} /\ decided[a] = "ok"

\* Every unit of hResSemaphore is in the semaphore or with an agent in SendRequest.
ResourcesConserved == resSem + Cardinality(Holders) = N

\* The mutex is owned whenever an agent is between lines 224 and 243, by that agent
\* alone, whose dwPointer is the tail until it advances it.
MutexInv ==
  /\ \A a \in Agents : agentPc[a] \in {"reset", "fill", "publish"} => mutex
  /\ \A a, b \in Agents :
       /\ agentPc[a] \in {"reset", "fill", "publish"}
       /\ agentPc[b] \in {"reset", "fill", "publish"}
       => a = b
  /\ \A a \in Agents : agentPc[a] \in {"reset", "fill"} => ptr[a] = pointerIn

\* The scheduler answers the slot it dequeued last.
AnswersLast == Processing => Succ(schedPtr) = pointerOut

\* The inductive invariant behind NoOverrun (proved in RequestQueueProofs).
QueueInv ==
  /\ TypeOK
  /\ MutexInv
  /\ ResourcesConserved
  /\ WakeupsCovered
  /\ RingConsistent
  /\ AnswersLast

UsedSpaces == {s \in Spaces : used[s]}

\* Every unit of hSemAR is in the semaphore, with a used record, or with the scheduler
\* between its wait and its scan.
SpacesConserved ==
  semAR + (IF schedPc = "scan" THEN 1 ELSE 0) + Cardinality(UsedSpaces) = MAX_SERVICE_THREAD

\* The scheduler works on a record that no service thread was started on.
CurrentIsOwn ==
  \/ schedPc \in {"await", "dequeue", "logon", "free"}
  \/ schedPc \in {"respond", "signal"} /\ verdict # "ok"
  => used[current] /\ shell[current] = "none"

\* The inductive invariant behind SpaceNotShared and ScanSucceeds (proved in
\* RequestSpaceProofs): hSemAR and the flags agree though they are changed apart, and a
\* record goes from the scheduler to one service thread and back (schedule.c 81 to 147).
SpaceInv ==
  /\ SpacesConserved
  /\ CurrentIsOwn
  /\ \A s \in Spaces : shell[s] # "none" => used[s]

\* The slot whose use by an agent has begun: nobody else has one that is the same.
Owns(a) == agentPc[a] \in {"fill", "publish", "wait", "copy", "clear"}

SlotsOwned == \A a, b \in Agents : Owns(a) /\ Owns(b) /\ ptr[a] = ptr[b] => a = b

\* Agent a sleeps, or is about to, on a request that the scheduler has not decided.
Asks(a) == agentPc[a] \in {"publish", "wait"} /\ decided[a] = "none"

Asked(a) == [kind |-> "request", agent |-> a]

\* The answer to the request of a, once it is decided.
Decided(a) == decided[a] # "none"
Answer(a) == [kind |-> decided[a], agent |-> a]

\* The requests in the ring.
Length == Pending + Unannounced

\* The slots from head to tail hold the requests of agents that ask.
QueueHolds ==
  \A k \in 0 .. Length - 1 :
    \E a \in Agents : Asks(a) /\ ptr[a] = (pointerOut + k) % N /\ slot[ptr[a]] = Asked(a)

\* The scheduler works for an agent that sleeps on the slot it will signal.
SchedulerServes ==
  Processing => \E a \in Agents :
    /\ agentPc[a] = "wait" /\ ptr[a] = schedPtr /\ ~event[schedPtr]
    /\ schedPc = "logon" => space[current] = Asked(a) /\ ~Decided(a)
    /\ schedPc = "respond" => space[current].agent = a /\ decided[a] = verdict
    /\ schedPc = "signal" => slot[schedPtr] = Answer(a) /\ decided[a] = verdict /\ Decided(a)

\* A set event, and then the agent it wakes, comes with the answer.
AnswersArrive ==
  /\ \A i \in Slots : event[i] => \E a \in Agents :
       agentPc[a] = "wait" /\ ptr[a] = i /\ slot[i] = Answer(a) /\ Decided(a)
  /\ \A a \in Agents :
       /\ agentPc[a] = "copy" => slot[ptr[a]] = Answer(a) /\ Decided(a)
       /\ agentPc[a] \in {"clear", "return"} => reply[a] = Answer(a) /\ Decided(a)

\* The scheduler has accepted agent a, which has not yet come back to its client.
Accepted(a) ==
  agentPc[a] \in {"wait", "copy", "clear", "return", "reply", "starting"} /\ decided[a] = "ok"

\* An accepted agent has one service thread under way, or one start message, if no
\* earlier agent of its id ended unanswered and left a service thread behind.
StartsOnce ==
  /\ \A a \in Agents \ orphans : started[a] => Accepted(a)
  /\ \A s \in Spaces : shell[s] # "none" => ClientOf(s) \in Agents
  /\ \A s \in Spaces : shell[s] # "none" /\ ClientOf(s) \notin orphans =>
       /\ Accepted(ClientOf(s)) /\ ~started[ClientOf(s)]
       /\ \A t \in Spaces : t # s /\ shell[t] # "none" => ClientOf(t) # ClientOf(s)

\* The inductive invariant behind AnswerIsOwn and StartOnlyAccepted, together with
\* QueueInv and SpaceInv (proved in RequestAnswerProofs): a request goes round from the
\* agent to its slot, to the scheduler and back, and meets no other on its way.
AnswerInv ==
  ~lapped => SlotsOwned /\ QueueHolds /\ SchedulerServes /\ AnswersArrive /\ StartsOnce

\* All that holds of the queue, the request space and the requests on their way; it is
\* inductive.
RoundInv == QueueInv /\ SpaceInv /\ AnswerInv

\* As long as no slot is shared, an agent that has queued its request gets through:
\* it is answered, and if accepted, its service thread starts.
Connects ==
  [](~lapped) => \A a \in Agents : (agentPc[a] = "lock") ~> (agentPc[a] = "idle")

\* The scheduler never stays away from the queue, whatever happens to the agents: each
\* announced request is dequeued.
Drains == (userSem > 0) ~> (schedPc = "dequeue")

\* tqueue.c:251 of the copy at line 256, made without the mutex: "this solt already
\* used by this thread, not another thread can access this solt".
SlotNotShared ==
  \A a, b \in Agents : a # b /\ agentPc[a] \in {"copy", "clear"} /\ ptr[a] = ptr[b] =>
    agentPc[b] \notin {"fill", "publish", "wait"}
=============================================================================
