------------------------- MODULE SessionTurnProofs -------------------------
(***************************************************************************)
(* Theorems about Session: the two threads of a session take turns         *)
(* (TurnInv), and so implement Dialogue.                                   *)
(*                                                                         *)
(* A session that is broken off stays so (HungUpStays).  In one that is    *)
(* not, a write is a Say, a read of the buffer a Hear, and every other     *)
(* step keeps the turn and the mail (OwnTurns); that the agent only writes *)
(* while the service thread listens, and the other way round, is TurnInv.  *)
(* A step changes nothing of another session's dialogue, or hangs it up:   *)
(* an agent that writes to a buffer it has lost (OthersTurns).             *)
(***************************************************************************)
EXTENDS SessionProofs

USE SessionAssumption

\* The server only speaks when it has the turn if its handlers read their requests to the
\* end, no client sends the command that is answered twice, and no ReadFile fails.
Orderly == "early" \notin Failures /\ "read" \notin Failures /\ "unknown" \notin Requests

\* The parts of TurnInv.
Forwards(s) ==
  task[Agent(s)] = "forward" => IsRequest(packet[Agent(s)]) /\ direct[s] = ~packet[Agent(s)].end

Clean(s) == Serving(s) /\ ~HungUp(s)

Turns(s) ==
  LET v == Service(s)
      p == content[buffer[s]]
  IN /\ task[v] # "twice"
     /\ At(v, "readReturn") => IsRequest(packet[v])
     /\ unread[buffer[s]] = "srv" => IsRequest(p)
     /\ CASE unread[buffer[s]] = "none" -> Listens(s) <=> HasTurn(s)
          [] unread[buffer[s]] = "srv" -> ~HasTurn(s) /\ (Listens(s) <=> p.end)
          [] unread[buffer[s]] = "cli" -> Listens(s) /\ (HasTurn(s) <=> ~p.end)

LEMMA TurnInvParts ==
  TurnInv <=> \A s \in Sessions : Forwards(s) /\ (Clean(s) => Turns(s))
BY DEF TurnInv, Forwards, Clean, Turns

-----------------------------------------------------------------------------
(* A session that is broken off stays so *)

LEMMA CleanSound ==
  ASSUME NEW s \in Sessions, Clean(s)
  PROVE  Sound(s) /\ ~Broken(Agent(s)) /\ ~Broken(Service(s))
BY AgentFacts, ServiceFacts DEF Clean, Sound, HungUp, Broken, Buf

\* A buffer that is some session's stays broken and trespassed.
LEMMA BrokenStays ==
  ASSUME ControlInv, OwnInv, NEW s \in Sessions, Steps(s), Serving(s), Serving(s)'
  PROVE  /\ buffer'[s] = buffer[s]
         /\ Broken(Service(s)) => Broken(Service(s))'
         /\ ~Untouched(buffer[s]) => ~Untouched(buffer[s])'
<1> USE AgentFacts, ServiceFacts, ThreadsDiffer
<1>0. TypeOK
  BY DEF ControlInv, TypeInv
<1>1. CASE AgentMoves(s)
  BY <1>1, AgentMovesGoes DEF ControlInv, AgentGoes, bufferVars, Broken, Buf, Untouched
<1>2. CASE ServiceMoves(s)
  BY <1>2, ServiceMovesGoes DEF ControlInv, ServiceGoes, bufferVars, Broken, Buf, Untouched
<1>3. ASSUME NEW t \in {Agent(s), Service(s)}, Touches(t)
      PROVE  /\ buffer'[s] = buffer[s]
             /\ Broken(Service(s)) => Broken(Service(s))'
             /\ ~Untouched(buffer[s]) => ~Untouched(buffer[s])'
  <2>1. UNCHANGED buffer /\ trespassed \subseteq trespassed'
    BY <1>0, <1>3, TouchGoes, TouchFrame
  <2>2. errorStat[buffer[s]] # "ok" => errorStat'[buffer[s]] # "ok"
    BY <1>0, <1>3
    DEF TypeOK, Touches, ReadGet, ReadCopy, WriteWait, WriteCopy, ErrStore, ErrEvent, ErrPost,
        bufferVars, Buf
  <2> QED BY <2>1, <2>2 DEF Broken, Buf, Untouched
<1>4. CASE Connect(s) \/ StopReading(s) \/ Disconnect(s) \/ FreeEvent(s) \/ TSUnregisterUser(s) \/ CreateService(s)
           \/ TSRegisterUser(s) \/ FreeFlag(s)
  BY <1>4 DEF Connect, StopReading, Disconnect, FreeEvent, TSUnregisterUser, CreateService, TSRegisterUser, FreeFlag,
              bufferVars, Broken, Buf, Untouched
<1>5. CASE AllocExchngBuf(s)
  <2>1. sched.at = "idle" /\ At(Agent(s), "queued") /\ sched # [at |-> "register", session |-> s]
    BY <1>5 DEF AllocExchngBuf
  <2>2. At(Service(s), "none")
    BY <2>1 DEF ControlInv, LogonInv, At
  <2> QED BY <2>2 DEF Serving, At
<1> QED BY <1>1, <1>2, <1>3, <1>4, <1>5 DEF Steps, Works

\* The part of the agent in breaking the session off, and that of the service thread.
Leaves(s) == pc[Agent(s)] \in ErrorPcs \cup {"over"} \/ task[Agent(s)] \in {"closing", "logoff"}

Frees(s) == pc[Service(s)] \in {"errStore", "freeEvent", "freeFlag", "unregister", "gone"}

LEMMA LeavesStays ==
  ASSUME ControlInv, NEW s \in Sessions, Steps(s), Leaves(s)
  PROVE  Leaves(s)'
<1> USE AgentFacts, ServiceFacts, ThreadsDiffer
<1>0. TypeOK /\ TaskInv
  BY DEF ControlInv, TypeInv
<1>1. CASE AgentMoves(s)
  <2>1. pc[Agent(s)] \notin ErrorPcs \cup {"over"} /\ (WriteCheck(Agent(s)) \/ WriteReturn(Agent(s)))
    BY <1>0, <1>1
    DEF TaskInv, Leaves, AgentMoves, ReadCheck, ReadReturn, WriteCheck, WriteReturn, LogonReply,
        ReadPipe, ReadFails, BrokenPipe, Deliver, At, WritePcs, ErrorPcs
  <2>2. task[Agent(s)] \in {"closing", "logoff"}
    BY <2>1 DEF Leaves
  <2>3. \/ UNCHANGED task
        \/ \E ok \in BOOLEAN : AgentWrote(s, ok)
    BY <2>1 DEF WriteCheck, WriteReturn, WriteReturns, Broken
  <2>4. CASE UNCHANGED task
    BY <2>2, <2>4 DEF Leaves
  <2>5. CASE \E ok \in BOOLEAN : AgentWrote(s, ok)
    <3>1. \/ Begin(Agent(s), "writeCheck", "logoff")
          \/ Begin(Agent(s), "errStore", "none")
          \/ Begin(Agent(s), "over", "none")
      BY <2>2, <2>5 DEF AgentWrote
    <3> QED BY <1>0, <3>1 DEF TypeOK, Begin, Goto, Leaves, ErrorPcs
  <2> QED BY <2>3, <2>4, <2>5
<1>2. CASE Touches(Agent(s))
  BY <1>0, <1>2
  DEF TypeOK, TaskInv, Touches, ReadGet, ReadCopy, WriteWait, WriteCopy, ErrStore, ErrEvent, ErrPost,
      Begin, Goto, Leaves, At, ErrorPcs, WritePcs
<1>3. CASE ServiceMoves(s)
  BY <1>0, <1>3, ServiceMovesGoes DEF ControlInv, TypeOK, ServiceGoes, Begin, Goto, Leaves
<1>4. CASE Touches(Service(s))
  BY <1>0, <1>4
  DEF TypeOK, Touches, ReadGet, ReadCopy, WriteWait, WriteCopy, ErrStore, ErrEvent, ErrPost, Begin,
      Goto, Leaves
<1>5. CASE Connect(s) \/ StopReading(s) \/ Disconnect(s) \/ FreeEvent(s) \/ TSUnregisterUser(s) \/ FreeFlag(s)
           \/ AllocExchngBuf(s)
  BY <1>0, <1>5
  DEF TypeOK, TaskInv, Connect, StopReading, Disconnect, FreeEvent, TSUnregisterUser, FreeFlag, AllocExchngBuf,
      threadVars, Goto, Leaves, At, ErrorPcs, WritePcs
<1>6. CASE CreateService(s)
  BY <1>0, <1>6 DEF TypeOK, CreateService, Begin, Goto, Leaves
<1>7. CASE TSRegisterUser(s)
  <2>1. sched = [at |-> "register", session |-> s]
    BY <1>7 DEF TSRegisterUser
  <2>2. sched.at = "register" /\ sched.session = s
    BY <2>1
  <2>3. At(Agent(s), "queued")
    BY <2>2 DEF ControlInv, LogonInv
  <2> QED BY <1>0, <2>3 DEF TaskInv, Leaves, At, ErrorPcs, WritePcs
<1> QED BY <1>1, <1>2, <1>3, <1>4, <1>5, <1>6, <1>7 DEF Steps, Works

LEMMA FreesStays ==
  ASSUME ControlInv, NEW s \in Sessions, Steps(s), Frees(s)
  PROVE  \/ Frees(s)'
         \/ At(Service(s), "errStore") /\ Serving(s)' /\ Broken(Service(s))'
<1> USE AgentFacts, ServiceFacts, ThreadsDiffer
<1>0. TypeOK /\ TaskInv
  BY DEF ControlInv, TypeInv
<1>1. CASE AgentMoves(s)
  BY <1>0, <1>1, AgentMovesGoes DEF ControlInv, TypeOK, AgentGoes, Begin, Goto, Frees
<1>2. CASE Touches(Agent(s))
  BY <1>0, <1>2, TouchFrame DEF Frees
<1>3. CASE ServiceMoves(s)
  BY <1>3, ServiceMovesGoes DEF ControlInv, ServiceGoes, Frees
<1>4. CASE Touches(Service(s))
  <2>1. ErrStore(Service(s))
    BY <1>4
    DEF Touches, ReadGet, ReadCopy, WriteWait, WriteCopy, ErrStore, ErrEvent, ErrPost, Frees, At
  <2> QED BY <1>0, <2>1 DEF TypeOK, ErrStore, Goto, Serving, Broken, Buf, At
<1>5. CASE Connect(s) \/ StopReading(s) \/ Disconnect(s) \/ FreeEvent(s) \/ TSUnregisterUser(s) \/ FreeFlag(s)
           \/ AllocExchngBuf(s) \/ TSRegisterUser(s)
  BY <1>0, <1>5
  DEF TypeOK, Connect, StopReading, Disconnect, FreeEvent, TSUnregisterUser, FreeFlag, AllocExchngBuf,
      TSRegisterUser,
      threadVars, Goto, Frees, At
<1>6. CASE CreateService(s)
  <2>1. sched.at = "thread" /\ sched.session = s /\ sched # [at |-> "register", session |-> s]
    BY <1>6 DEF CreateService
  <2>2. At(Service(s), "none")
    BY <2>1 DEF ControlInv, LogonInv, At
  <2> QED BY <2>2 DEF Frees, At
<1> QED BY <1>1, <1>2, <1>3, <1>4, <1>5, <1>6 DEF Steps, Works

LEMMA HungUpStays ==
  ASSUME SessionInv, NEW s \in Sessions, Steps(s), HungUp(s)
  PROVE  HungUp(s)'
<1> USE AgentFacts, ServiceFacts, ThreadsDiffer
<1>0. TypeOK /\ TaskInv /\ LogonInv /\ ControlInv /\ OwnInv /\ Safe(s)
  BY SessionInvParts DEF ControlInv, TypeInv
<1>1. CASE Leaves(s)
  BY <1>0, <1>1, LeavesStays DEF HungUp, Leaves
<1>2. CASE Frees(s)
  BY <1>0, <1>2, FreesStays DEF HungUp, Frees, ErrorPcs
<1>3. CASE Serving(s) /\ ~Frees(s) /\ (Broken(Service(s)) \/ ~Untouched(buffer[s]))
  <2>1. Serving(s)' \/ pc'[Service(s)] \in {"unregister", "gone"}
    <3>1. CASE Works(s)
      BY <1>0, <1>3, <3>1, WorksServing
    <3>2. CASE FreeFlag(s)
      BY <1>0, <3>2 DEF TypeOK, FreeFlag, Goto
    <3>3. CASE AllocExchngBuf(s) \/ TSRegisterUser(s)
      BY <1>0, <1>3, <3>3 DEF TypeOK, AllocExchngBuf, TSRegisterUser, Goto, Serving
    <3>4. CASE CreateService(s)
      BY <1>0, <1>3, <3>4 DEF TypeOK, CreateService, Begin, Goto, Serving
    <3> QED BY <3>1, <3>2, <3>3, <3>4 DEF Steps
  <2>2. CASE Serving(s)'
    BY <1>0, <1>3, <2>2, BrokenStays DEF HungUp
  <2> QED BY <2>1, <2>2 DEF HungUp
<1>4. CASE ~Frees(s) /\ pc[Service(s)] \in ErrorPcs
  <2>1. Serving(s) /\ Breaking(s)
    BY <1>4 DEF Serving, Breaking, Frees, ErrorPcs
  <2>2. ~Sound(s)
    BY <1>0, <2>1 DEF Safe
  <2> QED BY <1>3, <1>4, <2>1, <2>2 DEF Sound
<1> QED BY <1>1, <1>2, <1>3, <1>4 DEF HungUp, Leaves, Frees, ErrorPcs

-----------------------------------------------------------------------------
(* The steps of a session that is not broken off *)

\* What the agent forwards is a packet of a request, and it knows whether that was the last.
LEMMA ForwardsStep ==
  ASSUME Orderly, ControlInv, NEW s \in Sessions, Forwards(s), Steps(s)
  PROVE  Forwards(s)'
<1> USE AgentFacts, ServiceFacts, ThreadsDiffer
<1>0. TypeOK /\ TaskInv
  BY DEF ControlInv, TypeInv
<1>1. ASSUME task'[Agent(s)] = task[Agent(s)], packet'[Agent(s)] = packet[Agent(s)],
direct'[s] = direct[s]
      PROVE  Forwards(s)'
  BY <1>1 DEF Forwards
<1>2. CASE ReadCheck(Agent(s)) \/ ReadReturn(Agent(s))
  <2>1. \/ task' = task /\ task[Agent(s)] # "forward"
        \/ Begin(Agent(s), "over", "none") \/ Begin(Agent(s), "writeCheck", "closing")
        \/ Begin(Agent(s), "deliver", "none")
    BY <1>0, <1>2 DEF TaskInv, ReadCheck, ReadReturn, ReadReturns, AgentRead, At, WritePcs
  <2> QED BY <1>0, <2>1 DEF TypeOK, Begin, Forwards
<1>3. CASE WriteCheck(Agent(s)) \/ WriteReturn(Agent(s))
  <2>1. \/ task' = task \/ \E p \in AllPcs, k \in {"none", "logoff"} : Begin(Agent(s), p, k)
    BY <1>3 DEF WriteCheck, WriteReturn, WriteReturns, AgentWrote, AllPcs, AgentPcs, ReadPcs,
                WritePcs, ErrorPcs
  <2>2. UNCHANGED <<packet, direct>>
    BY <1>3 DEF WriteCheck, WriteReturn
  <2> QED BY <1>0, <2>1, <2>2 DEF TypeOK, Begin, Forwards
<1>4. CASE ReadPipe(s)
  <2>1. PICK kind \in Requests \cup {"close"}, end \in BOOLEAN :
          /\ kind # "data" => end
          /\ Take(s, [kind |-> kind, end |-> end, of |-> s])
    BY <1>4 DEF ReadPipe
  <2>2. CASE kind = "close"
    <3>1. Begin(Agent(s), "writeCheck", "logoff")
      BY <2>1, <2>2 DEF Take
    <3> QED BY <1>0, <3>1 DEF TypeOK, Begin, Forwards
  <2>3. CASE kind # "close"
    <3>1. IsRequest(packet'[Agent(s)]) /\ direct'[s] = ~packet'[Agent(s)].end
      BY <1>0, <2>1, <2>3 DEF TypeOK, IsRequest, Take
    <3> QED BY <3>1 DEF Forwards
  <2> QED BY <2>2, <2>3
<1>b. CASE ReadFails(s)
  BY <1>b DEF ReadFails, Orderly
<1>5. CASE BrokenPipe(s) \/ Deliver(s)
  BY <1>1, <1>5 DEF BrokenPipe, Deliver
<1>a. CASE LogonReply(s)
  <2>1. task'[Agent(s)] # "forward"
    BY <1>0, <1>a DEF TaskInv, LogonReply, At, WritePcs
  <2> QED BY <2>1 DEF Forwards
<1>6. CASE ServiceMoves(s)
  BY <1>0, <1>1, <1>6, ServiceMovesGoes DEF ControlInv, TypeOK, ServiceGoes, Begin
<1>7. CASE Touches(Agent(s))
  BY <1>0, <1>7
  DEF TypeOK, TaskInv, Forwards, Touches, ReadGet, ReadCopy, WriteWait, WriteCopy, ErrStore,
      ErrEvent, ErrPost,
      Begin, At, WritePcs
<1>8. CASE Touches(Service(s))
  <2>1. direct' = direct
    BY <1>8, TouchGoes
  <2> QED BY <1>0, <1>1, <1>8, <2>1, TouchFrame
<1>9. CASE Connect(s) \/ StopReading(s) \/ Disconnect(s) \/ FreeEvent(s) \/ TSUnregisterUser(s) \/ AllocExchngBuf(s)
           \/ CreateService(s) \/ TSRegisterUser(s) \/ FreeFlag(s)
  <2>1. task'[Agent(s)] = task[Agent(s)] /\ UNCHANGED <<packet, direct>>
    BY <1>0, <1>9
    DEF TypeOK, Connect, StopReading, Disconnect, FreeEvent, TSUnregisterUser, AllocExchngBuf, CreateService,
        TSRegisterUser,
        FreeFlag, threadVars, Begin
  <2> QED BY <1>1, <2>1
<1> QED BY <1>2, <1>3, <1>4, <1>5, <1>6, <1>7, <1>8, <1>9, <1>a, <1>b DEF Steps, Works, AgentMoves

\* The agent goes on listening, or not.
LEMMA AgentTurns ==
  ASSUME ControlInv, NEW s \in Sessions, Clean(s), ~HungUp(s)', AgentMoves(s)
  PROVE  Listens(s)' = Listens(s)
<1> USE AgentFacts, ServiceFacts, ThreadsDiffer
<1>0. TypeOK /\ TaskInv
  BY DEF ControlInv, TypeInv
<1>1. ~Broken(Agent(s)) /\ task[Agent(s)] \notin {"closing", "logoff"}
  BY CleanSound DEF Clean, HungUp
<1>2. /\ pc'[Agent(s)] \notin ErrorPcs \cup {"over"}
      /\ task'[Agent(s)] \notin {"closing", "logoff"}
  BY DEF HungUp
<1>3. CASE ReadCheck(Agent(s))
  BY <1>0, <1>1, <1>3 DEF TypeOK, ReadCheck, Goto, At, Listens
<1>4. CASE ReadReturn(Agent(s))
  <2>1. Begin(Agent(s), "deliver", "none") /\ direct' = [direct EXCEPT ![s] = packet[Agent(s)].end]
    BY <1>0, <1>1, <1>2, <1>4 DEF TypeOK, ReadReturn, ReadReturns, AgentRead, Begin, Goto
  <2>2. packet[Agent(s)].end \in BOOLEAN
    BY <1>0 DEF TypeOK, Packets
  <2> QED BY <1>0, <1>4, <2>1, <2>2 DEF TypeOK, ReadReturn, Begin, Goto, At, Listens
<1>5. CASE WriteCheck(Agent(s))
  BY <1>0, <1>1, <1>5 DEF TypeOK, WriteCheck, Goto, At, Listens
<1>6. CASE WriteReturn(Agent(s))
  <2>1. Begin(Agent(s), IF direct[s] THEN "pipe" ELSE "readCheck", "none")
    BY <1>0, <1>1, <1>2, <1>6 DEF TypeOK, TaskInv, WriteReturn, WriteReturns, AgentWrote, Begin, Goto
  <2> QED BY <1>0, <1>6, <2>1 DEF TypeOK, WriteReturn, Begin, Goto, At, Listens
<1>7. CASE LogonReply(s) \/ BrokenPipe(s) \/ Deliver(s)
  BY <1>0, <1>2, <1>7 DEF TypeOK, LogonReply, BrokenPipe, Deliver, Goto, At, Listens, ErrorPcs
<1>8. CASE ReadPipe(s) \/ ReadFails(s)
  <2>1. \/ Begin(Agent(s), "writeCheck", "logoff") \/ Begin(Agent(s), "writeCheck", "forward")
        \/ UNCHANGED <<pc, task>>
    BY <1>8 DEF ReadPipe, ReadFails, Take
  <2>2. Begin(Agent(s), "writeCheck", "forward") \/ UNCHANGED <<pc, task>>
    BY <1>0, <1>2, <2>1 DEF TypeOK, Begin, Goto
  <2> QED BY <1>0, <1>8, <2>2 DEF TypeOK, ReadPipe, ReadFails, Begin, Goto, At, Listens
<1> QED BY <1>3, <1>4, <1>5, <1>6, <1>7, <1>8 DEF AgentMoves

\* The service thread keeps the turn, or waits for it.
LEMMA ServiceTurns ==
  ASSUME Orderly, ControlInv, NEW s \in Sessions, Clean(s), ~HungUp(s)', Turns(s), ServiceMoves(s)
  PROVE  HasTurn(s)' = HasTurn(s) /\ task'[Service(s)] # "twice" /\ ~At(Service(s), "readReturn")'
<1> USE AgentFacts, ServiceFacts, ThreadsDiffer
<1>0. TypeOK /\ TaskInv
  BY DEF ControlInv, TypeInv
<1>1. ~Broken(Service(s)) /\ task[Service(s)] # "twice"
  BY CleanSound DEF Turns
<1>2. pc'[Service(s)] \notin ErrorPcs \cup {"freeEvent"} /\ packet' = packet
  BY ServiceMovesGoes DEF HungUp, ControlInv, ServiceGoes
<1>3. CASE ReadCheck(Service(s))
  BY <1>0, <1>1, <1>3 DEF TypeOK, ReadCheck, Goto, At, HasTurn
<1>4. CASE ReadReturn(Service(s))
  <2>1. /\ IsRequest(packet[Service(s)]) /\ At(Service(s), "readReturn")
        /\ packet[Service(s)].end \in BOOLEAN
    BY <1>0, <1>4 DEF Turns, ReadReturn, At, TypeOK, Packets
  <2>2. /\ packet[Service(s)].kind \in {"data", "single", "multi"}
        /\ packet[Service(s)].kind # "data" => packet[Service(s)].end
    BY <2>1, ZenonT(30) DEF IsRequest, Orderly, RequestKinds
  <2>3. ServiceRead(s, TRUE) \/ (ServiceRead(s, ~Broken(Service(s))) /\ ~Broken(Service(s)))
    BY <1>1, <1>4 DEF ReadReturn, ReadReturns
  <2>4. \/ Begin(Service(s), "freeEvent", "none") \/ Begin(Service(s), "errStore", "none")
        \/ Begin(Service(s), "work", "none") /\ packet[Service(s)].end
        \/ Begin(Service(s), "readCheck", "drain") /\ ~packet[Service(s)].end
        \/ Begin(Service(s), "writeCheck", "last") /\ packet[Service(s)].end
    BY <1>1, <2>2, <2>3 DEF ServiceRead, Dispatch, Orderly
  <2>5. \/ Begin(Service(s), "work", "none") /\ packet[Service(s)].end
        \/ Begin(Service(s), "readCheck", "drain") /\ ~packet[Service(s)].end
        \/ Begin(Service(s), "writeCheck", "last") /\ packet[Service(s)].end
    BY <1>0, <1>2, <2>4 DEF TypeOK, Begin, Goto, ErrorPcs
  <2> QED BY <1>0, <1>2, <2>1, <2>5 DEF TypeOK, Begin, Goto, At, HasTurn
<1>5. CASE WriteCheck(Service(s))
  BY <1>0, <1>1, <1>5 DEF TypeOK, WriteCheck, Goto, At, HasTurn
<1>6. CASE WriteReturn(Service(s))
  <2>1. task[Service(s)] \in {"answer", "last"} /\ At(Service(s), "writeReturn")
    BY <1>0, <1>1, <1>6 DEF TaskInv, WriteReturn, At, WritePcs
  <2>2. \/ Begin(Service(s), "work", "none") /\ task[Service(s)] = "answer"
        \/ Begin(Service(s), "readCheck", "top") /\ task[Service(s)] = "last"
    BY <1>1, <1>6, <2>1 DEF WriteReturn, WriteReturns, ServiceWrote
  <2> QED BY <1>0, <2>1, <2>2 DEF TypeOK, Begin, Goto, At, HasTurn
<1>7. CASE AnswerMore(s) \/ AnswerLast(s)
  <2>1. Begin(Service(s), "writeCheck", "answer") \/ Begin(Service(s), "writeCheck", "last")
    BY <1>7 DEF AnswerMore, AnswerLast
  <2> QED BY <1>0, <1>7, <2>1 DEF TypeOK, AnswerMore, AnswerLast, Begin, Goto, At, HasTurn
<1> QED BY <1>3, <1>4, <1>5, <1>6, <1>7 DEF ServiceMoves

-----------------------------------------------------------------------------
(* What a session's step is in the dialogue *)

Stays(s) == TurnOf(s)' = TurnOf(s) /\ MailOf(s)' = MailOf(s)

Says(s) ==
  /\ TurnOf(s) # "over" /\ MailOf(s) = "empty"
  /\ MailOf(s)' \in {"more", "end"} /\ TurnOf(s)' = TurnOf(s)

Hears(s) ==
  /\ TurnOf(s) # "over" /\ MailOf(s) # "empty" /\ MailOf(s)' = "empty"
  /\ TurnOf(s)' = IF MailOf(s) = "end" THEN TakesTurns!Other(TurnOf(s)) ELSE TurnOf(s)

HangsUp(s) == TurnOf(s)' = "over" /\ MailOf(s)' = "empty"

\* How much of a clean session the dialogue sees.
Turn(mail, has) ==
  IF mail = "none" THEN IF has THEN "server" ELSE "client"
  ELSE IF mail = "cli" THEN "server" ELSE "client"

Mail(mail, p) == IF mail = "none" THEN "empty" ELSE IF p.end THEN "end" ELSE "more"

LEMMA CleanView ==
  ASSUME NEW s \in Sessions, Clean(s)
  PROVE  /\ TurnOf(s) = Turn(unread[buffer[s]], HasTurn(s))
         /\ MailOf(s) = Mail(unread[buffer[s]], content[buffer[s]])
BY DEF Clean, TurnOf, MailOf, InTransit, Turn, Mail

LEMMA CleanViewPrimed ==
  ASSUME NEW s \in Sessions, Clean(s)'
  PROVE  /\ TurnOf(s)' = Turn(unread'[buffer'[s]], HasTurn(s)')
         /\ MailOf(s)' = Mail(unread'[buffer'[s]], content'[buffer'[s]])
BY DEF Clean, TurnOf, MailOf, InTransit, Turn, Mail

\* A session that keeps its buffer, its mail and the turn.
LEMMA KeepsTurn ==
  ASSUME NEW s \in Sessions, Clean(s), Clean(s)', Turns(s),
         buffer'[s] = buffer[s], unread'[buffer[s]] = unread[buffer[s]],
         content'[buffer[s]] = content[buffer[s]],
         HasTurn(s)' = HasTurn(s), Listens(s)' = Listens(s),
         task'[Service(s)] # "twice",
         At(Service(s), "readReturn")' => IsRequest(packet'[Service(s)])
  PROVE  Turns(s)' /\ Stays(s)
<1>1. Turns(s)'
  BY DEF Turns
<1>2. Stays(s)
  BY CleanView, CleanViewPrimed DEF Stays
<1> QED BY <1>1, <1>2

LEMMA TouchTurns ==
  ASSUME SessionInv, NEW s \in Sessions, Clean(s), Clean(s)', Forwards(s), Turns(s),
         NEW t \in {Agent(s), Service(s)}, Touches(t)
  PROVE  Turns(s)' /\ (Stays(s) \/ Says(s) \/ Hears(s))
<1> USE AgentFacts, ServiceFacts, ThreadsDiffer
<1>0. TypeOK /\ TaskInv /\ ControlInv /\ OwnInv /\ Safe(s)
  BY SessionInvParts DEF ControlInv, TypeInv
<1>1. /\ task[Agent(s)] \notin {"closing", "logoff"}
      /\ pc'[Agent(s)] \notin ErrorPcs \cup {"over"} /\ pc'[Service(s)] \notin ErrorPcs
      /\ pc[Agent(s)] \notin ErrorPcs /\ pc[Service(s)] \notin ErrorPcs
      /\ Sound(s)' /\ Sound(s)
  BY CleanSound DEF Clean, HungUp, Sound
<1>2. /\ Serving(s) /\ buffer'[s] = buffer[s] /\ buffer[s] \in Buffers /\ Buf(t) = buffer[s]
      /\ Peer(t) \in {Agent(s), Service(s)} \ {t}
      /\ OneToken(s) /\ OneMessage(s)
  BY <1>0, <1>1, TouchSound DEF Safe
<1>3. CASE ReadGet(t) \/ WriteWait(t)
  <2>1. /\ HasTurn(s)' = HasTurn(s) /\ Listens(s)' = Listens(s)
        /\ unread' = unread /\ content' = content /\ task' = task
        /\ ~At(Service(s), "readReturn")'  \/ At(Service(s), "readReturn")
        /\ packet' = packet
    BY <1>0, <1>2, <1>3 DEF TypeOK, ReadGet, WriteWait, Goto, At, HasTurn, Listens, bufferVars
  <2> QED BY <1>2, <2>1, KeepsTurn DEF Turns
<1>4. CASE ReadCopy(t) /\ t = Agent(s)
  <2>1. unread[buffer[s]] = "cli" /\ unread'[buffer[s]] = "none" /\ At(t, "copyOut") /\ task' = task
    BY <1>0, <1>2, <1>4 DEF TypeOK, ReadCopy, OneMessage, At
  <2>2. /\ Listens(s)' <=> ~content[buffer[s]].end
        /\ HasTurn(s)' = HasTurn(s)
        /\ UNCHANGED <<pc[Service(s)], packet[Service(s)]>>
    BY <1>0, <1>2, <1>4 DEF TypeOK, ReadCopy, Goto, At, Listens, HasTurn
  <2>3. HasTurn(s) <=> ~content[buffer[s]].end
    BY <2>1 DEF Turns
  <2>4. Turns(s)'
    BY <1>2, <2>1, <2>2, <2>3 DEF Turns, At
  <2>5. Hears(s)
    BY <1>2, <2>1, <2>2, <2>3, CleanView, CleanViewPrimed DEF Hears, Turn, Mail, TakesTurns!Other
  <2> QED BY <2>4, <2>5
<1>5. CASE ReadCopy(t) /\ t = Service(s)
  <2>1. unread[buffer[s]] = "srv" /\ unread'[buffer[s]] = "none" /\ task' = task
    BY <1>0, <1>2, <1>5 DEF TypeOK, ReadCopy, OneMessage, At
  <2>2. /\ Listens(s)' = Listens(s)
        /\ packet'[t] = content[buffer[s]] /\ pc'[t] = "readReturn"
        /\ HasTurn(s)' <=> content[buffer[s]].end
    BY <1>0, <1>2, <1>5 DEF TypeOK, ReadCopy, Goto, At, Listens, HasTurn
  <2>3. (Listens(s) <=> content[buffer[s]].end) /\ IsRequest(content[buffer[s]])
    BY <2>1 DEF Turns
  <2>4. Turns(s)'
    BY <1>2, <1>5, <2>1, <2>2, <2>3 DEF Turns
  <2>5. Hears(s)
    BY <1>2, <2>1, <2>2, CleanView, CleanViewPrimed DEF Hears, Turn, Mail, TakesTurns!Other
  <2> QED BY <2>4, <2>5
<1>6. CASE WriteCopy(t) /\ t = Agent(s)
  <2>1. /\ unread[buffer[s]] = "none" /\ unread'[buffer[s]] = "srv" /\ At(t, "copyIn") /\ task' = task
        /\ content'[buffer[s]] = Written(t) /\ packet' = packet
    BY <1>0, <1>2, <1>6 DEF TypeOK, WriteCopy, OneToken, At
  <2>2. task[t] = "forward"
    BY <1>0, <1>1, <1>6, <2>1 DEF TaskInv, At, WritePcs
  <2>3. content'[buffer[s]] = packet[t] /\ IsRequest(packet[t]) /\ direct[s] = ~packet[t].end
    BY <1>6, <2>1, <2>2 DEF Written, Forwards
  <2>4. packet[t].end \in BOOLEAN
    BY <1>0, <1>2, <1>6 DEF TypeOK, Packets
  <2>5. ~Listens(s) /\ (Listens(s)' <=> packet[t].end)
    BY <1>0, <1>6, <2>1, <2>3, <2>4 DEF TypeOK, WriteCopy, Goto, At, Listens
  <2>6. HasTurn(s)' = HasTurn(s) /\ UNCHANGED pc[Service(s)]
    BY <1>0, <1>6 DEF TypeOK, WriteCopy, Goto, HasTurn
  <2>7. ~HasTurn(s)
    BY <2>1, <2>5 DEF Turns
  <2>8. Turns(s)'
    BY <1>2, <2>1, <2>3, <2>5, <2>6, <2>7 DEF Turns, At
  <2>9. Says(s)
    BY <1>2, <2>1, <2>6, <2>7, CleanView, CleanViewPrimed DEF Says, Turn, Mail
  <2> QED BY <2>8, <2>9
<1>7. CASE WriteCopy(t) /\ t = Service(s)
  <2>1. /\ unread[buffer[s]] = "none" /\ unread'[buffer[s]] = "cli" /\ At(t, "copyIn") /\ task' = task
        /\ content'[buffer[s]] = Written(t) /\ packet' = packet
    BY <1>0, <1>2, <1>7 DEF TypeOK, WriteCopy, OneToken, At
  <2>2. task[t] \in {"answer", "last"}
    BY <1>0, <1>7, <2>1 DEF TaskInv, Turns, At, WritePcs
  <2>3. HasTurn(s) /\ Listens(s) /\ Listens(s)' = Listens(s)
    BY <1>0, <1>7, <2>1 DEF TypeOK, WriteCopy, Goto, Turns, HasTurn, At, Listens
  <2>4. /\ HasTurn(s)' <=> ~content'[buffer[s]].end
        /\ ~At(Service(s), "readReturn")'
    BY <1>0, <1>7, <2>1, <2>2 DEF TypeOK, WriteCopy, Written, Goto, HasTurn, At
  <2>5. Turns(s)'
    BY <1>2, <1>7, <2>1, <2>2, <2>3, <2>4 DEF Turns
  <2>6. Says(s)
    BY <1>2, <2>1, <2>3, CleanView, CleanViewPrimed DEF Says, Turn, Mail
  <2> QED BY <2>5, <2>6
<1>8. CASE ErrStore(t) \/ ErrEvent(t) \/ ErrPost(t)
  BY <1>1, <1>8 DEF ErrStore, ErrEvent, ErrPost, At, ErrorPcs
<1> QED BY <1>3, <1>4, <1>5, <1>6, <1>7, <1>8 DEF Touches

\* Where the agent and the service thread are while the scheduler works.
LEMMA CreateFacts ==
  ASSUME ControlInv, NEW s \in Sessions, CreateService(s)
  PROVE  Allotted(s) /\ At(Agent(s), "queued") /\ At(Service(s), "none")
<1>1. sched.at = "thread" /\ sched.session = s /\ sched # [at |-> "register", session |-> s]
  BY DEF CreateService
<1>2. At(Agent(s), "queued")
  BY <1>1 DEF ControlInv, LogonInv
<1> QED BY <1>1, <1>2 DEF ControlInv, LogonInv, CreateService, Allotted, At

LEMMA RegisterFacts ==
  ASSUME ControlInv, NEW s \in Sessions, TSRegisterUser(s)
  PROVE  At(Agent(s), "queued")
<1>1. sched.at = "register" /\ sched.session = s
  BY DEF TSRegisterUser
<1> QED BY <1>1 DEF ControlInv, LogonInv

\* One step of a session.
LEMMA OwnTurns ==
  ASSUME Orderly, SessionInv, SessionInv', NEW s \in Sessions, Steps(s), Forwards(s),
  Clean(s) => Turns(s)
  PROVE  /\ Forwards(s)' /\ (Clean(s)' => Turns(s)')
         /\ Stays(s) \/ Says(s) \/ Hears(s) \/ HangsUp(s)
<1> USE AgentFacts, ServiceFacts, ThreadsDiffer
<1>0. TypeOK /\ TaskInv /\ LogonInv /\ ControlInv /\ OwnInv /\ FreeInv
  BY SessionInvParts DEF ControlInv, TypeInv
<1>1. Forwards(s)'
  BY <1>0, ForwardsStep
<1>2. CASE HungUp(s)'
  BY <1>1, <1>2 DEF Clean, HangsUp, TurnOf, MailOf
<1>3. ASSUME ~HungUp(s)' PROVE ~HungUp(s)
  BY <1>3, HungUpStays
<1>4. CASE ~HungUp(s)' /\ ~Serving(s)'
  <2>1. ~HungUp(s) /\ pc'[Service(s)] = "none"
    BY <1>3, <1>4 DEF Serving, HungUp
  <2>2. pc[Service(s)] = "none"
    <3>1. CASE Works(s)
      BY <1>0, <2>1, <3>1, WorksServing DEF At
    <3>2. CASE AllocExchngBuf(s) \/ TSRegisterUser(s) \/ FreeFlag(s)
      BY <1>0, <2>1, <3>2 DEF TypeOK, AllocExchngBuf, TSRegisterUser, FreeFlag, Goto
    <3>3. CASE CreateService(s)
      BY <1>0, <2>1, <3>3 DEF TypeOK, CreateService, Begin, Goto
    <3> QED BY <3>1, <3>2, <3>3 DEF Steps
  <2>3. Stays(s)
    BY <1>4, <2>1, <2>2 DEF Stays, TurnOf, MailOf, InTransit, HasTurn, Serving
  <2> QED BY <1>1, <1>4, <2>3 DEF Clean
<1>5. CASE ~HungUp(s)' /\ Serving(s)' /\ ~Serving(s)
  <2>1. CreateService(s)
    BY <1>0, <1>5, WorksServing
    DEF TypeOK, Steps, AllocExchngBuf, TSRegisterUser, FreeFlag, Goto, Serving
  <2>2. Allotted(s) /\ At(Agent(s), "queued") /\ At(Service(s), "none")
    BY <1>0, <2>1, CreateFacts
  <2>3. /\ pc'[Service(s)] = "readCheck" /\ task'[Service(s)] = "top" /\ pc'[Agent(s)] = "queued"
        /\ UNCHANGED <<packet, buffer, unread, content, trespassed>>
    BY <1>0, <1>5, <2>1, <2>2 DEF TypeOK, CreateService, Begin, Goto, Serving, At
  <2>4. unread[buffer[s]] = "none"
    <3>1. buffer[s] \in Buffers /\ Untouched(buffer[s])
      BY <1>0, <1>5, <2>3 DEF TypeOK, HungUp, Untouched
    <3>2. \A r \in Sessions : ~Holds(r, buffer[s])
      BY <1>0, <1>5, <2>2 DEF OwnInv, Holds
    <3> QED BY <1>0, <3>1, <3>2 DEF FreeInv
  <2>5. Turns(s)'
    BY <2>3, <2>4 DEF Turns, Listens, HasTurn, At
  <2>6. Stays(s)
    BY <1>3, <1>5, <2>2, <2>3, <2>4 DEF Stays, TurnOf, MailOf, InTransit, HasTurn, At
  <2> QED BY <1>1, <2>5, <2>6
<1>6. CASE ~HungUp(s)' /\ Serving(s)' /\ Serving(s)
  <2>1. Clean(s) /\ Clean(s)' /\ Turns(s)
    BY <1>3, <1>6 DEF Clean
  <2>2. CASE AgentMoves(s)
    <3>1. /\ UNCHANGED <<buffer, unread, content>>
          /\ pc'[Service(s)] = pc[Service(s)] /\ task'[Service(s)] = task[Service(s)]
          /\ packet'[Service(s)] = packet[Service(s)]
      BY <1>0, <2>2, AgentMovesGoes DEF ControlInv, TypeOK, AgentGoes, Begin, Goto, bufferVars
    <3>2. Listens(s)' = Listens(s) /\ HasTurn(s)' = HasTurn(s)
      BY <1>0, <1>6, <2>1, <2>2, <3>1, AgentTurns DEF HasTurn
    <3>3. Turns(s)' /\ Stays(s)
      BY <2>1, <3>1, <3>2, KeepsTurn DEF Turns, At
    <3> QED BY <1>1, <3>3
  <2>3. CASE ServiceMoves(s)
    <3>1. /\ UNCHANGED <<packet, buffer, unread, content, direct>>
          /\ pc'[Agent(s)] = pc[Agent(s)]
      BY <1>0, <2>3, ServiceMovesGoes DEF ControlInv, TypeOK, ServiceGoes, Begin, Goto, bufferVars
    <3>2. HasTurn(s)' = HasTurn(s) /\ task'[Service(s)] # "twice" /\ ~At(Service(s), "readReturn")'
      BY <1>0, <1>6, <2>1, <2>3, ServiceTurns
    <3>3. Listens(s)' = Listens(s)
      BY <3>1 DEF Listens
    <3>4. Turns(s)' /\ Stays(s)
      BY <2>1, <3>1, <3>2, <3>3, KeepsTurn
    <3> QED BY <1>1, <3>4
  <2>4. CASE Touches(Agent(s)) \/ Touches(Service(s))
    BY <1>1, <2>1, <2>4, TouchTurns
  <2>5. CASE StopReading(s) \/ Disconnect(s) \/ TSRegisterUser(s)
    <3>1. /\ UNCHANGED <<task, packet, buffer, unread, content, direct>>
          /\ pc'[Service(s)] = pc[Service(s)]
          /\ \/ pc'[Agent(s)] = pc[Agent(s)]
             \/ pc[Agent(s)] = "queued" /\ pc'[Agent(s)] = "logonReply"
      BY <1>0, <2>5, RegisterFacts
      DEF TypeOK, StopReading, Disconnect, TSRegisterUser, Goto, threadVars, bufferVars, At
    <3>2. HasTurn(s)' = HasTurn(s) /\ Listens(s)' = Listens(s)
      BY <3>1 DEF HasTurn, Listens
    <3>3. Turns(s)' /\ Stays(s)
      BY <2>1, <3>1, <3>2, KeepsTurn DEF Turns, At
    <3> QED BY <1>1, <3>3
  <2>6. CASE Connect(s) \/ AllocExchngBuf(s) \/ CreateService(s)
    <3>1. At(Service(s), "none")
      BY <1>0, <2>6, CreateFacts DEF Connect, AllocExchngBuf, LogonInv, At
    <3> QED BY <1>6, <3>1 DEF Serving, At
  <2>7. CASE FreeEvent(s) \/ FreeFlag(s) \/ TSUnregisterUser(s)
    BY <2>1, <2>7 DEF FreeEvent, FreeFlag, TSUnregisterUser, Clean, HungUp, At
  <2> QED BY <2>2, <2>3, <2>4, <2>5, <2>6, <2>7 DEF Steps, Works
<1> QED BY <1>2, <1>4, <1>5, <1>6

-----------------------------------------------------------------------------
(* What it is for the other sessions: nothing, or a trespass *)

\* A step of a session leaves the threads of the others where they are.
LEMMA OthersStay ==
  ASSUME ControlInv, NEW s \in Sessions, Steps(s), NEW r \in Sessions, r # s
  PROVE  /\ \A t \in {Agent(r), Service(r)} :
              pc'[t] = pc[t] /\ task'[t] = task[t] /\ packet'[t] = packet[t]
         /\ direct'[r] = direct[r] /\ buffer'[r] = buffer[r]
<1> USE AgentFacts, ServiceFacts, ThreadsDiffer
<1>0. TypeOK
  BY DEF ControlInv, TypeInv
<1>1. CASE AgentMoves(s)
  BY <1>0, <1>1, AgentMovesGoes DEF ControlInv, TypeOK, AgentGoes, Begin, Goto
<1>2. CASE ServiceMoves(s)
  BY <1>0, <1>2, ServiceMovesGoes DEF ControlInv, TypeOK, ServiceGoes, Begin, Goto
<1>3. CASE Touches(Agent(s)) \/ Touches(Service(s))
  BY <1>0, <1>3, TouchFrame, TouchGoes
<1>4. CASE Connect(s) \/ StopReading(s) \/ Disconnect(s) \/ FreeEvent(s) \/ TSUnregisterUser(s) \/ AllocExchngBuf(s)
           \/ TSRegisterUser(s) \/ FreeFlag(s)
  BY <1>0, <1>4
  DEF TypeOK, Connect, StopReading, Disconnect, FreeEvent, TSUnregisterUser, AllocExchngBuf, TSRegisterUser,
      FreeFlag,
      threadVars, Goto
<1>5. CASE CreateService(s)
  BY <1>0, <1>5 DEF TypeOK, CreateService, Begin, Goto
<1> QED BY <1>1, <1>2, <1>3, <1>4, <1>5 DEF Steps, Works

\* Only an agent that has lost its buffer takes it from under another session.
LEMMA TrespassFacts ==
  ASSUME SessionInv, NEW s \in Sessions, Steps(s), NEW b \in trespassed' \ trespassed
  PROVE  b = buffer[s] /\ ~Serving(s) /\ HungUp(s)
<1> USE AgentFacts, ServiceFacts, ThreadsDiffer
<1>0. TypeOK /\ ControlInv /\ OwnInv
  BY SessionInvParts DEF ControlInv, TypeInv
<1>1. PICK t \in {Agent(s), Service(s)} : Touches(t)
  <2>1. ~AgentMoves(s)
    BY <1>0, AgentMovesGoes DEF ControlInv, AgentGoes
  <2>2. ~ServiceMoves(s)
    BY <1>0, ServiceMovesGoes DEF ControlInv, ServiceGoes
  <2> QED BY <2>1, <2>2
      DEF Steps, Works, Connect, StopReading, Disconnect, FreeEvent, TSUnregisterUser, AllocExchngBuf, CreateService,
          TSRegisterUser, FreeFlag
<1>2. Trespass(t)
  BY <1>1 DEF Touches, ReadGet, ReadCopy, WriteWait, WriteCopy, ErrStore, ErrEvent, ErrPost
<1>3. t = Agent(s) /\ b = buffer[s] /\ ~Serving(s)
  BY <1>2 DEF Trespass, Holds, Buf
<1>4. pc[Agent(s)] \in TouchPcs
  BY <1>1, <1>3, TouchGoes
<1>5. pc[Service(s)] # "none"
  BY <1>0, <1>4 DEF ControlInv, LogonInv, At, TouchPcs
<1> QED BY <1>3, <1>5 DEF HungUp, Serving

LEMMA OthersTurns ==
  ASSUME SessionInv, NEW s \in Sessions, Steps(s), NEW r \in Sessions, r # s,
         Forwards(r), Clean(r) => Turns(r)
  PROVE  /\ Forwards(r)' /\ (Clean(r)' => Turns(r)')
         /\ \/ Stays(r)
            \/ Serving(r) /\ ~Serving(s) /\ HungUp(s) /\ buffer[r] = buffer[s] /\ HangsUp(r)
<1> USE AgentFacts, ServiceFacts, ThreadsDiffer
<1>0. ControlInv /\ OwnInv
  BY SessionInvParts
<1>1. /\ \A t \in {Agent(r), Service(r)} :
           pc'[t] = pc[t] /\ task'[t] = task[t] /\ packet'[t] = packet[t]
      /\ direct'[r] = direct[r] /\ buffer'[r] = buffer[r]
  BY <1>0, OthersStay
<1>2. Forwards(r)' /\ Serving(r)' = Serving(r) /\ HasTurn(r)' = HasTurn(r) /\ Listens(r)' = Listens(r)
  BY <1>1 DEF Forwards, Serving, HasTurn, Listens
<1>3. CASE ~Serving(r)
  <2>1. HungUp(r)' = HungUp(r)
    BY <1>1, <1>2, <1>3 DEF HungUp
  <2>2. Stays(r)
    BY <1>2, <1>3, <2>1 DEF Stays, TurnOf, MailOf, InTransit
  <2> QED BY <1>2, <1>3, <2>2 DEF Clean
<1>4. CASE Serving(r) /\ Untouched(buffer[r])'
  <2>1. Untouched(buffer[r]) /\ Same(r)
    BY <1>0, <1>2, <1>4, OthersSame
  <2>2. HungUp(r)' = HungUp(r)
    BY <1>1, <1>2, <1>4, <2>1 DEF HungUp, Same, Broken, Buf, Untouched
  <2>3. Stays(r)
    BY <1>1, <1>2, <2>1, <2>2 DEF Stays, TurnOf, MailOf, InTransit, Same
  <2>4. ASSUME Clean(r)' PROVE Turns(r)'
    <3>1. Clean(r) /\ Turns(r)
      BY <1>2, <2>2, <2>4 DEF Clean
    <3>2. unread'[buffer[r]] = unread[buffer[r]] /\ content'[buffer[r]] = content[buffer[r]]
      BY <2>1 DEF Same
    <3>3. task'[Service(r)] # "twice" /\ (At(Service(r),
    "readReturn")' => IsRequest(packet'[Service(r)]))
      BY <1>1, <3>1 DEF Turns, At
    <3> QED BY <1>1, <1>2, <2>4, <3>1, <3>2, <3>3, KeepsTurn
  <2> QED BY <1>2, <2>3, <2>4
<1>5. CASE Serving(r) /\ ~Untouched(buffer[r])'
  <2>1. HungUp(r)' /\ HangsUp(r)
    BY <1>1, <1>2, <1>5 DEF HungUp, HangsUp, TurnOf, MailOf, Untouched
  <2>2. CASE Untouched(buffer[r])
    BY <1>1, <1>2, <1>5, <2>1, <2>2, TrespassFacts DEF Clean, Untouched
  <2>3. CASE ~Untouched(buffer[r])
    BY <1>2, <1>5, <2>1, <2>3 DEF Clean, Stays, HangsUp, HungUp, TurnOf, MailOf
  <2> QED BY <2>2, <2>3
<1> QED BY <1>3, <1>4, <1>5

-----------------------------------------------------------------------------
(* TurnInv *)

LEMMA TurnInit == Init => TurnInv
<1> SUFFICES ASSUME Init PROVE TurnInv
  OBVIOUS
<1>1. ASSUME NEW s \in Sessions PROVE Forwards(s) /\ ~Clean(s)
  BY AgentFacts, ServiceFacts DEF Init, Forwards, Clean, Serving
<1> QED BY <1>1, TurnInvParts

\* A step that concerns no session.
LEMMA NoneTurns ==
  ASSUME OtherBackup \/ UNCHANGED vars, NEW s \in Sessions
  PROVE  /\ Forwards(s)' = Forwards(s) /\ Clean(s)' = Clean(s) /\ Turns(s)' = Turns(s)
         /\ Stays(s)
<1>1. UNCHANGED <<pc, task, packet, direct, buffer, errorStat, content, unread, trespassed>>
  BY DEF OtherBackup, vars, threadVars, bufferVars
<1>2. HungUp(s)' = HungUp(s) /\ HasTurn(s)' = HasTurn(s) /\ Listens(s)' = Listens(s) /\ Serving(s)' = Serving(s)
  BY <1>1 DEF HungUp, HasTurn, Listens, Serving, Broken, Buf, Untouched
<1>3. Forwards(s)' = Forwards(s)
  BY <1>1 DEF Forwards
<1>4. Clean(s)' = Clean(s)
  BY <1>2 DEF Clean
<1>5. Turns(s)' = Turns(s)
  BY <1>1, <1>2 DEF Turns, At
<1>6. Stays(s)
  BY <1>1, <1>2 DEF Stays, TurnOf, MailOf, InTransit
<1> QED BY <1>3, <1>4, <1>5, <1>6

LEMMA TurnStep ==
  ASSUME Orderly, SessionInv, SessionInv', TurnInv, [Next]_vars
  PROVE  TurnInv'
<1>0. \A r \in Sessions : Forwards(r) /\ (Clean(r) => Turns(r))
  BY TurnInvParts
<1>1. SUFFICES ASSUME NEW r \in Sessions PROVE Forwards(r)' /\ (Clean(r)' => Turns(r)')
  BY DEF TurnInv, Forwards, Clean, Turns
<1>2. CASE OtherBackup \/ UNCHANGED vars
  BY <1>0, <1>2, NoneTurns
<1>3. ASSUME NEW s \in Sessions, Steps(s) PROVE Forwards(r)' /\ (Clean(r)' => Turns(r)')
  BY <1>0, <1>3, OwnTurns, OthersTurns
<1> QED BY <1>2, <1>3, NextSteps

\* In every session that is not broken off one thread speaks and the other listens: the
\* fDirect of ClientAgentThread follows the endPacket of what ServiceShell reads and writes.
THEOREM TurnsKept == Orderly => (Spec => []TurnInv)
<1>1. Orderly /\ SessionInv /\ SessionInv' /\ TurnInv /\ [Next]_vars => TurnInv'
  BY TurnStep
<1>2. CASE Orderly
  BY <1>1, <1>2, TurnInit, SessionsCorrect, PTL DEF Spec
<1> QED BY <1>2

-----------------------------------------------------------------------------
(* The refinement of Dialogue *)

LEMMA DialogueInit == Init => TakesTurns!Init
<1> SUFFICES ASSUME Init PROVE TakesTurns!Init
  OBVIOUS
<1>1. ASSUME NEW s \in Sessions PROVE TurnOf(s) = "client" /\ MailOf(s) = "empty"
  <2>1. pc[Agent(s)] = "out" /\ pc[Service(s)] = "none" /\ task[Agent(s)] = "none"
    BY AgentFacts, ServiceFacts DEF Init
  <2>2. ~Serving(s) /\ ~HungUp(s) /\ ~HasTurn(s)
    BY <2>1 DEF Serving, HungUp, HasTurn, ErrorPcs
  <2> QED BY <2>2 DEF TurnOf, MailOf, InTransit
<1> QED BY <1>1 DEF TakesTurns!Init

LEMMA DialogueSay ==
  ASSUME NEW s \in Sessions, Says(s), \A r \in Sessions \ {s} : Stays(r)
  PROVE  TakesTurns!Say(s)
BY DEF Says, Stays, TakesTurns!Say

LEMMA DialogueHear ==
  ASSUME NEW s \in Sessions, Hears(s), \A r \in Sessions \ {s} : Stays(r)
  PROVE  TakesTurns!Hear(s)
BY DEF Hears, Stays, TakesTurns!Hear

LEMMA DialogueHangUp ==
  ASSUME NEW s \in Sessions, HangsUp(s), \A r \in Sessions \ {s} : Stays(r)
  PROVE  TakesTurns!HangUp(s)
BY DEF HangsUp, Stays, TakesTurns!HangUp

LEMMA DialogueStay ==
  ASSUME \A r \in Sessions : Stays(r)
  PROVE  UNCHANGED TakesTurns!dialogueVars
BY DEF Stays, TakesTurns!dialogueVars

LEMMA DialogueStep ==
  ASSUME Orderly, SessionInv, SessionInv', TurnInv, [Next]_vars
  PROVE  [TakesTurns!Next]_(TakesTurns!dialogueVars)
<1>0. \A r \in Sessions : Forwards(r) /\ (Clean(r) => Turns(r))
  BY TurnInvParts
<1>1. CASE OtherBackup \/ UNCHANGED vars
  BY <1>1, NoneTurns, DialogueStay
<1>2. ASSUME NEW s \in Sessions, Steps(s) PROVE [TakesTurns!Next]_(TakesTurns!dialogueVars)
  <2>1. Stays(s) \/ Says(s) \/ Hears(s) \/ HangsUp(s)
    BY <1>0, <1>2, OwnTurns
  <2>2. CASE \A r \in Sessions \ {s} : Stays(r)
    BY <2>1, <2>2, DialogueSay, DialogueHear, DialogueHangUp, DialogueStay DEF TakesTurns!Next
  <2>3. ASSUME NEW r \in Sessions \ {s}, ~Stays(r)
        PROVE  TakesTurns!Next
    <3>1. Serving(r) /\ ~Serving(s) /\ HungUp(s) /\ buffer[r] = buffer[s] /\ HangsUp(r)
      BY <1>0, <1>2, <2>3, OthersTurns
    <3>2. Stays(s)
      BY <1>2, <3>1, HungUpStays DEF Stays, TurnOf, MailOf
    <3>3. ASSUME NEW q \in Sessions \ {s, r} PROVE Stays(q)
      <4>1. Serving(q) => buffer[q] # buffer[r]
        BY <3>1 DEF SessionInv, OwnInv
      <4> QED BY <1>0, <1>2, <3>1, <4>1, OthersTurns
    <3>4. \A q \in Sessions \ {r} : Stays(q)
      BY <3>2, <3>3
    <3> QED BY <3>1, <3>4, DialogueHangUp DEF TakesTurns!Next
  <2> QED BY <2>2, <2>3
<1> QED BY <1>1, <1>2, NextSteps

\* The two threads of every session implement a dialogue, whatever the other sessions do:
\* packets are heard one by one and in turn, until one of the two hangs up.
THEOREM SessionsTakeTurns == Orderly => (Spec => Dialogues)
<1>1. Orderly /\ SessionInv /\ SessionInv' /\ TurnInv /\ [Next]_vars
        => [TakesTurns!Next]_(TakesTurns!dialogueVars)
  BY DialogueStep
<1>2. CASE Orderly
  BY <1>1, <1>2, DialogueInit, TurnsKept, SessionsCorrect, PTL DEF Spec, Dialogues, TakesTurns!Spec
<1> QED BY <1>2
=============================================================================
