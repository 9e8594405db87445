--------------------------- MODULE SessionProofs ---------------------------
(***************************************************************************)
(* Theorems about Session: types, BufferOwned, NoLostPacket, ReadsFresh.   *)
(*                                                                         *)
(* SessionInv is inductive.  TaskInv and LogonInv follow the control of    *)
(* the threads; OwnInv says whose buffer is whose, so that a step of one   *)
(* session leaves the buffer of another alone, or trespasses on it         *)
(* (OthersSame); FreeInv that a buffer is handed on with nothing in it.    *)
(* The rest is about one session on its own buffer: one token (the event,  *)
(* a writer or a packet), one message for the packet, and a LOGOFF after   *)
(* which the agent writes no more, so that the buffer can be freed.        *)
(*                                                                         *)
(* The steps are grouped: AgentMoves and ServiceMoves only send a thread   *)
(* elsewhere (AgentGoes, ServiceGoes), Touches reads a message or works on *)
(* the buffer, and the others are those of the logon and the end.          *)
(***************************************************************************)
EXTENDS Session, TLAPS

USE SessionAssumption

-----------------------------------------------------------------------------
(* Threads *)

LEMMA AgentFacts ==
  ASSUME NEW s \in Sessions
  PROVE  Agent(s) \in Threads /\ Agent(s)[1] = "cli" /\ Agent(s)[2] = s
BY DEF Agent, Threads, Roles

LEMMA ServiceFacts ==
  ASSUME NEW s \in Sessions
  PROVE  Service(s) \in Threads /\ Service(s)[1] = "srv" /\ Service(s)[2] = s
BY DEF Service, Threads, Roles

\* The threads of different sessions, and the two of one session, are different.
LEMMA ThreadsDiffer ==
  ASSUME NEW s, NEW r
  PROVE  /\ Agent(s) # Service(r)
         /\ s # r => Agent(s) # Agent(r) /\ Service(s) # Service(r)
BY DEF Agent, Service

LEMMA ThreadCases ==
  ASSUME NEW t \in Threads
  PROVE  \E s \in Sessions : t = Agent(s) \/ t = Service(s)
BY DEF Agent, Service, Threads, Roles

-----------------------------------------------------------------------------
(* Types *)

\* The types of the variables a step of one thread may change, together.
TypeInv == TypeOK /\ TaskInv

AllPcs == AgentPcs \cup ServicePcs \cup ReadPcs \cup WritePcs \cup ErrorPcs

LEMMA TypeInit == Init => TypeInv
<1> SUFFICES ASSUME Init PROVE TypeInv
  OBVIOUS
<1>1. NoPacket \in Packets
  BY DEF NoPacket, Packets, RequestKinds
<1>2. 0 \in Buffers
  BY SMT DEF Buffers
<1>3. TypeOK
  BY <1>1, <1>2, AgentFacts, ServiceFacts, SMT
  DEF Init, TypeOK, AgentPcs, ServicePcs, Tasks, Roles
<1>4. TaskInv
  BY AgentFacts, ServiceFacts DEF Init, TaskInv, ReadPcs, WritePcs, NoPacket
<1> QED BY <1>3, <1>4 DEF TypeInv

-----------------------------------------------------------------------------
(* Steps in which one thread goes on elsewhere and the buffers stay as they are *)

AgentMoves(s) ==
  \/ ReadCheck(Agent(s)) \/ ReadReturn(Agent(s)) \/ WriteCheck(Agent(s)) \/ WriteReturn(Agent(s))
  \/ LogonReply(s) \/ ReadPipe(s) \/ ReadFails(s) \/ BrokenPipe(s) \/ Deliver(s)

ServiceMoves(s) ==
  \/ ReadCheck(Service(s)) \/ ReadReturn(Service(s)) \/ WriteCheck(Service(s))
  \/ WriteReturn(Service(s)) \/ AnswerMore(s) \/ AnswerLast(s)

Writes == {"forward", "closing", "logoff"}

\* The agent goes on at p for task k.
AgentGoes(s, p, k) ==
  LET a == Agent(s) IN
  /\ Begin(a, p, k)
  /\ UNCHANGED <<messages, client, buffer, bufferVars, registry, sched, single, trespassed>>
  /\ packet' = [packet EXCEPT ![a] = packet'[a]] /\ packet'[a] \in Packets
  /\ direct' = [direct EXCEPT ![s] = direct'[s]] /\ direct'[s] \in BOOLEAN
  /\ pc[a] \in {"readCheck", "readReturn", "writeCheck", "writeReturn", "logonReply", "pipe", "deliver"}
  /\ \/ p \in {"writeCheck", "wait"} /\ k \in Writes
     \/ p \in {"get", "over", "readCheck", "deliver", "pipe", "errStore"} /\ k = "none"
  /\ k = "forward" => packet'[a].kind \in Requests \/ "read" \in Failures
  /\ packet[a].kind # "logoff" => packet'[a].kind # "logoff"
  /\ At(a, "writeReturn") /\ task[a] = "logoff" => p = "over" \/ Broken(a)

\* The service thread goes on at p for task k.
ServiceGoes(s, p, k) ==
  LET v == Service(s) IN
  /\ Begin(v, p, k)
  /\ UNCHANGED <<packet, messages, direct, client, buffer, bufferVars, registry, sched, trespassed>>
  /\ single' \in {None, s, single}
  /\ pc[v] \in {"readCheck", "readReturn", "writeCheck", "writeReturn", "work"}
  /\ \/ p \in {"readCheck", "get"} /\ k \in {"top", "drain"}
     \/ p \in {"writeCheck", "wait"} /\ k \in {"answer", "twice", "last"}
     \/ p \in {"work", "errStore", "freeEvent"} /\ k = "none"
  /\ p = "freeEvent" => Broken(v) \/ (At(v, "readReturn") /\ packet[v].kind = "logoff")

LEMMA AgentMovesGoes ==
  ASSUME TypeInv, NEW s \in Sessions, AgentMoves(s)
  PROVE  \E p, k : AgentGoes(s, p, k)
<1> USE AgentFacts
<1>0. task[Agent(s)] \in Writes \cup {"none"} /\ packet[Agent(s)] \in Packets /\ direct[s] \in BOOLEAN
  BY DEF TypeInv, TypeOK, TaskInv, Writes
<1>a. /\ packet = [packet EXCEPT ![Agent(s)] = packet[Agent(s)]]
      /\ direct = [direct EXCEPT ![s] = direct[s]]
      /\ task = [task EXCEPT ![Agent(s)] = task[Agent(s)]]
  BY DEF TypeInv, TypeOK
<1>1. CASE ReadCheck(Agent(s)) /\ Broken(Agent(s))
  <2>1. AgentGoes(s, "over", "none")
    BY <1>1, <1>0, <1>a DEF AgentGoes, ReadCheck, ReadReturns, AgentRead, At
  <2> QED BY <2>1
<1>2. CASE ReadCheck(Agent(s)) /\ ~Broken(Agent(s))
  <2>1. task[Agent(s)] = "none"
    BY <1>2 DEF TypeInv, TaskInv, ReadCheck, At, WritePcs
  <2>2. AgentGoes(s, "get", "none")
    BY <1>2, <1>0, <1>a, <2>1 DEF AgentGoes, ReadCheck, Goto, Begin, At
  <2> QED BY <2>2
<1>3. CASE ReadReturn(Agent(s))
  <2>1. CASE Broken(Agent(s))
    <3>1. AgentGoes(s, "over", "none")
      BY <1>3, <2>1, <1>0, <1>a DEF AgentGoes, ReadReturn, ReadReturns, AgentRead, At
    <3> QED BY <3>1
  <2>2. CASE ~Broken(Agent(s))
    <3>1. /\ direct' = [direct EXCEPT ![s] = packet[Agent(s)].end]
          /\ packet[Agent(s)].end \in BOOLEAN /\ direct'[s] = packet[Agent(s)].end
          /\ \/ Begin(Agent(s), "writeCheck", "closing")
             \/ Begin(Agent(s), "deliver", "none")
      BY <1>3, <2>2, <1>0 DEF ReadReturn, ReadReturns, AgentRead, Packets, TypeInv, TypeOK
    <3>2. AgentGoes(s, "writeCheck", "closing") \/ AgentGoes(s, "deliver", "none")
      BY <1>3, <2>2, <3>1, <1>0, <1>a DEF AgentGoes, ReadReturn, ReadReturns, At, Writes
    <3> QED BY <3>2
  <2> QED BY <2>1, <2>2
<1>4. CASE WriteCheck(Agent(s)) \/ WriteReturn(Agent(s))
  <2>0. task[Agent(s)] \in Writes
    BY <1>4, <1>0 DEF TypeInv, TaskInv, WriteCheck, WriteReturn, At, WritePcs
  <2>1. CASE WriteCheck(Agent(s)) /\ ~Broken(Agent(s))
    <3>1. AgentGoes(s, "wait", task[Agent(s)])
      BY <2>1, <2>0, <1>0, <1>a DEF AgentGoes, WriteCheck, Goto, Begin, At, TypeInv, TaskInv
    <3> QED BY <3>1
  <2>2. ASSUME NEW ok \in BOOLEAN, AgentWrote(s, ok), ok <=> ~Broken(Agent(s)),
               WriteCheck(Agent(s)) \/ WriteReturn(Agent(s)),
               UNCHANGED <<packet, messages, direct, client, buffer, bufferVars, registry, sched,
                           single, trespassed>>
        PROVE  \E p, k : AgentGoes(s, p, k)
    <3>1. \/ Begin(Agent(s), "pipe", "none") /\ task[Agent(s)] = "forward"
          \/ Begin(Agent(s), "readCheck", "none") /\ task[Agent(s)] = "forward"
          \/ Begin(Agent(s), "writeCheck", "logoff") /\ task[Agent(s)] = "closing"
          \/ Begin(Agent(s), "errStore", "none") /\ ~ok
          \/ Begin(Agent(s), "over", "none")
      BY <2>2, <2>0 DEF AgentWrote, Writes
    <3>2. pc[Agent(s)] \in {"writeCheck", "writeReturn"}
      BY <2>2 DEF WriteCheck, WriteReturn, At
    <3>3. \/ AgentGoes(s, "pipe", "none") \/ AgentGoes(s, "readCheck", "none")
          \/ AgentGoes(s, "writeCheck", "logoff") \/ AgentGoes(s, "errStore", "none")
          \/ AgentGoes(s, "over", "none")
      BY <2>2, <3>1, <3>2, <1>0, <1>a DEF AgentGoes, At, Writes
    <3> QED BY <3>3
  <2>3. CASE WriteCheck(Agent(s)) /\ Broken(Agent(s))
    <3>1. AgentWrote(s, FALSE)
      BY <2>3 DEF WriteCheck, WriteReturns
    <3> QED BY <3>1, <2>2, <2>3 DEF WriteCheck
  <2>4. CASE WriteReturn(Agent(s))
    <3>1. AgentWrote(s, ~Broken(Agent(s))) /\ (~Broken(Agent(s))) \in BOOLEAN
      BY <2>4 DEF WriteReturn, WriteReturns, Broken
    <3> QED BY <3>1, <2>2, <2>4 DEF WriteReturn
  <2> QED BY <1>4, <2>1, <2>3, <2>4
<1>5. CASE BrokenPipe(s) \/ Deliver(s)
  <2>1. task[Agent(s)] = "none"
    BY <1>5 DEF TypeInv, TaskInv, BrokenPipe, Deliver, At, WritePcs
  <2>2. \E p \in {"over", "pipe", "errStore", "readCheck"} : Goto(Agent(s), p)
    BY <1>5 DEF BrokenPipe, Deliver
  <2>3. \E p \in {"over", "pipe", "errStore", "readCheck"} : AgentGoes(s, p, "none")
    BY <1>5, <2>1, <2>2, <1>0, <1>a DEF AgentGoes, BrokenPipe, Deliver, At, Begin
  <2> QED BY <2>3
<1>b. CASE LogonReply(s)
  <2>1. task[Agent(s)] = "none" /\ At(Agent(s), "logonReply")
    BY <1>b DEF TypeInv, TaskInv, LogonReply, At, WritePcs
  <2>2. \E p \in {"over", "pipe"} : Begin(Agent(s), p, "none")
    BY <1>b, <2>1, <1>a DEF LogonReply, Begin
  <2>3. [kind |-> "sync", end |-> TRUE, of |-> s] \in Packets
    BY DEF Packets
  <2>4. /\ packet'[Agent(s)] = [kind |-> "sync", end |-> TRUE, of |-> s]
        /\ packet' = [packet EXCEPT ![Agent(s)] = packet'[Agent(s)]]
    BY <1>b DEF LogonReply, TypeInv, TypeOK
  <2>5. packet'[Agent(s)].kind # "logoff" /\ packet'[Agent(s)] \in Packets
    BY <2>3, <2>4
  <2>6. \E p \in {"over", "pipe"} : AgentGoes(s, p, "none")
    BY <1>b, <1>0, <1>a, <2>1, <2>2, <2>4, <2>5 DEF AgentGoes, LogonReply, At
  <2> QED BY <2>6
\* The agent goes on with a packet p, of the client or an old one.
<1>t. ASSUME NEW p \in Packets, Take(s, p), At(Agent(s), "pipe"),
             p.kind \in Requests \cup {"close"} \/ "read" \in Failures,
             packet[Agent(s)].kind # "logoff" => p.kind # "logoff"
      PROVE  \E q, k : AgentGoes(s, q, k)
  <2>1. \/ Begin(Agent(s), "writeCheck", "logoff")
        \/ Begin(Agent(s), "writeCheck", "forward") /\ p.kind # "close"
        \/ UNCHANGED <<pc, task>>
    BY <1>t DEF Take
  <2>2. task[Agent(s)] = "none" /\ pc = [pc EXCEPT ![Agent(s)] = "pipe"]
    BY <1>t DEF TypeInv, TypeOK, TaskInv, At, WritePcs
  <2>3. p.end \in BOOLEAN
    BY DEF Packets
  <2>4. packet'[Agent(s)] = p /\ direct'[s] = ~p.end
    BY <1>t DEF Take, TypeInv, TypeOK
  <2>5. /\ packet' = [packet EXCEPT ![Agent(s)] = packet'[Agent(s)]]
        /\ direct' = [direct EXCEPT ![s] = direct'[s]] /\ direct'[s] \in BOOLEAN
    BY <1>t, <2>3, <2>4 DEF Take
  <2>6. CASE UNCHANGED <<pc, task>>
    <3>1. Begin(Agent(s), "pipe", "none")
      BY <2>6, <2>2, <1>a DEF Begin, Goto
    <3>2. AgentGoes(s, "pipe", "none")
      BY <1>t, <2>2, <2>4, <2>5, <3>1 DEF AgentGoes, Take, At
    <3> QED BY <3>2
  <2>7. CASE Begin(Agent(s), "writeCheck", "logoff")
    <3>1. AgentGoes(s, "writeCheck", "logoff")
      BY <1>t, <2>2, <2>4, <2>5, <2>7 DEF AgentGoes, Take, At, Writes
    <3> QED BY <3>1
  <2>8. CASE Begin(Agent(s), "writeCheck", "forward") /\ p.kind # "close"
    <3>1. AgentGoes(s, "writeCheck", "forward")
      BY <1>t, <2>2, <2>4, <2>5, <2>8 DEF AgentGoes, Take, At, Writes
    <3> QED BY <3>1
  <2> QED BY <2>1, <2>6, <2>7, <2>8
<1>6. CASE ReadPipe(s)
  <2>1. PICK kind \in Requests \cup {"close"}, end \in BOOLEAN :
          Take(s, [kind |-> kind, end |-> end, of |-> s])
    BY <1>6 DEF ReadPipe
  <2>2. [kind |-> kind, end |-> end, of |-> s] \in Packets /\ kind # "logoff"
    BY DEF Packets, RequestKinds
  <2>3. At(Agent(s), "pipe")
    BY <1>6 DEF ReadPipe
  <2> QED BY <1>t, <2>1, <2>2, <2>3
<1>7. CASE ReadFails(s)
  <2>1. Take(s, packet[Agent(s)]) /\ At(Agent(s), "pipe") /\ "read" \in Failures
    BY <1>7 DEF ReadFails
  <2> QED BY <1>0, <1>t, <2>1
<1> QED BY <1>1, <1>2, <1>3, <1>4, <1>5, <1>b, <1>6, <1>7 DEF AgentMoves

LEMMA ServiceMovesGoes ==
  ASSUME TypeInv, NEW s \in Sessions, ServiceMoves(s)
  PROVE  \E p, k : ServiceGoes(s, p, k)
<1> USE ServiceFacts
<1>a. task = [task EXCEPT ![Service(s)] = task[Service(s)]]
  BY DEF TypeInv, TypeOK
<1>1. ASSUME NEW ok \in BOOLEAN, ServiceRead(s, ok), ok <=> ~Broken(Service(s)),
             At(Service(s), "readCheck") \/ At(Service(s), "readReturn"), At(Service(s),
             "readCheck") => ~ok,
             UNCHANGED <<packet, messages, direct, client, buffer, bufferVars, registry, sched,
                         trespassed>>
      PROVE  \E p, k : ServiceGoes(s, p, k)
  <2>1. /\ single' \in {None, s, single}
        /\ \/ Begin(Service(s), "freeEvent", "none") /\ (ok => packet[Service(s)].kind = "logoff")
           \/ Begin(Service(s), "readCheck", "top")
           \/ Begin(Service(s), "work", "none")
           \/ Begin(Service(s), "readCheck", "drain")
           \/ Begin(Service(s), "writeCheck", "last")
           \/ Begin(Service(s), "writeCheck", "twice")
           \/ Begin(Service(s), "errStore", "none")
    BY <1>1 DEF ServiceRead, Dispatch
  <2>2. \/ ServiceGoes(s, "freeEvent", "none") \/ ServiceGoes(s, "readCheck", "top")
        \/ ServiceGoes(s, "work", "none") \/ ServiceGoes(s, "readCheck", "drain")
        \/ ServiceGoes(s, "writeCheck", "last") \/ ServiceGoes(s, "writeCheck", "twice")
        \/ ServiceGoes(s, "errStore", "none")
    BY <1>1, <2>1 DEF ServiceGoes, At
  <2> QED BY <2>2
<1>2. CASE ReadCheck(Service(s)) /\ Broken(Service(s))
  <2>1. ServiceRead(s, FALSE) /\ UNCHANGED direct
    BY <1>2 DEF ReadCheck, ReadReturns
  <2> QED BY <2>1, <1>1, <1>2 DEF ReadCheck
<1>3. CASE ReadCheck(Service(s)) /\ ~Broken(Service(s))
  <2>1. task[Service(s)] \in {"top", "drain"}
    BY <1>3 DEF TypeInv, TaskInv, ReadCheck, At, ReadPcs
  <2>2. ServiceGoes(s, "get", task[Service(s)])
    BY <1>3, <1>a, <2>1 DEF ServiceGoes, ReadCheck, At, Begin, Goto
  <2> QED BY <2>2
<1>4. CASE ReadReturn(Service(s))
  <2>1. ServiceRead(s, ~Broken(Service(s))) /\ UNCHANGED direct /\ (~Broken(Service(s))) \in BOOLEAN
    BY <1>4 DEF ReadReturn, ReadReturns, Broken
  <2> QED BY <2>1, <1>1, <1>4 DEF ReadReturn, At
<1>5. CASE WriteCheck(Service(s)) \/ WriteReturn(Service(s))
  <2>1. task[Service(s)] \in {"answer", "twice", "last"} /\ pc[Service(s)] \in {"writeCheck",
  "writeReturn"}
    BY <1>5 DEF TypeInv, TaskInv, WriteCheck, WriteReturn, At, WritePcs
  <2>2. /\ \/ Begin(Service(s), "work", "none") \/ Begin(Service(s), "writeCheck", "last")
           \/ Begin(Service(s), "readCheck", "top") \/ Begin(Service(s), "wait", task[Service(s)])
        /\ UNCHANGED <<packet, messages, direct, client, buffer, bufferVars, registry, sched,
                       single, trespassed>>
    BY <1>5, <1>a DEF WriteCheck, WriteReturn, WriteReturns, ServiceWrote, Begin
  <2>3. \/ ServiceGoes(s, "work", "none") \/ ServiceGoes(s, "writeCheck", "last")
        \/ ServiceGoes(s, "readCheck", "top") \/ ServiceGoes(s, "wait", task[Service(s)])
    BY <2>1, <2>2 DEF ServiceGoes
  <2> QED BY <2>3
<1>6. CASE AnswerMore(s) \/ AnswerLast(s)
  <2>1. ServiceGoes(s, "writeCheck", "answer") \/ ServiceGoes(s, "writeCheck", "last")
    BY <1>6 DEF ServiceGoes, AnswerMore, AnswerLast, At
  <2> QED BY <2>1
<1> QED BY <1>2, <1>3, <1>4, <1>5, <1>6 DEF ServiceMoves


-----------------------------------------------------------------------------
(* TypeOK, TaskInv and LogonInv hold of the threads' control, and are inductive together *)

ControlInv == TypeInv /\ LogonInv

LEMMA ControlInit == Init => ControlInv
<1> SUFFICES ASSUME Init PROVE ControlInv
  OBVIOUS
<1>1. LogonInv
  BY AgentFacts, ServiceFacts DEF Init, LogonInv, At
<1> QED BY <1>1, TypeInit DEF ControlInv

LEMMA ControlAgentGoes ==
  ASSUME ControlInv, NEW s \in Sessions, NEW p, NEW k, AgentGoes(s, p, k)
  PROVE  ControlInv'
<1> USE AgentFacts, ServiceFacts, ThreadsDiffer
<1>1. TypeOK'
  BY SMTT(30) DEF ControlInv, TypeInv, TypeOK, AgentGoes, Begin, Goto, bufferVars, Writes, Tasks,
         AgentPcs, ServicePcs, ReadPcs, WritePcs, ErrorPcs
<1>2. TaskInv'
  BY DEF ControlInv, TypeInv, TypeOK, TaskInv, AgentGoes, Begin, Goto, Writes, ReadPcs, WritePcs
<1>3. LogonInv'
  BY DEF ControlInv, TypeInv, TypeOK, LogonInv, AgentGoes, Begin, Goto, At
<1> QED BY <1>1, <1>2, <1>3 DEF ControlInv, TypeInv

LEMMA ControlServiceGoes ==
  ASSUME ControlInv, NEW s \in Sessions, NEW p, NEW k, ServiceGoes(s, p, k)
  PROVE  ControlInv'
<1> USE AgentFacts, ServiceFacts, ThreadsDiffer
<1>1. TypeOK'
  BY DEF ControlInv, TypeInv, TypeOK, ServiceGoes, Begin, Goto, bufferVars, Tasks,
         AgentPcs, ServicePcs, ReadPcs, WritePcs, ErrorPcs
<1>2. TaskInv'
  BY DEF ControlInv, TypeInv, TypeOK, TaskInv, ServiceGoes, Begin, Goto, ReadPcs, WritePcs
<1>3. LogonInv'
  BY DEF ControlInv, TypeInv, TypeOK, LogonInv, ServiceGoes, Begin, Goto, At
<1> QED BY <1>1, <1>2, <1>3 DEF ControlInv, TypeInv

\* The type of pc, as TypeOK states it.
PcOK ==
  /\ pc \in [Threads -> AgentPcs \cup ServicePcs \cup ReadPcs \cup WritePcs \cup ErrorPcs]
  /\ \A s \in Sessions :
       /\ pc[Agent(s)] \in AgentPcs \cup ReadPcs \cup WritePcs \cup ErrorPcs
       /\ pc[Service(s)] \in ServicePcs \cup ReadPcs \cup WritePcs \cup ErrorPcs

LEMMA PcAgent ==
  ASSUME TypeOK, NEW s \in Sessions, NEW p \in AgentPcs \cup ReadPcs \cup WritePcs \cup ErrorPcs,
         Goto(Agent(s), p)
  PROVE  PcOK'
<1> USE AgentFacts, ServiceFacts, ThreadsDiffer
<1>1. pc' \in [Threads -> AgentPcs \cup ServicePcs \cup ReadPcs \cup WritePcs \cup ErrorPcs]
  BY DEF TypeOK, Goto
<1>2. ASSUME NEW r \in Sessions
      PROVE  pc'[Agent(r)] \in {p, pc[Agent(r)]} /\ pc'[Service(r)] = pc[Service(r)]
  BY DEF TypeOK, Goto
<1> QED BY <1>1, <1>2 DEF TypeOK, PcOK

LEMMA PcService ==
  ASSUME TypeOK, NEW s \in Sessions, NEW p \in ServicePcs \cup ReadPcs \cup WritePcs \cup ErrorPcs,
         Goto(Service(s), p)
  PROVE  PcOK'
<1> USE AgentFacts, ServiceFacts, ThreadsDiffer
<1>1. pc' \in [Threads -> AgentPcs \cup ServicePcs \cup ReadPcs \cup WritePcs \cup ErrorPcs]
  BY DEF TypeOK, Goto
<1>2. ASSUME NEW r \in Sessions
      PROVE  pc'[Service(r)] \in {p, pc[Service(r)]} /\ pc'[Agent(r)] = pc[Agent(r)]
  BY DEF TypeOK, Goto
<1> QED BY <1>1, <1>2 DEF TypeOK, PcOK

\* A message goes to a thread that is under way, if at all.
LEMMA PostFacts ==
  ASSUME TypeOK, NEW t \in Threads, Post(t)
  PROVE  /\ messages' \in [Threads -> Nat]
         /\ \A u \in Threads : ~Alive(u) \/ u # Peer(t) => messages'[u] = messages[u]
         /\ Peer(t) \in Threads => messages'[Peer(t)] \in {messages[Peer(t)], messages[Peer(t)] + 1}
BY DEF TypeOK, Post

\* The two threads of a session that has its buffer are each other's peers.
LEMMA PeerFacts ==
  ASSUME OwnInv, NEW s \in Sessions, Serving(s)
  PROVE  Peer(Agent(s)) = Service(s) /\ Peer(Service(s)) = Agent(s)
BY AgentFacts, ServiceFacts DEF OwnInv, Peer, Buf, Agent, Service

LEMMA AgentPeer ==
  ASSUME NEW s \in Sessions, NEW r \in Sessions
  PROVE  Peer(Agent(s)) # Agent(r) /\ (Peer(Agent(s)) = Service(r) => srvThread[buffer[s]] = r)
BY AgentFacts DEF Peer, Buf, Agent, Service

LEMMA ControlReadGetAgent ==
  ASSUME ControlInv, NEW s \in Sessions, ReadGet(Agent(s))
  PROVE  ControlInv'
<1> USE AgentFacts, ServiceFacts, ThreadsDiffer
<1>1. TypeOK'
  BY DEF ControlInv, TypeInv, TypeOK, TaskInv, ReadGet, At, Goto, Begin, Buf, bufferVars, Roles, Tasks,
         Packets, RequestKinds, AgentPcs, ServicePcs, ReadPcs, WritePcs, ErrorPcs
<1>2. TaskInv'
  BY DEF ControlInv, TypeInv, TypeOK, TaskInv, ReadGet, At, Goto, Begin, ReadPcs, WritePcs
<1>3. LogonInv'
  BY DEF ControlInv, TypeInv, TypeOK, LogonInv, ReadGet, At, Goto, Begin
<1> QED BY <1>1, <1>2, <1>3 DEF ControlInv, TypeInv

LEMMA ControlReadGetService ==
  ASSUME ControlInv, NEW s \in Sessions, ReadGet(Service(s))
  PROVE  ControlInv'
<1> USE AgentFacts, ServiceFacts, ThreadsDiffer
<1>1. TypeOK'
  BY DEF ControlInv, TypeInv, TypeOK, TaskInv, ReadGet, At, Goto, Begin, Buf, bufferVars, Roles, Tasks,
         Packets, RequestKinds, AgentPcs, ServicePcs, ReadPcs, WritePcs, ErrorPcs
<1>2. TaskInv'
  BY DEF ControlInv, TypeInv, TypeOK, TaskInv, ReadGet, At, Goto, Begin, ReadPcs, WritePcs
<1>3. LogonInv'
  BY DEF ControlInv, TypeInv, TypeOK, LogonInv, ReadGet, At, Goto, Begin
<1> QED BY <1>1, <1>2, <1>3 DEF ControlInv, TypeInv

LEMMA ControlReadCopyAgent ==
  ASSUME ControlInv, NEW s \in Sessions, ReadCopy(Agent(s))
  PROVE  ControlInv'
<1> USE AgentFacts, ServiceFacts, ThreadsDiffer
<1>1. TypeOK'
  BY DEF ControlInv, TypeInv, TypeOK, TaskInv, ReadCopy, Trespass, At, Goto, Begin, Buf,
         bufferVars, Roles, Tasks,
         Packets, RequestKinds, AgentPcs, ServicePcs, ReadPcs, WritePcs, ErrorPcs
<1>2. TaskInv'
  BY DEF ControlInv, TypeInv, TypeOK, TaskInv, ReadCopy, At, Goto, Begin, ReadPcs, WritePcs
<1>3. LogonInv'
  BY DEF ControlInv, TypeInv, TypeOK, LogonInv, ReadCopy, At, Goto, Begin
<1> QED BY <1>1, <1>2, <1>3 DEF ControlInv, TypeInv

LEMMA ControlReadCopyService ==
  ASSUME ControlInv, NEW s \in Sessions, ReadCopy(Service(s))
  PROVE  ControlInv'
<1> USE AgentFacts, ServiceFacts, ThreadsDiffer
<1>1. TypeOK'
  BY DEF ControlInv, TypeInv, TypeOK, TaskInv, ReadCopy, Trespass, At, Goto, Begin, Buf,
         bufferVars, Roles, Tasks,
         Packets, RequestKinds, AgentPcs, ServicePcs, ReadPcs, WritePcs, ErrorPcs
<1>2. TaskInv'
  BY DEF ControlInv, TypeInv, TypeOK, TaskInv, ReadCopy, At, Goto, Begin, ReadPcs, WritePcs
<1>3. LogonInv'
  BY DEF ControlInv, TypeInv, TypeOK, LogonInv, ReadCopy, At, Goto, Begin
<1> QED BY <1>1, <1>2, <1>3 DEF ControlInv, TypeInv

LEMMA ControlWriteWaitAgent ==
  ASSUME ControlInv, NEW s \in Sessions, WriteWait(Agent(s))
  PROVE  ControlInv'
<1> USE AgentFacts, ServiceFacts, ThreadsDiffer
<1>1. TypeOK'
  BY DEF ControlInv, TypeInv, TypeOK, TaskInv, WriteWait, Trespass, At, Goto, Begin, Buf,
         bufferVars, Roles, Tasks,
         Packets, RequestKinds, AgentPcs, ServicePcs, ReadPcs, WritePcs, ErrorPcs
<1>2. TaskInv'
  BY DEF ControlInv, TypeInv, TypeOK, TaskInv, WriteWait, At, Goto, Begin, ReadPcs, WritePcs
<1>3. LogonInv'
  BY DEF ControlInv, TypeInv, TypeOK, LogonInv, WriteWait, At, Goto, Begin
<1> QED BY <1>1, <1>2, <1>3 DEF ControlInv, TypeInv

LEMMA ControlWriteWaitService ==
  ASSUME ControlInv, NEW s \in Sessions, WriteWait(Service(s))
  PROVE  ControlInv'
<1> USE AgentFacts, ServiceFacts, ThreadsDiffer
<1>1. TypeOK'
  BY DEF ControlInv, TypeInv, TypeOK, TaskInv, WriteWait, Trespass, At, Goto, Begin, Buf,
         bufferVars, Roles, Tasks,
         Packets, RequestKinds, AgentPcs, ServicePcs, ReadPcs, WritePcs, ErrorPcs
<1>2. TaskInv'
  BY DEF ControlInv, TypeInv, TypeOK, TaskInv, WriteWait, At, Goto, Begin, ReadPcs, WritePcs
<1>3. LogonInv'
  BY DEF ControlInv, TypeInv, TypeOK, LogonInv, WriteWait, At, Goto, Begin
<1> QED BY <1>1, <1>2, <1>3 DEF ControlInv, TypeInv

LEMMA ControlWriteCopyAgent ==
  ASSUME ControlInv, NEW s \in Sessions, WriteCopy(Agent(s))
  PROVE  ControlInv'
<1> USE AgentFacts, ServiceFacts, ThreadsDiffer
<1>1. /\ messages' \in [Threads -> Nat]
      /\ \A u \in Threads : ~Alive(u) \/ u # Peer(Agent(s)) => messages'[u] = messages[u]
  BY PostFacts DEF ControlInv, TypeInv, WriteCopy
<1>2. Written(Agent(s)) \in Packets
  BY DEF ControlInv, TypeInv, TypeOK, TaskInv, WriteCopy, Written, At, Packets, RequestKinds, WritePcs
<1>3. Peer(Agent(s))[1] \in Roles
  BY DEF Peer, Roles
<1>4. \A r \in Sessions : messages'[Agent(r)] = messages[Agent(r)]
  BY <1>1, AgentPeer
<1>5. \A r \in Sessions : At(Service(r), "none") => messages'[Service(r)] = messages[Service(r)]
  BY <1>1 DEF Alive, At
<1>t. trespassed' \subseteq Buffers
  BY DEF ControlInv, TypeInv, TypeOK, WriteCopy, Trespass, Buf
<1>c. content' \in [Buffers -> Packets] /\ unread' \in [Buffers -> {"none"} \cup Roles]
  BY <1>2, <1>3 DEF ControlInv, TypeInv, TypeOK, WriteCopy
<1>m. messages' \in [Threads -> Nat]
  BY <1>1
<1>p. PcOK'
  <2>1. Goto(Agent(s), "writeReturn")
    BY DEF WriteCopy, Begin
  <2> QED BY <2>1, PcAgent DEF ControlInv, TypeInv, AgentPcs, ReadPcs, WritePcs
<1>6. TypeOK'
  BY <1>t, <1>c, <1>m, <1>p DEF ControlInv, TypeInv, TypeOK, PcOK, WriteCopy, Begin, bufferVars, Tasks
<1>7. TaskInv'
  BY DEF ControlInv, TypeInv, TypeOK, TaskInv, WriteCopy, At, Goto, Begin, ReadPcs, WritePcs
<1>8. LogonInv'
  BY <1>4, <1>5 DEF ControlInv, TypeInv, TypeOK, LogonInv, WriteCopy, At, Goto, Begin
<1> QED BY <1>6, <1>7, <1>8 DEF ControlInv, TypeInv

LEMMA ControlWriteCopyService ==
  ASSUME ControlInv, OwnInv, NEW s \in Sessions, WriteCopy(Service(s))
  PROVE  ControlInv'
<1> USE AgentFacts, ServiceFacts, ThreadsDiffer
<1>1. /\ messages' \in [Threads -> Nat]
      /\ \A u \in Threads : ~Alive(u) \/ u # Peer(Service(s)) => messages'[u] = messages[u]
  BY PostFacts DEF ControlInv, TypeInv, WriteCopy
<1>2. Written(Service(s)) \in Packets
  BY DEF ControlInv, TypeInv, TypeOK, TaskInv, WriteCopy, Written, At, Packets, RequestKinds, WritePcs
<1>3. Peer(Service(s))[1] \in Roles
  BY DEF Peer, Roles
<1>a. Serving(s)
  BY DEF Serving, WriteCopy, At
<1>b. Peer(Service(s)) = Agent(s)
  BY <1>a, PeerFacts
<1>4. \A r \in Sessions : r # s => messages'[Agent(r)] = messages[Agent(r)]
  BY <1>1, <1>b
<1>5. \A r \in Sessions : messages'[Service(r)] = messages[Service(r)]
  BY <1>1, <1>b
<1>t. trespassed' \subseteq Buffers
  BY DEF ControlInv, TypeInv, TypeOK, WriteCopy, Trespass, Buf
<1>c. content' \in [Buffers -> Packets] /\ unread' \in [Buffers -> {"none"} \cup Roles]
  BY <1>2, <1>3 DEF ControlInv, TypeInv, TypeOK, WriteCopy
<1>m. messages' \in [Threads -> Nat]
  BY <1>1
<1>p. PcOK'
  <2>1. Goto(Service(s), "writeReturn")
    BY DEF WriteCopy, Begin
  <2> QED BY <2>1, PcService DEF ControlInv, TypeInv, ServicePcs, ReadPcs, WritePcs
<1>6. TypeOK'
  BY <1>t, <1>c, <1>m, <1>p DEF ControlInv, TypeInv, TypeOK, PcOK, WriteCopy, Begin, bufferVars, Tasks
<1>7. TaskInv'
  BY DEF ControlInv, TypeInv, TypeOK, TaskInv, WriteCopy, At, Goto, Begin, ReadPcs, WritePcs
<1>8. LogonInv'
  BY <1>4, <1>5 DEF ControlInv, TypeInv, TypeOK, LogonInv, WriteCopy, At, Goto, Begin
<1> QED BY <1>6, <1>7, <1>8 DEF ControlInv, TypeInv

LEMMA ControlErrStoreAgent ==
  ASSUME ControlInv, NEW s \in Sessions, ErrStore(Agent(s))
  PROVE  ControlInv'
<1> USE AgentFacts, ServiceFacts, ThreadsDiffer
<1>1. TypeOK'
  BY DEF ControlInv, TypeInv, TypeOK, TaskInv, ErrStore, Trespass, At, Goto, Begin, Buf,
         bufferVars, Roles, Tasks,
         Packets, RequestKinds, AgentPcs, ServicePcs, ReadPcs, WritePcs, ErrorPcs
<1>2. TaskInv'
  BY DEF ControlInv, TypeInv, TypeOK, TaskInv, ErrStore, At, Goto, Begin, ReadPcs, WritePcs
<1>3. LogonInv'
  BY DEF ControlInv, TypeInv, TypeOK, LogonInv, ErrStore, At, Goto, Begin
<1> QED BY <1>1, <1>2, <1>3 DEF ControlInv, TypeInv

LEMMA ControlErrStoreService ==
  ASSUME ControlInv, NEW s \in Sessions, ErrStore(Service(s))
  PROVE  ControlInv'
<1> USE AgentFacts, ServiceFacts, ThreadsDiffer
<1>1. TypeOK'
  BY DEF ControlInv, TypeInv, TypeOK, TaskInv, ErrStore, Trespass, At, Goto, Begin, Buf,
         bufferVars, Roles, Tasks,
         Packets, RequestKinds, AgentPcs, ServicePcs, ReadPcs, WritePcs, ErrorPcs
<1>2. TaskInv'
  BY DEF ControlInv, TypeInv, TypeOK, TaskInv, ErrStore, At, Goto, Begin, ReadPcs, WritePcs
<1>3. LogonInv'
  BY DEF ControlInv, TypeInv, TypeOK, LogonInv, ErrStore, At, Goto, Begin
<1> QED BY <1>1, <1>2, <1>3 DEF ControlInv, TypeInv

LEMMA ControlErrEventAgent ==
  ASSUME ControlInv, NEW s \in Sessions, ErrEvent(Agent(s))
  PROVE  ControlInv'
<1> USE AgentFacts, ServiceFacts, ThreadsDiffer
<1>1. TypeOK'
  BY DEF ControlInv, TypeInv, TypeOK, TaskInv, ErrEvent, Trespass, At, Goto, Begin, Buf,
         bufferVars, Roles, Tasks,
         Packets, RequestKinds, AgentPcs, ServicePcs, ReadPcs, WritePcs, ErrorPcs
<1>2. TaskInv'
  BY DEF ControlInv, TypeInv, TypeOK, TaskInv, ErrEvent, At, Goto, Begin, ReadPcs, WritePcs
<1>3. LogonInv'
  BY DEF ControlInv, TypeInv, TypeOK, LogonInv, ErrEvent, At, Goto, Begin
<1> QED BY <1>1, <1>2, <1>3 DEF ControlInv, TypeInv

LEMMA ControlErrEventService ==
  ASSUME ControlInv, NEW s \in Sessions, ErrEvent(Service(s))
  PROVE  ControlInv'
<1> USE AgentFacts, ServiceFacts, ThreadsDiffer
<1>1. TypeOK'
  BY DEF ControlInv, TypeInv, TypeOK, TaskInv, ErrEvent, Trespass, At, Goto, Begin, Buf,
         bufferVars, Roles, Tasks,
         Packets, RequestKinds, AgentPcs, ServicePcs, ReadPcs, WritePcs, ErrorPcs
<1>2. TaskInv'
  BY DEF ControlInv, TypeInv, TypeOK, TaskInv, ErrEvent, At, Goto, Begin, ReadPcs, WritePcs
<1>3. LogonInv'
  BY DEF ControlInv, TypeInv, TypeOK, LogonInv, ErrEvent, At, Goto, Begin
<1> QED BY <1>1, <1>2, <1>3 DEF ControlInv, TypeInv

LEMMA ControlErrPostAgent ==
  ASSUME ControlInv, NEW s \in Sessions, ErrPost(Agent(s))
  PROVE  ControlInv'
<1> USE AgentFacts, ServiceFacts, ThreadsDiffer
<1>1. /\ messages' \in [Threads -> Nat]
      /\ \A u \in Threads : ~Alive(u) \/ u # Peer(Agent(s)) => messages'[u] = messages[u]
  BY PostFacts DEF ControlInv, TypeInv, ErrPost
<1>4. \A r \in Sessions : messages'[Agent(r)] = messages[Agent(r)]
  BY <1>1, AgentPeer
<1>5. \A r \in Sessions : At(Service(r), "none") => messages'[Service(r)] = messages[Service(r)]
  BY <1>1 DEF Alive, At
<1>t. trespassed' \subseteq Buffers
  BY DEF ControlInv, TypeInv, TypeOK, ErrPost, Trespass, Buf
<1>m. messages' \in [Threads -> Nat]
  BY <1>1
<1>p. PcOK'
  <2>1. Goto(Agent(s), "over")
    BY DEF ErrPost, Begin
  <2> QED BY <2>1, PcAgent DEF ControlInv, TypeInv, AgentPcs, ReadPcs, WritePcs
<1>6. TypeOK'
  BY <1>t, <1>m, <1>p DEF ControlInv, TypeInv, TypeOK, PcOK, ErrPost, Begin, bufferVars, Tasks
<1>7. TaskInv'
  BY DEF ControlInv, TypeInv, TypeOK, TaskInv, ErrPost, At, Goto, Begin, ReadPcs, WritePcs
<1>8. LogonInv'
  BY <1>4, <1>5 DEF ControlInv, TypeInv, TypeOK, LogonInv, ErrPost, At, Goto, Begin
<1> QED BY <1>6, <1>7, <1>8 DEF ControlInv, TypeInv

LEMMA ControlErrPostService ==
  ASSUME ControlInv, OwnInv, NEW s \in Sessions, ErrPost(Service(s))
  PROVE  ControlInv'
<1> USE AgentFacts, ServiceFacts, ThreadsDiffer
<1>1. /\ messages' \in [Threads -> Nat]
      /\ \A u \in Threads : ~Alive(u) \/ u # Peer(Service(s)) => messages'[u] = messages[u]
  BY PostFacts DEF ControlInv, TypeInv, ErrPost
<1>a. Serving(s)
  BY DEF Serving, ErrPost, At
<1>b. Peer(Service(s)) = Agent(s)
  BY <1>a, PeerFacts
<1>4. \A r \in Sessions : r # s => messages'[Agent(r)] = messages[Agent(r)]
  BY <1>1, <1>b
<1>5. \A r \in Sessions : messages'[Service(r)] = messages[Service(r)]
  BY <1>1, <1>b
<1>t. trespassed' \subseteq Buffers
  BY DEF ControlInv, TypeInv, TypeOK, ErrPost, Trespass, Buf
<1>m. messages' \in [Threads -> Nat]
  BY <1>1
<1>p. PcOK'
  <2>1. Goto(Service(s), "readCheck")
    BY DEF ErrPost, Begin
  <2> QED BY <2>1, PcService DEF ControlInv, TypeInv, ServicePcs, ReadPcs, WritePcs
<1>6. TypeOK'
  BY <1>t, <1>m, <1>p DEF ControlInv, TypeInv, TypeOK, PcOK, ErrPost, Begin, bufferVars, Tasks
<1>7. TaskInv'
  BY DEF ControlInv, TypeInv, TypeOK, TaskInv, ErrPost, At, Goto, Begin, ReadPcs, WritePcs
<1>8. LogonInv'
  BY <1>4, <1>5 DEF ControlInv, TypeInv, TypeOK, LogonInv, ErrPost, At, Goto, Begin
<1> QED BY <1>6, <1>7, <1>8 DEF ControlInv, TypeInv

LEMMA ControlConnect ==
  ASSUME ControlInv, NEW s \in Sessions, Connect(s)
  PROVE  ControlInv'
<1> USE AgentFacts, ServiceFacts, ThreadsDiffer
<1>1. TypeOK'
  BY DEF ControlInv, TypeInv, TypeOK, LogonInv, Connect, At, Goto, Begin, threadVars, bufferVars,
         Roles, Tasks,
         AgentPcs, ServicePcs, ReadPcs, WritePcs, ErrorPcs
<1>2. TaskInv'
  BY DEF ControlInv, TypeInv, TypeOK, TaskInv, LogonInv, Connect, At, Goto, Begin, threadVars,
         ReadPcs, WritePcs
<1>3. LogonInv'
  BY DEF ControlInv, TypeInv, TypeOK, LogonInv, Connect, At, Goto, Begin, threadVars
<1> QED BY <1>1, <1>2, <1>3 DEF ControlInv, TypeInv

LEMMA ControlDisconnect ==
  ASSUME ControlInv, NEW s \in Sessions, Disconnect(s) \/ StopReading(s)
  PROVE  ControlInv'
<1> USE AgentFacts, ServiceFacts, ThreadsDiffer
<1>1. TypeOK'
  BY DEF ControlInv, TypeInv, TypeOK, LogonInv, Disconnect, StopReading, At, Goto, Begin, threadVars,
         bufferVars, Roles, Tasks,
         AgentPcs, ServicePcs, ReadPcs, WritePcs, ErrorPcs
<1>2. TaskInv'
  BY DEF ControlInv, TypeInv, TypeOK, TaskInv, LogonInv, Disconnect, StopReading, At, Goto, Begin, threadVars,
         ReadPcs, WritePcs
<1>3. LogonInv'
  BY DEF ControlInv, TypeInv, TypeOK, LogonInv, Disconnect, StopReading, At, Goto, Begin, threadVars
<1> QED BY <1>1, <1>2, <1>3 DEF ControlInv, TypeInv

LEMMA ControlAllocExchngBuf ==
  ASSUME ControlInv, NEW s \in Sessions, AllocExchngBuf(s)
  PROVE  ControlInv'
<1> USE AgentFacts, ServiceFacts, ThreadsDiffer
<1>1. TypeOK'
  <2>1. CASE Goto(Agent(s), "over") /\ UNCHANGED <<buffer, inUse, errorStat, cliThread, sched>>
    BY <2>1 DEF ControlInv, TypeInv, TypeOK, AllocExchngBuf, Goto,
           AgentPcs, ServicePcs, ReadPcs, WritePcs, ErrorPcs
  <2>2. CASE UNCHANGED pc
    <3>1. PICK b \in Buffers :
            /\ inUse' = [inUse EXCEPT ![b] = TRUE] /\ errorStat' = [errorStat EXCEPT ![b] = "ok"]
            /\ cliThread' = [cliThread EXCEPT ![b] = s] /\ buffer' = [buffer EXCEPT ![s] = b]
            /\ sched' = [at |-> "thread", session |-> s]
      BY <2>2 DEF AllocExchngBuf, Goto, At, ControlInv, TypeInv, TypeOK
    <3> QED BY <2>2, <3>1 DEF ControlInv, TypeInv, TypeOK, AllocExchngBuf
  <2> QED BY <2>1, <2>2 DEF AllocExchngBuf
<1>2. TaskInv'
  BY DEF ControlInv, TypeInv, TypeOK, TaskInv, LogonInv, AllocExchngBuf, At, Goto, Begin,
         threadVars, ReadPcs, WritePcs
<1>3. LogonInv'
  BY DEF ControlInv, TypeInv, TypeOK, LogonInv, AllocExchngBuf, At, Goto, Begin, threadVars
<1> QED BY <1>1, <1>2, <1>3 DEF ControlInv, TypeInv

LEMMA ControlCreateService ==
  ASSUME ControlInv, NEW s \in Sessions, CreateService(s)
  PROVE  ControlInv'
<1> USE AgentFacts, ServiceFacts, ThreadsDiffer
<1>a. sched = [at |-> "thread", session |-> s]
  BY DEF CreateService
<1>b. sched.at = "thread" /\ sched.session = s /\ sched # [at |-> "register", session |-> s]
  BY <1>a
<1>c. At(Agent(s), "queued")
  BY <1>b DEF ControlInv, LogonInv
<1>d. At(Service(s), "none")
  BY <1>b, <1>c DEF ControlInv, LogonInv, At
<1>0. sched = [at |-> "thread", session |-> s] /\ At(Agent(s), "queued") /\ At(Service(s), "none")
  BY <1>a, <1>c, <1>d
<1>1. CASE /\ Begin(Service(s), "readCheck", "top")
           /\ srvThread' = [srvThread EXCEPT ![buffer[s]] = s]
           /\ sched' = [sched EXCEPT !.at = "register"]
  <2>0. sched' = [at |-> "register", session |-> s] /\ sched'.at = "register" /\ sched'.session = s
    BY <1>0, <1>1
  <2>1. TypeOK'
    BY <1>1, <2>0, SMTT(30) DEF ControlInv, TypeInv, TypeOK, CreateService, Goto, Begin, Tasks,
           AgentPcs, ServicePcs, ReadPcs, WritePcs, ErrorPcs
  <2>2. TaskInv'
    BY <1>0, <1>1 DEF ControlInv, TypeInv, TypeOK, TaskInv, CreateService, At, Goto, Begin,
                      ReadPcs, WritePcs
  <2>3. LogonInv'
    BY <1>0, <1>1, <2>0 DEF ControlInv, TypeInv, TypeOK, LogonInv, CreateService, At, Goto, Begin
  <2> QED BY <2>1, <2>2, <2>3 DEF ControlInv, TypeInv
<1>2. CASE /\ Goto(Agent(s), "over")
           /\ sched' = [at |-> "idle", session |-> None]
           /\ UNCHANGED <<task, srvThread>>
  <2>0. sched'.at = "idle"
    BY <1>2
  <2>1. TypeOK'
    BY <1>2 DEF ControlInv, TypeInv, TypeOK, CreateService, Goto,
           AgentPcs, ServicePcs, ReadPcs, WritePcs, ErrorPcs
  <2>2. TaskInv'
    BY <1>0, <1>2 DEF ControlInv, TypeInv, TypeOK, TaskInv, CreateService, At, Goto, ReadPcs, WritePcs
  <2>3. LogonInv'
    BY <1>0, <1>2, <2>0 DEF ControlInv, TypeInv, TypeOK, LogonInv, CreateService, At, Goto
  <2> QED BY <2>1, <2>2, <2>3 DEF ControlInv, TypeInv
<1> QED BY <1>1, <1>2 DEF CreateService

LEMMA ControlTSRegisterUser ==
  ASSUME ControlInv, NEW s \in Sessions, TSRegisterUser(s)
  PROVE  ControlInv'
<1> USE AgentFacts, ServiceFacts, ThreadsDiffer
<1>1. TypeOK'
  BY DEF ControlInv, TypeInv, TypeOK, LogonInv, TSRegisterUser, At, Goto, Begin, threadVars,
         bufferVars, Roles, Tasks,
         AgentPcs, ServicePcs, ReadPcs, WritePcs, ErrorPcs
<1>2. TaskInv'
  BY DEF ControlInv, TypeInv, TypeOK, TaskInv, LogonInv, TSRegisterUser, At, Goto, Begin,
         threadVars, ReadPcs, WritePcs
<1>3. LogonInv'
  BY DEF ControlInv, TypeInv, TypeOK, LogonInv, TSRegisterUser, At, Goto, Begin, threadVars
<1> QED BY <1>1, <1>2, <1>3 DEF ControlInv, TypeInv

LEMMA ControlFreeEvent ==
  ASSUME ControlInv, NEW s \in Sessions, FreeEvent(s)
  PROVE  ControlInv'
<1> USE AgentFacts, ServiceFacts, ThreadsDiffer
<1>1. TypeOK'
  BY DEF ControlInv, TypeInv, TypeOK, LogonInv, FreeEvent, At, Goto, Begin, threadVars, bufferVars,
         Roles, Tasks,
         AgentPcs, ServicePcs, ReadPcs, WritePcs, ErrorPcs
<1>2. TaskInv'
  BY DEF ControlInv, TypeInv, TypeOK, TaskInv, LogonInv, FreeEvent, At, Goto, Begin, threadVars,
         ReadPcs, WritePcs
<1>3. LogonInv'
  BY DEF ControlInv, TypeInv, TypeOK, LogonInv, FreeEvent, At, Goto, Begin, threadVars
<1> QED BY <1>1, <1>2, <1>3 DEF ControlInv, TypeInv

LEMMA ControlFreeFlag ==
  ASSUME ControlInv, NEW s \in Sessions, FreeFlag(s)
  PROVE  ControlInv'
<1> USE AgentFacts, ServiceFacts, ThreadsDiffer
<1>1. TypeOK'
  BY DEF ControlInv, TypeInv, TypeOK, LogonInv, FreeFlag, At, Goto, Begin, threadVars, bufferVars,
         Roles, Tasks,
         AgentPcs, ServicePcs, ReadPcs, WritePcs, ErrorPcs
<1>2. TaskInv'
  BY DEF ControlInv, TypeInv, TypeOK, TaskInv, LogonInv, FreeFlag, At, Goto, Begin, threadVars,
         ReadPcs, WritePcs
<1>3. LogonInv'
  BY DEF ControlInv, TypeInv, TypeOK, LogonInv, FreeFlag, At, Goto, Begin, threadVars
<1> QED BY <1>1, <1>2, <1>3 DEF ControlInv, TypeInv

LEMMA ControlTSUnregisterUser ==
  ASSUME ControlInv, NEW s \in Sessions, TSUnregisterUser(s)
  PROVE  ControlInv'
<1> USE AgentFacts, ServiceFacts, ThreadsDiffer
<1>1. TypeOK'
  BY DEF ControlInv, TypeInv, TypeOK, LogonInv, TSUnregisterUser, At, Goto, Begin, threadVars,
         bufferVars, Roles, Tasks,
         AgentPcs, ServicePcs, ReadPcs, WritePcs, ErrorPcs
<1>2. TaskInv'
  BY DEF ControlInv, TypeInv, TypeOK, TaskInv, LogonInv, TSUnregisterUser, At, Goto, Begin,
         threadVars, ReadPcs, WritePcs
<1>3. LogonInv'
  BY DEF ControlInv, TypeInv, TypeOK, LogonInv, TSUnregisterUser, At, Goto, Begin, threadVars
<1> QED BY <1>1, <1>2, <1>3 DEF ControlInv, TypeInv

-----------------------------------------------------------------------------
(* The steps of a session, and what they leave alone *)

\* Thread t reads a message, or works on the buffer.
Touches(t) ==
  \/ ReadGet(t) \/ ReadCopy(t) \/ WriteWait(t) \/ WriteCopy(t)
  \/ ErrStore(t) \/ ErrEvent(t) \/ ErrPost(t)

\* The steps of session s that concern no logon.
Works(s) ==
  \/ Connect(s) \/ StopReading(s) \/ Disconnect(s) \/ AgentMoves(s) \/ ServiceMoves(s)
  \/ Touches(Agent(s)) \/ Touches(Service(s)) \/ FreeEvent(s) \/ TSUnregisterUser(s)

Steps(s) ==
  Works(s) \/ AllocExchngBuf(s) \/ CreateService(s) \/ TSRegisterUser(s) \/ FreeFlag(s)

LEMMA NextSteps == Next => OtherBackup \/ \E s \in Sessions : Steps(s)
BY DEF Next, ClientNext, AgentNext, SchedulerNext, ServiceNext, CliRead, SrvRead, CliWrite, SrvWrite,
       CliSetError, SrvSetError, Steps, Works, Touches, AgentMoves, ServiceMoves

TouchPcs == {"get", "copyOut", "wait", "copyIn", "errStore", "errEvent", "errPost"}

\* Where a thread goes that touches the buffer.
LEMMA TouchGoes ==
  ASSUME NEW s \in Sessions, NEW t \in {Agent(s), Service(s)}, Touches(t)
  PROVE  /\ pc[t] \in TouchPcs
         /\ \E p \in {"copyOut", "readReturn", "copyIn", "writeReturn", "errEvent", "errPost",
                      "readCheck", IF t = Agent(s) THEN "over" ELSE "readCheck"} : Goto(t, p)
         /\ UNCHANGED <<direct, client, buffer, inUse, cliThread, srvThread, registry, sched, single>>
BY AgentFacts, ServiceFacts, ThreadsDiffer
DEF Touches, TouchPcs, ReadGet, ReadCopy, WriteWait, WriteCopy, ErrStore, ErrEvent, ErrPost, At,
    Begin, bufferVars

\* A service thread lets the buffer go in FreeFlag only, and takes it in CreateService only.
LEMMA WorksServing ==
  ASSUME ControlInv, NEW s \in Sessions, Works(s), NEW r \in Sessions
  PROVE  /\ Serving(r)' = Serving(r)
         /\ At(Service(r), "none")' = At(Service(r), "none")
         /\ At(Agent(r), "over") => At(Agent(r), "over")'
         /\ UNCHANGED <<buffer, inUse, cliThread, srvThread, sched>>
<1> USE AgentFacts, ServiceFacts, ThreadsDiffer
<1>0. pc \in [Threads -> AgentPcs \cup ServicePcs \cup ReadPcs \cup WritePcs \cup ErrorPcs]
  BY DEF ControlInv, TypeInv, TypeOK
<1>1. CASE AgentMoves(s)
  <2>1. PICK p, k : AgentGoes(s, p, k)
    BY <1>1, AgentMovesGoes DEF ControlInv
  <2> QED BY <1>0, <2>1 DEF AgentGoes, Begin, Goto, Serving, At, bufferVars
<1>2. CASE ServiceMoves(s)
  <2>1. PICK p, k : ServiceGoes(s, p, k)
    BY <1>2, ServiceMovesGoes DEF ControlInv
  <2> QED BY <1>0, <2>1 DEF ServiceGoes, Begin, Goto, Serving, At, bufferVars
<1>3. CASE Touches(Agent(s))
  <2>1. PICK p : Goto(Agent(s), p)
    BY <1>3, TouchGoes
  <2>2. UNCHANGED <<buffer, inUse, cliThread, srvThread, sched>> /\ pc[Agent(s)] \in TouchPcs
    BY <1>3, TouchGoes
  <2> QED BY <1>0, <2>1, <2>2 DEF Goto, Serving, At, TouchPcs
<1>4. CASE Touches(Service(s))
  <2>1. PICK p \in {"copyOut", "readReturn", "copyIn", "writeReturn", "errEvent", "errPost",
  "readCheck"} :
          Goto(Service(s), p)
    BY <1>4, TouchGoes
  <2>2. UNCHANGED <<buffer, inUse, cliThread, srvThread, sched>> /\ pc[Service(s)] \in TouchPcs
    BY <1>4, TouchGoes
  <2> QED BY <1>0, <2>1, <2>2 DEF Goto, Serving, At, TouchPcs
<1>5. CASE Connect(s) \/ StopReading(s) \/ Disconnect(s) \/ FreeEvent(s) \/ TSUnregisterUser(s)
  BY <1>0, <1>5 DEF Connect, StopReading, Disconnect, FreeEvent, TSUnregisterUser, threadVars, bufferVars, Goto,
                    Serving, At
<1> QED BY <1>1, <1>2, <1>3, <1>4, <1>5 DEF Works

-----------------------------------------------------------------------------
(* Whose buffer is whose *)

LEMMA OwnWorks ==
  ASSUME ControlInv, OwnInv, NEW s \in Sessions, Works(s)
  PROVE  OwnInv'
<1>1. \A r \in Sessions : Serving(r)' = Serving(r) /\ At(Service(r), "none")' = At(Service(r), "none")
  BY WorksServing
<1>2. UNCHANGED <<buffer, inUse, cliThread, srvThread, sched>>
  BY WorksServing
<1>3. \A r \in Sessions : Allotted(r)' = Allotted(r)
  BY <1>2 DEF Allotted
<1>4. \A b \in Buffers : /\ srvThread[b] \in Sessions \cup {None}
                         /\ cliThread[b] \in Sessions \cup {None}
  BY DEF ControlInv, TypeInv, TypeOK
<1>5. \A r \in Sessions : Leaked(r) => Leaked(r)'
  BY WorksServing DEF Leaked, At
<1> QED BY <1>1, <1>2, <1>3, <1>4, <1>5 DEF OwnInv

LEMMA OwnAlloc ==
  ASSUME ControlInv, OwnInv, NEW s \in Sessions, AllocExchngBuf(s)
  PROVE  OwnInv'
<1> USE AgentFacts, ServiceFacts, ThreadsDiffer
<1>0. /\ buffer \in [Sessions -> Buffers] /\ inUse \in [Buffers -> BOOLEAN]
      /\ cliThread \in [Buffers -> Sessions \cup {None}] /\ srvThread \in [Buffers -> Sessions \cup {None}]
      /\ pc \in [Threads -> AgentPcs \cup ServicePcs \cup ReadPcs \cup WritePcs \cup ErrorPcs]
  BY DEF ControlInv, TypeInv, TypeOK
<1>1. sched.at = "idle" /\ \A r \in Sessions : ~Allotted(r)
  BY DEF AllocExchngBuf, Allotted
<1>2. CASE Goto(Agent(s), "over") /\ UNCHANGED <<buffer, inUse, errorStat, cliThread, sched>>
  <2>1. \A r \in Sessions : Serving(r)' = Serving(r) /\ At(Service(r), "none")' = At(Service(r), "none")
    BY <1>0, <1>2 DEF Goto, Serving, At
  <2>2. \A r \in Sessions : Allotted(r)' = Allotted(r)
    BY <1>2 DEF Allotted
  <2>3. \A r \in Sessions : Leaked(r) => Leaked(r)'
    BY <1>0, <1>2 DEF Goto, Leaked
  <2> QED BY <1>0, <1>2, <2>1, <2>2, <2>3 DEF OwnInv, AllocExchngBuf
<1>3. CASE UNCHANGED pc
  <2>1. PICK b \in Buffers :
          /\ ~inUse[b] /\ inUse' = [inUse EXCEPT ![b] = TRUE]
          /\ cliThread' = [cliThread EXCEPT ![b] = s] /\ buffer' = [buffer EXCEPT ![s] = b]
          /\ sched' = [at |-> "thread", session |-> s]
    BY <1>0, <1>3 DEF AllocExchngBuf, Goto, At
  <2>2. \A r \in Sessions : Serving(r)' = Serving(r) /\ At(Service(r), "none")' = At(Service(r), "none")
    BY <1>3 DEF Serving, At
  <2>3. \A r \in Sessions : Allotted(r)' <=> r = s
    BY <2>1 DEF Allotted
  <2>4. At(Service(s), "none") /\ ~Serving(s)
    BY <1>1 DEF AllocExchngBuf, ControlInv, LogonInv, At, Serving
  <2>5. \A r \in Sessions : Serving(r) => buffer[r] # b /\ buffer'[r] = buffer[r] /\ buffer[r] \in Buffers
    BY <1>0, <2>1, <2>4 DEF OwnInv
  <2>6. srvThread' = srvThread
    BY DEF AllocExchngBuf
  <2>7. ASSUME NEW r \in Sessions, Serving(r)' \/ Allotted(r)'
        PROVE  /\ inUse'[buffer'[r]] /\ cliThread'[buffer'[r]] = r
               /\ \A q \in Sessions \ {r} : Serving(q)' \/ Allotted(q)' => buffer'[q] # buffer'[r]
    <3>1. CASE r = s
      BY <1>0, <2>1, <2>2, <2>3, <2>4, <2>5, <3>1
    <3>2. CASE r # s
      BY <1>0, <2>1, <2>2, <2>3, <2>4, <2>5, <2>7, <3>2 DEF OwnInv
    <3> QED BY <3>1, <3>2
  <2>8. \A r \in Sessions : Serving(r)' => srvThread'[buffer'[r]] = r
    BY <2>2, <2>5, <2>6 DEF OwnInv
  <2>9. ASSUME NEW c \in Buffers, srvThread'[c] # None
        PROVE  buffer'[srvThread'[c]] = c /\ pc'[Service(srvThread'[c])] # "none"
    <3>1. srvThread'[c] = srvThread[c] /\ srvThread[c] \in Sessions
      BY <1>0, <2>6, <2>9
    <3>2. buffer[srvThread[c]] = c /\ pc[Service(srvThread[c])] # "none"
      BY <2>6, <2>9 DEF OwnInv, At
    <3>3. srvThread[c] # s
      BY <2>4, <3>2 DEF At
    <3> QED BY <1>0, <1>3, <2>1, <3>1, <3>2, <3>3
  <2>10. ASSUME NEW c \in Buffers, inUse'[c]
         PROVE  \E r \in Sessions : /\ buffer'[r] = c /\ cliThread'[c] = r
                                    /\ Serving(r)' \/ Allotted(r)' \/ Leaked(r)'
    <3>1. CASE c = b
      BY <1>0, <2>1, <2>3, <3>1
    <3>2. CASE c # b
      <4>1. inUse[c] /\ cliThread'[c] = cliThread[c]
        BY <1>0, <2>1, <2>10, <3>2
      <4>2. PICK r \in Sessions : buffer[r] = c /\ cliThread[c] = r /\ (Serving(r) \/ Leaked(r))
        BY <1>0, <1>1, <4>1 DEF OwnInv
      <4>3. r # s
        BY <2>4, <4>2 DEF Leaked, AllocExchngBuf, At
      <4>4. buffer'[r] = c
        BY <1>0, <2>1, <4>2, <4>3
      <4>5. Serving(r)' \/ Leaked(r)'
        BY <1>3, <2>2, <4>2 DEF Leaked
      <4> QED BY <4>1, <4>2, <4>4, <4>5
    <3> QED BY <3>1, <3>2
  <2> QED BY <2>7, <2>8, <2>9, <2>10 DEF OwnInv, At
<1> QED BY <1>2, <1>3 DEF AllocExchngBuf

LEMMA OwnCreate ==
  ASSUME ControlInv, OwnInv, NEW s \in Sessions, CreateService(s)
  PROVE  OwnInv'
<1> USE AgentFacts, ServiceFacts, ThreadsDiffer
<1>0. /\ buffer \in [Sessions -> Buffers] /\ srvThread \in [Buffers -> Sessions \cup {None}]
      /\ cliThread \in [Buffers -> Sessions \cup {None}]
      /\ pc \in [Threads -> AgentPcs \cup ServicePcs \cup ReadPcs \cup WritePcs \cup ErrorPcs]
  BY DEF ControlInv, TypeInv, TypeOK
<1>1. \A r \in Sessions : Allotted(r) <=> r = s
  BY DEF CreateService, Allotted
<1>2. UNCHANGED <<buffer, inUse, cliThread>>
  BY DEF CreateService
<1>3. CASE /\ Begin(Service(s), "readCheck", "top")
           /\ srvThread' = [srvThread EXCEPT ![buffer[s]] = s]
           /\ sched' = [sched EXCEPT !.at = "register"]
  <2>1. sched' = [at |-> "register", session |-> s]
    BY <1>3 DEF CreateService
  <2>2. \A r \in Sessions : ~Allotted(r)'
    BY <2>1 DEF Allotted
  <2>3. \A r \in Sessions : Serving(r)' <=> Serving(r) \/ r = s
    BY <1>0, <1>3 DEF Begin, Goto, Serving
  <2>4. \A r \in Sessions : At(Service(r), "none")' => At(Service(r), "none") /\ r # s
    BY <1>0, <1>3 DEF Begin, Goto, At
  <2>5. \A r \in Sessions : Leaked(r) => Leaked(r)' \/ Serving(r)'
    BY <1>0, <1>3 DEF Begin, Goto, Leaked, Serving
  <2>6. \A b \in Buffers : inUse'[b] => \E r \in Sessions :
          buffer'[r] = b /\ cliThread'[b] = r /\ (Serving(r)' \/ Allotted(r)' \/ Leaked(r)')
    BY <1>0, <1>1, <1>2, <2>3, <2>5 DEF OwnInv
  <2> QED BY <1>0, <1>1, <1>2, <1>3, <2>2, <2>3, <2>4, <2>6 DEF OwnInv
<1>4. CASE /\ Goto(Agent(s), "over")
           /\ sched' = [at |-> "idle", session |-> None]
           /\ UNCHANGED <<task, srvThread>>
  <2>1. \A r \in Sessions : Serving(r)' = Serving(r) /\ At(Service(r), "none")' = At(Service(r), "none")
    BY <1>0, <1>4 DEF Goto, Serving, At
  <2>2. \A r \in Sessions : ~Allotted(r)'
    BY <1>4 DEF Allotted
  <2>3. \A r \in Sessions : Leaked(r) => Leaked(r)'
    BY <1>0, <1>4 DEF Goto, Leaked
  <2>4. Leaked(s)'
    <3>1. sched.at = "thread" /\ sched.session = s /\ sched # [at |-> "register", session |-> s]
      BY DEF CreateService
    <3>2. At(Service(s), "none")
      BY <3>1 DEF ControlInv, LogonInv, At
    <3> QED BY <1>0, <1>4, <3>2 DEF Goto, Leaked, At
  <2>5. \A b \in Buffers : inUse'[b] => \E r \in Sessions :
          buffer'[r] = b /\ cliThread'[b] = r /\ (Serving(r)' \/ Allotted(r)' \/ Leaked(r)')
    BY <1>0, <1>1, <1>2, <2>1, <2>3, <2>4 DEF OwnInv
  <2> QED BY <1>0, <1>2, <1>4, <2>1, <2>2, <2>5 DEF OwnInv
<1> QED BY <1>3, <1>4 DEF CreateService

LEMMA OwnRegister ==
  ASSUME ControlInv, OwnInv, NEW s \in Sessions, TSRegisterUser(s)
  PROVE  OwnInv'
<1> USE AgentFacts, ServiceFacts, ThreadsDiffer
<1>0. /\ srvThread \in [Buffers -> Sessions \cup {None}]
      /\ cliThread \in [Buffers -> Sessions \cup {None}]
      /\ pc \in [Threads -> AgentPcs \cup ServicePcs \cup ReadPcs \cup WritePcs \cup ErrorPcs]
  BY DEF ControlInv, TypeInv, TypeOK
<1>1. \A r \in Sessions : ~Allotted(r) /\ ~Allotted(r)'
  BY DEF TSRegisterUser, Allotted
<1>2. \A r \in Sessions : Serving(r)' = Serving(r) /\ At(Service(r), "none")' = At(Service(r), "none")
  BY <1>0 DEF TSRegisterUser, Goto, Serving, At
<1>3. \A r \in Sessions : Leaked(r) => Leaked(r)'
  <2>1. sched.at = "register" /\ sched.session = s
    BY DEF TSRegisterUser
  <2>2. At(Agent(s), "queued")
    BY <2>1 DEF ControlInv, LogonInv
  <2> QED BY <1>0, <2>2 DEF TSRegisterUser, Goto, Leaked, At
<1> QED BY <1>0, <1>1, <1>2, <1>3 DEF OwnInv, TSRegisterUser, bufferVars

LEMMA OwnFreeFlag ==
  ASSUME ControlInv, OwnInv, NEW s \in Sessions, FreeFlag(s)
  PROVE  OwnInv'
<1> USE AgentFacts, ServiceFacts, ThreadsDiffer
<1>0. /\ srvThread \in [Buffers -> Sessions \cup {None}]
      /\ cliThread \in [Buffers -> Sessions \cup {None}] /\ inUse \in [Buffers -> BOOLEAN]
      /\ buffer \in [Sessions -> Buffers]
      /\ pc \in [Threads -> AgentPcs \cup ServicePcs \cup ReadPcs \cup WritePcs \cup ErrorPcs]
  BY DEF ControlInv, TypeInv, TypeOK
<1>1. \A r \in Sessions : Allotted(r)' = Allotted(r)
  BY DEF FreeFlag, Allotted
<1>2. \A r \in Sessions : Serving(r)' <=> Serving(r) /\ r # s
  BY <1>0 DEF FreeFlag, Goto, Serving, At
<1>3. \A r \in Sessions : At(Service(r), "none")' => At(Service(r), "none")
  BY <1>0 DEF FreeFlag, Goto, At
<1>4. Serving(s) /\ ~Allotted(s)
  <2>1. pc[Service(s)] = "freeFlag"
    BY DEF FreeFlag, At
  <2>2. ~Allotted(s)
    BY <2>1 DEF ControlInv, LogonInv, Allotted, At
  <2> QED BY <2>1, <2>2 DEF Serving
<1>5. \A r \in Sessions : Serving(r)' \/ Allotted(r)' => buffer[r] # buffer[s]
  BY <1>1, <1>2, <1>4 DEF OwnInv
<1>6. ASSUME NEW b \in Buffers, inUse'[b]
      PROVE  \E r \in Sessions : /\ buffer'[r] = b /\ cliThread'[b] = r
                                 /\ Serving(r)' \/ Allotted(r)' \/ Leaked(r)'
  <2>1. inUse[b] /\ b # buffer[s] /\ UNCHANGED <<cliThread, buffer>>
    BY <1>0, <1>6 DEF FreeFlag
  <2>2. PICK r \in Sessions : buffer[r] = b /\ cliThread[b] = r /\ (Serving(r) \/ Allotted(r) \/ Leaked(r))
    BY <1>0, <2>1 DEF OwnInv
  <2>3. \A q \in Sessions : q # s /\ Leaked(q) => Leaked(q)'
    BY <1>0 DEF FreeFlag, Goto, Leaked
  <2> QED BY <1>1, <1>2, <2>1, <2>2, <2>3
<1> QED BY <1>0, <1>1, <1>2, <1>3, <1>5, <1>6 DEF OwnInv, FreeFlag

-----------------------------------------------------------------------------
(* What a step of one session changes for another: nothing, or it trespasses *)

\* Nothing of session r changes.
Same(r) ==
  /\ \A t \in {Agent(r), Service(r)} :
       pc'[t] = pc[t] /\ task'[t] = task[t] /\ packet'[t] = packet[t] /\ messages'[t] = messages[t]
  /\ direct'[r] = direct[r] /\ buffer'[r] = buffer[r]
  /\ LET b == buffer[r] IN
       /\ errorStat'[b] = errorStat[b] /\ empty'[b] = empty[b]
       /\ content'[b] = content[b] /\ unread'[b] = unread[b]

\* What thread t of session s may change.
LEMMA TouchFrame ==
  ASSUME TypeOK, NEW s \in Sessions, NEW t \in {Agent(s), Service(s)}, Touches(t)
  PROVE  /\ \A u \in Threads \ {t} :
              /\ pc'[u] = pc[u] /\ task'[u] = task[u] /\ packet'[u] = packet[u]
              /\ u # Peer(t) => messages'[u] = messages[u]
         /\ \A b \in Buffers \ {buffer[s]} :
              /\ errorStat'[b] = errorStat[b] /\ empty'[b] = empty[b]
              /\ content'[b] = content[b] /\ unread'[b] = unread[b]
         /\ trespassed \subseteq trespassed'
         /\ t = Agent(s) /\ ~Serving(s) =>
              \/ buffer[s] \in trespassed'
              \/ /\ UNCHANGED <<errorStat, empty, content, unread>>
                 /\ \A u \in Threads \ {t} : messages'[u] = messages[u]
         /\ Serving(s) => trespassed' = trespassed
<1> USE AgentFacts, ServiceFacts, ThreadsDiffer
<1>0. t \in Threads /\ t[2] = s /\ Buf(t) = buffer[s] /\ (t = Agent(s) <=> t[1] = "cli")
  BY DEF Buf
<1>1. Trespass(t) => /\ trespassed \subseteq trespassed'
                     /\ t = Agent(s) /\ ~Serving(s) => buffer[s] \in trespassed'
                     /\ Serving(s) => trespassed' = trespassed
  BY <1>0 DEF Trespass, Holds
<1>2. Post(t) => \A u \in Threads : u # Peer(t) => messages'[u] = messages[u]
  BY <1>0, PostFacts
<1>3. CASE ReadGet(t)
  BY <1>0, <1>3 DEF TypeOK, ReadGet, Goto, bufferVars
<1>4. CASE ReadCopy(t)
  BY <1>0, <1>1, <1>4 DEF TypeOK, ReadCopy, Goto
<1>5. CASE WriteWait(t)
  BY <1>0, <1>1, <1>5 DEF TypeOK, WriteWait, Goto
<1>6. CASE WriteCopy(t)
  BY <1>0, <1>1, <1>2, <1>6 DEF TypeOK, WriteCopy, Goto
<1>7. CASE ErrStore(t)
  BY <1>0, <1>1, <1>7 DEF TypeOK, ErrStore, Goto
<1>8. CASE ErrEvent(t)
  BY <1>0, <1>1, <1>8 DEF TypeOK, ErrEvent, Goto
<1>9. CASE ErrPost(t)
  <2>1. Begin(t, "over", "none") \/ Begin(t, "readCheck", "top")
    BY <1>9 DEF ErrPost
  <2> QED BY <1>0, <1>1, <1>2, <1>9, <2>1 DEF TypeOK, ErrPost, Begin, Goto, bufferVars
<1> QED BY <1>3, <1>4, <1>5, <1>6, <1>7, <1>8, <1>9 DEF Touches

LEMMA OthersSame ==
  ASSUME ControlInv, OwnInv, NEW s \in Sessions, Steps(s), NEW r \in Sessions, r # s,
         Serving(r)', Untouched(buffer[r])'
  PROVE  Serving(r) /\ Untouched(buffer[r]) /\ Same(r)
<1> USE AgentFacts, ServiceFacts, ThreadsDiffer
<1>0. TypeOK
  BY DEF ControlInv, TypeInv
<1>1. CASE AgentMoves(s)
  <2>1. PICK p, k : AgentGoes(s, p, k)
    BY <1>1, AgentMovesGoes DEF ControlInv
  <2>2. Same(r)
    BY <1>0, <2>1 DEF TypeOK, AgentGoes, Begin, Goto, Same, bufferVars
  <2> QED BY <2>1, <2>2 DEF AgentGoes, Serving, Untouched, Same
<1>2. CASE ServiceMoves(s)
  <2>1. PICK p, k : ServiceGoes(s, p, k)
    BY <1>2, ServiceMovesGoes DEF ControlInv
  <2>2. Same(r)
    BY <1>0, <2>1 DEF TypeOK, ServiceGoes, Begin, Goto, Same, bufferVars
  <2> QED BY <2>1, <2>2 DEF ServiceGoes, Serving, Untouched, Same
<1>3. ASSUME NEW t \in {Agent(s), Service(s)}, Touches(t)
      PROVE  Serving(r) /\ Untouched(buffer[r]) /\ Same(r)
  <2>1. UNCHANGED <<direct, buffer>> /\ pc[t] \in TouchPcs
    BY <1>3, TouchGoes
  <2>2. pc'[Service(r)] = pc[Service(r)] /\ Serving(r)
    BY <1>0, <1>3, TouchFrame DEF Serving
  <2>3. buffer[r] \notin trespassed' /\ buffer[r] \in Buffers /\ Untouched(buffer[r])
    BY <1>0, <1>3, <2>1, TouchFrame DEF Untouched, TypeOK
  <2>4. CASE Serving(s)
    <3>1. buffer[r] # buffer[s]
      BY <2>2, <2>4 DEF OwnInv
    <3>2. Peer(t) \in {Agent(s), Service(s)}
      BY <2>4, PeerFacts
    <3> QED BY <1>0, <1>3, <2>1, <2>2, <2>3, <3>1, <3>2, TouchFrame DEF Same
  <2>5. CASE ~Serving(s)
    <3>1. t = Agent(s)
      BY <2>1, <2>5 DEF Serving, TouchPcs
    <3>2. CASE buffer[s] \in trespassed'
      <4>1. buffer[r] # buffer[s] /\ srvThread[buffer[s]] # r
        BY <1>0, <2>3, <3>2 DEF OwnInv, TypeOK
      <4>2. Peer(t) # Agent(r) /\ Peer(t) # Service(r)
        BY <3>1, <4>1, AgentPeer
      <4> QED BY <1>0, <1>3, <2>1, <2>2, <2>3, <4>1, <4>2, TouchFrame DEF Same
    <3>3. CASE /\ UNCHANGED <<errorStat, empty, content, unread>>
               /\ \A u \in Threads \ {t} : messages'[u] = messages[u]
      BY <1>0, <1>3, <2>1, <2>2, <2>3, <3>3, TouchFrame DEF Same
    <3> QED BY <1>0, <1>3, <2>5, <3>1, <3>2, <3>3, TouchFrame
  <2> QED BY <2>4, <2>5
<1>4. CASE \/ Connect(s) \/ StopReading(s) \/ Disconnect(s) \/ TSUnregisterUser(s)
         \/ CreateService(s) \/ TSRegisterUser(s)
  <2>1. Same(r)
    BY <1>0, <1>4
    DEF TypeOK, Connect, StopReading, Disconnect, TSUnregisterUser, CreateService, TSRegisterUser,
        threadVars, bufferVars, Begin, Goto, Same
  <2> QED BY <1>4, <2>1
      DEF Connect, StopReading, Disconnect, TSUnregisterUser, CreateService, TSRegisterUser, Same,
          Serving, Untouched
<1>5. CASE FreeEvent(s) \/ FreeFlag(s)
  <2>1. /\ pc'[Service(r)] = pc[Service(r)] /\ pc[Service(s)] \in {"freeEvent", "freeFlag"}
        /\ UNCHANGED <<buffer, trespassed>>
    BY <1>0, <1>5 DEF TypeOK, FreeEvent, FreeFlag, Goto, At
  <2>2. Serving(r) /\ Serving(s)
    BY <2>1 DEF Serving
  <2>3. buffer[r] # buffer[s] /\ buffer[r] \in Buffers
    BY <1>0, <2>2 DEF OwnInv, TypeOK
  <2>4. Same(r)
    BY <1>0, <1>5, <2>3 DEF TypeOK, FreeEvent, FreeFlag, Goto, Same
  <2> QED BY <2>1, <2>2, <2>4 DEF Untouched
<1>6. CASE AllocExchngBuf(s)
  <2>1. pc'[Service(r)] = pc[Service(r)] /\ pc'[Agent(r)] = pc[Agent(r)]
    BY <1>0, <1>6 DEF TypeOK, AllocExchngBuf, Goto, At
  <2>2. Serving(r)
    BY <2>1 DEF Serving
  <2>3. inUse[buffer[r]] /\ buffer[r] \in Buffers
    BY <1>0, <2>2 DEF OwnInv, TypeOK
  <2>4. buffer'[r] = buffer[r] /\ errorStat'[buffer[r]] = errorStat[buffer[r]]
    BY <1>0, <1>6, <2>3 DEF TypeOK, AllocExchngBuf
  <2> QED BY <1>6, <2>1, <2>2, <2>4 DEF AllocExchngBuf, Same, Untouched
<1> QED BY <1>1, <1>2, <1>3, <1>4, <1>5, <1>6 DEF Steps, Works

-----------------------------------------------------------------------------
(* One token, one message, and the LOGOFF last *)

Safe(s) == Sound(s) => OneToken(s) /\ OneMessage(s) /\ LogoffLast(s) /\ ~Breaking(s)

LEMMA SafeSame ==
  ASSUME NEW s \in Sessions, Serving(s), Untouched(buffer[s]), Same(s), Safe(s)
  PROVE  Safe(s)'
<1> USE AgentFacts, ServiceFacts
<1>1. SUFFICES ASSUME Sound(s)' PROVE (OneToken(s) /\ OneMessage(s) /\ LogoffLast(s) /\ ~Breaking(s))'
  BY DEF Safe
<1>2. Sound(s)
  BY <1>1 DEF Sound, Same, Broken, Buf
<1>3. OneToken(s)'
  BY <1>2 DEF Safe, OneToken, Same, At
<1>4. OneMessage(s)'
  BY <1>2 DEF Safe, OneMessage, Same, At
<1>5. LogoffLast(s)'
  BY <1>2 DEF Safe, LogoffLast, Same, At, SaidLogoff
<1>6. ~Breaking(s)'
  BY <1>2 DEF Safe, Breaking, Same
<1> QED BY <1>3, <1>4, <1>5, <1>6

LEMMA SafeAgentGoes ==
  ASSUME ControlInv, NEW s \in Sessions, Safe(s), NEW p, NEW k, AgentGoes(s, p, k)
  PROVE  Safe(s)'
<1> USE AgentFacts, ServiceFacts, ThreadsDiffer
<1>0. /\ TypeOK
      /\ pc'[Agent(s)] = p /\ task'[Agent(s)] = k /\ pc'[Service(s)] = pc[Service(s)]
      /\ packet'[Service(s)] = packet[Service(s)]
      /\ UNCHANGED <<messages, buffer, errorStat, empty, content, unread, trespassed>>
  BY DEF ControlInv, TypeInv, TypeOK, AgentGoes, Begin, Goto, bufferVars
<1>1. SUFFICES ASSUME Sound(s)' PROVE (OneToken(s) /\ OneMessage(s) /\ LogoffLast(s) /\ ~Breaking(s))'
  BY DEF Safe
<1>2. Sound(s)
  BY <1>0, <1>1 DEF Sound, Broken, Buf, Serving, Untouched
<1>3. /\ p \notin {"copyIn", "copyOut", "errEvent", "errPost"}
      /\ pc[Agent(s)] \notin {"copyIn", "copyOut", "over"}
  BY DEF AgentGoes
<1>4. OneToken(s)'
  BY <1>0, <1>2, <1>3 DEF Safe, OneToken, At
<1>5. OneMessage(s)'
  BY <1>0, <1>2, <1>3 DEF Safe, OneMessage, At
<1>6. SaidLogoff(s) => SaidLogoff(s)'
  BY <1>0, <1>2, <1>3 DEF AgentGoes, SaidLogoff, Sound, Broken, Buf, At
<1>7. LogoffLast(s)'
  <2>1. packet'[Agent(s)].kind # "logoff"
    BY <1>2 DEF Safe, LogoffLast, AgentGoes
  <2> QED BY <1>0, <1>2, <1>6, <2>1 DEF Safe, LogoffLast, At
<1>8. ~Breaking(s)'
  BY <1>0, <1>2, <1>3 DEF Safe, Breaking
<1> QED BY <1>4, <1>5, <1>7, <1>8

LEMMA SafeServiceGoes ==
  ASSUME ControlInv, NEW s \in Sessions, Safe(s), NEW p, NEW k, ServiceGoes(s, p, k)
  PROVE  Safe(s)'
<1> USE AgentFacts, ServiceFacts, ThreadsDiffer
<1>0. /\ TypeOK
      /\ pc'[Service(s)] = p /\ pc'[Agent(s)] = pc[Agent(s)] /\ task'[Agent(s)] = task[Agent(s)]
      /\ UNCHANGED <<packet, messages, buffer, errorStat, empty, content, unread, trespassed>>
  BY DEF ControlInv, TypeInv, TypeOK, ServiceGoes, Begin, Goto, bufferVars
<1>1. SUFFICES ASSUME Sound(s)' PROVE (OneToken(s) /\ OneMessage(s) /\ LogoffLast(s) /\ ~Breaking(s))'
  BY DEF Safe
<1>3. /\ p \notin {"copyIn", "copyOut", "errEvent", "errPost", "readReturn"}
      /\ pc[Service(s)] \notin {"copyIn", "copyOut", "freeEvent"}
  BY DEF ServiceGoes
<1>2. Sound(s)
  <2>1. Serving(s)
    BY DEF Serving, ServiceGoes
  <2> QED BY <1>0, <1>1, <2>1 DEF Sound, Broken, Buf, Untouched
<1>4. OneToken(s)'
  BY <1>0, <1>2, <1>3 DEF Safe, OneToken, At
<1>5. OneMessage(s)'
  BY <1>0, <1>2, <1>3 DEF Safe, OneMessage, At
<1>6. p = "freeEvent" => packet[Service(s)].kind = "logoff" /\ At(Service(s), "readReturn")
  BY <1>2 DEF ServiceGoes, Sound
<1>7. LogoffLast(s)'
  BY <1>0, <1>2, <1>3, <1>6 DEF Safe, LogoffLast, At, SaidLogoff
<1>8. ~Breaking(s)'
  BY <1>0, <1>2, <1>3 DEF Safe, Breaking
<1> QED BY <1>4, <1>5, <1>7, <1>8

\* A thread that touches the buffer of its session, while it has it.
LEMMA TouchSound ==
  ASSUME ControlInv, OwnInv, NEW s \in Sessions, NEW t \in {Agent(s), Service(s)}, Touches(t), Sound(s)'
  PROVE  /\ Sound(s) /\ Serving(s) /\ buffer'[s] = buffer[s] /\ buffer[s] \in Buffers
         /\ Buf(t) = buffer[s] /\ t \in Threads
         /\ Peer(t) \in {Agent(s), Service(s)} \ {t} /\ Peer(t) \in Threads
<1> USE AgentFacts, ServiceFacts, ThreadsDiffer
<1>1. TypeOK
  BY DEF ControlInv, TypeInv
<1>2. UNCHANGED <<buffer, inUse>> /\ pc[t] \in TouchPcs
  BY TouchGoes
<1>3. Serving(s)
  <2>1. CASE t = Service(s)
    BY <2>1, <1>2 DEF Serving, TouchPcs
  <2>2. CASE t = Agent(s)
    BY <2>2, <1>1, TouchFrame DEF Serving, Sound
  <2> QED BY <2>1, <2>2
<1>4. Untouched(buffer[s])
  BY <1>1, <1>2, TouchFrame DEF Sound, Untouched
<1>5. buffer[s] \in Buffers /\ Buf(t) = buffer[s]
  BY <1>1 DEF TypeOK, Buf
<1>6. errorStat'[buffer[s]] = "ok" => errorStat[buffer[s]] = "ok"
  BY <1>1, <1>5
  DEF TypeOK, Touches, ReadGet, ReadCopy, WriteWait, WriteCopy, ErrStore, ErrEvent, ErrPost, bufferVars
<1>7. ~Broken(Service(s))
  BY <1>2, <1>6 DEF Sound, Broken, Buf
<1> QED BY <1>2, <1>3, <1>4, <1>5, <1>7, PeerFacts DEF Sound

LEMMA SafeTouches ==
  ASSUME ControlInv, OwnInv, NEW s \in Sessions, Safe(s), NEW t \in {Agent(s), Service(s)}, Touches(t)
  PROVE  Safe(s)'
<1> USE AgentFacts, ServiceFacts, ThreadsDiffer
<1>1. SUFFICES ASSUME Sound(s)' PROVE (OneToken(s) /\ OneMessage(s) /\ LogoffLast(s) /\ ~Breaking(s))'
  BY DEF Safe
<1>0. TypeOK /\ TaskInv
  BY DEF ControlInv, TypeInv
<1>2. /\ Sound(s) /\ Serving(s) /\ buffer'[s] = buffer[s] /\ buffer[s] \in Buffers
      /\ Buf(t) = buffer[s] /\ t \in Threads
      /\ Peer(t) \in {Agent(s), Service(s)} \ {t} /\ Peer(t) \in Threads
  BY <1>1, TouchSound
<1>3. OneToken(s) /\ OneMessage(s) /\ LogoffLast(s) /\ ~Breaking(s)
  BY <1>2 DEF Safe
<1>4. CASE ReadGet(t)
  <2>1. OneToken(s)' /\ ~Breaking(s)'
    BY <1>0, <1>2, <1>3, <1>4 DEF TypeOK, ReadGet, OneToken, Breaking, At, Goto, bufferVars
  <2>2. OneMessage(s)'
    BY <1>0, <1>2, <1>3, <1>4 DEF TypeOK, ReadGet, OneMessage, At, Goto, bufferVars
  <2>3. LogoffLast(s)'
    BY <1>0, <1>2, <1>3, <1>4 DEF TypeOK, ReadGet, LogoffLast, SaidLogoff, At, Goto, bufferVars
  <2> QED BY <2>1, <2>2, <2>3
<1>5. CASE ReadCopy(t)
  <2>1. unread[buffer[s]] = t[1]
    BY <1>2, <1>3, <1>5 DEF ReadCopy, OneMessage, At
  <2>2. OneToken(s)' /\ ~Breaking(s)'
    BY <1>0, <1>2, <1>3, <1>5, <2>1 DEF TypeOK, ReadCopy, OneToken, Breaking, At, Goto
  <2>3. OneMessage(s)'
    BY <1>0, <1>2, <1>3, <1>5, <2>1 DEF TypeOK, ReadCopy, OneMessage, At, Goto
  <2>4. LogoffLast(s)'
    BY <1>0, <1>2, <1>3, <1>5, <2>1 DEF TypeOK, ReadCopy, LogoffLast, SaidLogoff, At, Goto
  <2> QED BY <2>2, <2>3, <2>4
<1>6. CASE WriteWait(t)
  <2>1. OneToken(s)' /\ ~Breaking(s)'
    BY <1>0, <1>2, <1>3, <1>6 DEF TypeOK, WriteWait, OneToken, Breaking, At, Goto
  <2>2. OneMessage(s)'
    BY <1>0, <1>2, <1>3, <1>6 DEF TypeOK, WriteWait, OneMessage, At, Goto
  <2>3. LogoffLast(s)'
    BY <1>0, <1>2, <1>3, <1>6 DEF TypeOK, WriteWait, LogoffLast, SaidLogoff, At, Goto
  <2> QED BY <2>1, <2>2, <2>3
<1>7. CASE WriteCopy(t)
  <2>1. /\ unread[buffer[s]] = "none"
        /\ content'[buffer[s]] = Written(t) /\ unread'[buffer[s]] = Peer(t)[1]
        /\ Post(t) /\ Goto(t, "writeReturn")
        /\ UNCHANGED <<task, packet, buffer, errorStat, empty>>
    BY <1>0, <1>2, <1>3, <1>7 DEF TypeOK, WriteCopy, OneToken, At
  <2>2. OneToken(s)' /\ ~Breaking(s)'
    BY <1>0, <1>2, <1>3, <1>7, <2>1 DEF TypeOK, WriteCopy, OneToken, Breaking, At, Goto
  <2>3. /\ \A u \in Threads : u # Peer(t) => messages'[u] = messages[u]
        /\ messages'[Peer(t)] \in {messages[Peer(t)], messages[Peer(t)] + 1}
    BY <1>0, <1>2, <2>1, PostFacts
  <2>4. OneMessage(s)'
    BY <1>0, <1>2, <1>3, <2>1, <2>3 DEF TypeOK, OneMessage, At, Goto
  <2>5. LogoffLast(s)'
    <3>1. CASE t = Agent(s)
      <4>1. Written(t).kind = "logoff" => task[t] = "logoff"
        BY <1>0, <1>3, <1>7, <3>1 DEF TaskInv, LogoffLast, WriteCopy, Written, At, WritePcs
      <4>2. unread'[buffer[s]] = "srv"
        BY <1>2, <2>1, <3>1
      <4> QED BY <1>0, <1>2, <1>3, <1>7, <2>1, <3>1, <4>1, <4>2 DEF TypeOK, LogoffLast, SaidLogoff,
          At, Goto, WriteCopy
    <3>2. CASE t = Service(s)
      <4>1. Written(t).kind = "answer"
        BY <1>0, <1>7, <3>2 DEF TaskInv, WriteCopy, Written, At, WritePcs
      <4>2. unread'[buffer[s]] = "cli"
        BY <1>2, <2>1, <3>2
      <4> QED BY <1>0, <1>2, <1>3, <1>7, <2>1, <3>2, <4>1, <4>2 DEF TypeOK, LogoffLast, SaidLogoff,
          At, Goto, WriteCopy
    <3> QED BY <3>1, <3>2
  <2> QED BY <2>2, <2>4, <2>5
<1>8. CASE ErrStore(t)
  <2>1. errorStat'[buffer[s]] # "ok"
    BY <1>0, <1>2, <1>8 DEF TypeOK, ErrStore
  <2> QED BY <1>1, <1>2, <2>1 DEF Sound, Broken, Buf
<1>9. CASE ErrEvent(t) \/ ErrPost(t)
  BY <1>3, <1>9 DEF Breaking, ErrEvent, ErrPost, At
<1> QED BY <1>4, <1>5, <1>6, <1>7, <1>8, <1>9 DEF Touches

LEMMA SafeFreeEvent ==
  ASSUME ControlInv, NEW s \in Sessions, Safe(s), FreeEvent(s)
  PROVE  Safe(s)'
<1> USE AgentFacts, ServiceFacts, ThreadsDiffer
<1>0. TypeOK
  BY DEF ControlInv, TypeInv
<1>1. SUFFICES ASSUME Sound(s)' PROVE (OneToken(s) /\ OneMessage(s) /\ LogoffLast(s) /\ ~Breaking(s))'
  BY DEF Safe
<1>2. Sound(s) /\ buffer[s] \in Buffers
  BY <1>0, <1>1 DEF TypeOK, FreeEvent, Sound, Broken, Buf, Serving, Untouched, At
<1>3. OneToken(s) /\ OneMessage(s) /\ LogoffLast(s) /\ ~Breaking(s)
  BY <1>2 DEF Safe
<1>4. SaidLogoff(s) /\ unread[buffer[s]] = "none"
  BY <1>3 DEF LogoffLast, FreeEvent, At
<1>5. OneToken(s)'
  BY <1>0, <1>2, <1>3, <1>4 DEF TypeOK, FreeEvent, OneToken, SaidLogoff, At, Goto
<1>6. OneMessage(s)'
  BY <1>0, <1>2, <1>3, <1>4 DEF TypeOK, FreeEvent, OneMessage, At, Goto
<1>7. LogoffLast(s)' /\ ~Breaking(s)'
  BY <1>0, <1>2, <1>3, <1>4 DEF TypeOK, FreeEvent, LogoffLast, SaidLogoff, Breaking, At, Goto
<1> QED BY <1>5, <1>6, <1>7

LEMMA SafeCreate ==
  ASSUME ControlInv, OwnInv, FreeInv, NEW s \in Sessions, CreateService(s)
  PROVE  Safe(s)'
<1> USE AgentFacts, ServiceFacts, ThreadsDiffer
<1>0. TypeOK
  BY DEF ControlInv, TypeInv
<1>1. SUFFICES ASSUME Sound(s)' PROVE (OneToken(s) /\ OneMessage(s) /\ LogoffLast(s) /\ ~Breaking(s))'
  BY DEF Safe
<1>2. Allotted(s) /\ sched.at = "thread" /\ sched.session = s
  BY DEF CreateService, Allotted
<1>3. At(Agent(s), "queued") /\ sched # [at |-> "register", session |-> s]
  BY <1>2 DEF ControlInv, LogonInv
<1>4. At(Service(s), "none") /\ messages[Agent(s)] = 0 /\ messages[Service(s)] = 0
  BY <1>3 DEF ControlInv, LogonInv, At
<1>5. Begin(Service(s), "readCheck", "top")
  BY <1>0, <1>1, <1>4 DEF TypeOK, CreateService, Sound, Serving, Goto, At
<1>6. buffer[s] \in Buffers /\ Untouched(buffer[s]) /\ buffer'[s] = buffer[s]
  BY <1>0, <1>1 DEF TypeOK, CreateService, Sound, Untouched
<1>7. \A r \in Sessions : ~Holds(r, buffer[s])
  BY <1>2, <1>4 DEF OwnInv, Holds, Serving, At
<1>8. unread[buffer[s]] = "none"
  BY <1>6, <1>7 DEF FreeInv
<1>9. packet[Service(s)].kind # "logoff" /\ packet[Agent(s)].kind # "logoff"
  BY <1>4 DEF ControlInv, LogonInv, NoPacket
<1>10. /\ pc'[Service(s)] = "readCheck" /\ pc'[Agent(s)] = "queued"
       /\ UNCHANGED <<packet, messages, unread>>
  BY <1>0, <1>3, <1>5 DEF TypeOK, CreateService, Begin, Goto, At
<1>11. OneToken(s)'
  BY <1>6, <1>8, <1>10 DEF OneToken, At
<1>12. OneMessage(s)'
  BY <1>4, <1>6, <1>8, <1>10 DEF OneMessage, At
<1>13. LogoffLast(s)' /\ ~Breaking(s)'
  BY <1>6, <1>8, <1>9, <1>10 DEF LogoffLast, Breaking, At
<1> QED BY <1>11, <1>12, <1>13

LEMMA SafeSteps ==
  ASSUME ControlInv, OwnInv, FreeInv, NEW s \in Sessions, Safe(s), Steps(s)
  PROVE  Safe(s)'
<1> USE AgentFacts, ServiceFacts, ThreadsDiffer
<1>0. TypeOK
  BY DEF ControlInv, TypeInv
<1>1. CASE AgentMoves(s)
  BY <1>1, AgentMovesGoes, SafeAgentGoes DEF ControlInv
<1>2. CASE ServiceMoves(s)
  BY <1>2, ServiceMovesGoes, SafeServiceGoes DEF ControlInv
<1>3. CASE Touches(Agent(s)) \/ Touches(Service(s))
  BY <1>3, SafeTouches
<1>4. CASE FreeEvent(s)
  BY <1>4, SafeFreeEvent
<1>5. CASE CreateService(s)
  BY <1>5, SafeCreate
<1>6. CASE Connect(s)
  <2>1. ~Serving(s) /\ pc'[Service(s)] = pc[Service(s)]
    BY <1>0, <1>6 DEF TypeOK, Connect, ControlInv, LogonInv, At, Serving, Goto
  <2> QED BY <2>1 DEF Safe, Sound, Serving
<1>7. CASE StopReading(s) \/ Disconnect(s)
  <2>1. Same(s) /\ UNCHANGED <<pc, buffer, trespassed>>
    BY <1>0, <1>7 DEF StopReading, Disconnect, Same, threadVars, bufferVars
  <2>2. CASE Serving(s) /\ Untouched(buffer[s])
    BY <2>1, <2>2, SafeSame
  <2>3. CASE ~(Serving(s) /\ Untouched(buffer[s]))
    BY <2>1, <2>3 DEF Safe, Sound, Serving, Untouched
  <2> QED BY <2>2, <2>3
<1>8. CASE TSUnregisterUser(s) \/ FreeFlag(s)
  BY <1>0, <1>8 DEF TypeOK, TSUnregisterUser, FreeFlag, Goto, Safe, Sound, Serving
<1>9. CASE AllocExchngBuf(s)
  <2>1. At(Service(s), "none") /\ pc'[Service(s)] = pc[Service(s)]
    <3>1. sched.at = "idle" /\ At(Agent(s), "queued")
      BY <1>9 DEF AllocExchngBuf
    <3>2. sched # [at |-> "register", session |-> s]
      BY <3>1
    <3> QED BY <1>0, <1>9, <3>1, <3>2 DEF TypeOK, AllocExchngBuf, ControlInv, LogonInv, Goto, At
  <2> QED BY <2>1 DEF Safe, Sound, Serving, At
<1>10. CASE TSRegisterUser(s)
  <2>1. /\ pc'[Agent(s)] = "logonReply" /\ pc[Agent(s)] = "queued" /\ pc'[Service(s)] = pc[Service(s)]
        /\ UNCHANGED <<task, packet, messages, direct, buffer, errorStat, empty, content, unread,
                       trespassed>>
    <3>1. sched = [at |-> "register", session |-> s]
      BY <1>10 DEF TSRegisterUser
    <3>2. sched.at = "register" /\ sched.session = s
      BY <3>1
    <3>3. At(Agent(s), "queued")
      BY <3>2 DEF ControlInv, LogonInv
    <3> QED BY <1>0, <1>10, <3>3 DEF TypeOK, TSRegisterUser, Goto, At, bufferVars
  <2>2. SUFFICES ASSUME Sound(s)' PROVE (OneToken(s) /\ OneMessage(s) /\ LogoffLast(s) /\ ~Breaking(s))'
    BY DEF Safe
  <2>3. Sound(s)
    BY <2>1, <2>2 DEF Sound, Serving, Broken, Buf, Untouched
  <2>4. OneToken(s)' /\ OneMessage(s)' /\ ~Breaking(s)'
    BY <2>1, <2>3 DEF Safe, OneToken, OneMessage, Breaking, At
  <2>5. LogoffLast(s)'
    BY <2>1, <2>3 DEF Safe, LogoffLast, SaidLogoff, At
  <2> QED BY <2>4, <2>5
<1> QED BY <1>1, <1>2, <1>3, <1>4, <1>5, <1>6, <1>7, <1>8, <1>9, <1>10 DEF Steps, Works

-----------------------------------------------------------------------------
(* A buffer that is no session's holds nothing to be read *)

LEMMA FreeSteps ==
  ASSUME ControlInv, OwnInv, FreeInv, NEW s \in Sessions, Steps(s)
  PROVE  FreeInv'
<1> USE AgentFacts, ServiceFacts, ThreadsDiffer
<1>0. TypeOK
  BY DEF ControlInv, TypeInv
<1>1. SUFFICES ASSUME NEW b \in Buffers, Untouched(b)', \A r \in Sessions : ~Holds(r, b)'
               PROVE  unread'[b] = "none"
  BY DEF FreeInv
<1>2. ASSUME Untouched(b), \A r \in Sessions : ~Holds(r, b)
      PROVE  unread[b] = "none"
  BY <1>2 DEF FreeInv
<1>3. CASE Works(s)
  <2>1. \A r \in Sessions : ~Holds(r, b)
    BY <1>1, <1>3, WorksServing DEF Holds
  <2>2. CASE AgentMoves(s)
    BY <1>1, <1>2, <2>1, <2>2, AgentMovesGoes DEF ControlInv, AgentGoes, bufferVars, Untouched
  <2>3. CASE ServiceMoves(s)
    BY <1>1, <1>2, <2>1, <2>3, ServiceMovesGoes DEF ControlInv, ServiceGoes, bufferVars, Untouched
  <2>4. ASSUME NEW t \in {Agent(s), Service(s)}, Touches(t) PROVE unread'[b] = "none"
    <3>1. Untouched(b)
      BY <1>0, <1>1, <2>4, TouchFrame DEF Untouched
    <3>2. CASE b # buffer[s]
      BY <1>0, <1>2, <2>1, <2>4, <3>1, <3>2, TouchFrame
    <3>3. CASE b = buffer[s]
      <4>1. ~Serving(s)
        BY <2>1, <3>3 DEF Holds
      <4>2. t = Agent(s)
        BY <2>4, <4>1, TouchGoes DEF Serving, TouchPcs
      <4>3. UNCHANGED unread
        BY <1>0, <1>1, <2>4, <3>3, <4>1, <4>2, TouchFrame DEF Untouched
      <4> QED BY <1>2, <2>1, <3>1, <4>3
    <3> QED BY <3>2, <3>3
  <2>5. CASE Connect(s) \/ StopReading(s) \/ Disconnect(s) \/ FreeEvent(s) \/ TSUnregisterUser(s)
    BY <1>1, <1>2, <2>1, <2>5
    DEF Connect, StopReading, Disconnect, FreeEvent, TSUnregisterUser, bufferVars, Untouched
  <2> QED BY <1>3, <2>2, <2>3, <2>4, <2>5 DEF Works
<1>4. CASE AllocExchngBuf(s)
  <2>1. ~Serving(s)
    <3>1. sched.at = "idle" /\ At(Agent(s), "queued")
      BY <1>4 DEF AllocExchngBuf
    <3>2. sched # [at |-> "register", session |-> s]
      BY <3>1
    <3> QED BY <3>1, <3>2 DEF ControlInv, LogonInv, Serving, At
  <2>2. \A r \in Sessions : pc'[Service(r)] = pc[Service(r)] /\ (r # s => buffer'[r] = buffer[r])
    BY <1>0, <1>4 DEF TypeOK, AllocExchngBuf, Goto
  <2>3. \A r \in Sessions : ~Holds(r, b)
    BY <1>1, <2>1, <2>2 DEF Holds, Serving
  <2> QED BY <1>1, <1>2, <1>4, <2>3 DEF AllocExchngBuf, Untouched
<1>5. CASE CreateService(s)
  <2>1. At(Service(s), "none")
    <3>1. sched = [at |-> "thread", session |-> s]
      BY <1>5 DEF CreateService
    <3>2. sched.at = "thread" /\ sched.session = s /\ sched # [at |-> "register", session |-> s]
      BY <3>1
    <3> QED BY <3>2 DEF ControlInv, LogonInv, At
  <2>2. \A r \in Sessions : Serving(r) => Serving(r)'
    BY <1>0, <1>5, <2>1 DEF TypeOK, CreateService, Begin, Goto, Serving, At
  <2>3. \A r \in Sessions : ~Holds(r, b)
    BY <1>1, <1>5, <2>2 DEF Holds, CreateService
  <2> QED BY <1>1, <1>2, <1>5, <2>3 DEF CreateService, Untouched
<1>6. CASE TSRegisterUser(s)
  <2>1. \A r \in Sessions : ~Holds(r, b)
    BY <1>0, <1>1, <1>6 DEF TypeOK, TSRegisterUser, Goto, Holds, Serving
  <2> QED BY <1>1, <1>2, <1>6, <2>1 DEF TSRegisterUser, bufferVars, Untouched
<1>7. CASE FreeFlag(s)
  <2>1. CASE b = buffer[s]
    BY <1>0, <1>7, <2>1 DEF TypeOK, FreeFlag
  <2>2. CASE b # buffer[s]
    <3>1. \A r \in Sessions : ~Holds(r, b)
      BY <1>0, <1>1, <1>7, <2>2 DEF TypeOK, FreeFlag, Goto, Holds, Serving
    <3> QED BY <1>0, <1>1, <1>2, <1>7, <2>2, <3>1 DEF TypeOK, FreeFlag, Untouched
  <2> QED BY <2>1, <2>2
<1> QED BY <1>3, <1>4, <1>5, <1>6, <1>7 DEF Steps

-----------------------------------------------------------------------------
(* SessionInv *)

LEMMA ControlSteps ==
  ASSUME ControlInv, OwnInv, NEW s \in Sessions, Steps(s)
  PROVE  ControlInv'
<1>1. CASE AgentMoves(s)
  BY <1>1, AgentMovesGoes, ControlAgentGoes DEF ControlInv
<1>2. CASE ServiceMoves(s)
  BY <1>2, ServiceMovesGoes, ControlServiceGoes DEF ControlInv
<1>3. CASE Touches(Agent(s))
  BY <1>3, ControlReadGetAgent, ControlReadCopyAgent, ControlWriteWaitAgent, ControlWriteCopyAgent,
     ControlErrStoreAgent, ControlErrEventAgent, ControlErrPostAgent
  DEF Touches
<1>4. CASE Touches(Service(s))
  BY <1>4, ControlReadGetService, ControlReadCopyService, ControlWriteWaitService,
     ControlWriteCopyService, ControlErrStoreService, ControlErrEventService, ControlErrPostService
  DEF Touches
<1> QED
  BY <1>1, <1>2, <1>3, <1>4, ControlConnect, ControlDisconnect, ControlAllocExchngBuf,
     ControlCreateService, ControlTSRegisterUser, ControlFreeEvent, ControlFreeFlag,
     ControlTSUnregisterUser
  DEF Steps, Works

LEMMA SessionInvParts ==
  SessionInv <=> ControlInv /\ OwnInv /\ FreeInv /\ \A s \in Sessions : Safe(s)
BY DEF SessionInv, ControlInv, TypeInv, Safe

LEMMA SessionInit == Init => SessionInv
<1> SUFFICES ASSUME Init PROVE SessionInv
  OBVIOUS
<1>1. ControlInv
  BY ControlInit
<1>2. \A s \in Sessions : ~Serving(s) /\ ~Allotted(s)
  BY ServiceFacts DEF Init, Serving, Allotted
<1>3. OwnInv
  BY <1>2 DEF Init, OwnInv
<1>4. FreeInv
  BY DEF Init, FreeInv
<1>5. \A s \in Sessions : Safe(s)
  BY <1>2 DEF Safe, Sound
<1> QED BY <1>1, <1>3, <1>4, <1>5, SessionInvParts

LEMMA SessionStep == SessionInv /\ [Next]_vars => SessionInv'
<1> SUFFICES ASSUME SessionInv, [Next]_vars PROVE SessionInv'
  OBVIOUS
<1>0. ControlInv /\ OwnInv /\ FreeInv /\ \A r \in Sessions : Safe(r)
  BY SessionInvParts
<1>1. ASSUME NEW s \in Sessions, Steps(s) PROVE SessionInv'
  <2>1. ControlInv' /\ FreeInv'
    BY <1>0, <1>1, ControlSteps, FreeSteps
  <2>2. OwnInv'
    BY <1>0, <1>1, OwnWorks, OwnAlloc, OwnCreate, OwnRegister, OwnFreeFlag DEF Steps
  <2>3. ASSUME NEW r \in Sessions PROVE Safe(r)'
    <3>1. CASE r = s
      BY <1>0, <1>1, <3>1, SafeSteps
    <3>2. CASE r # s /\ Sound(r)'
      <4>1. Serving(r) /\ Untouched(buffer[r]) /\ Same(r)
        BY <1>0, <1>1, <3>2, OthersSame DEF Sound
      <4> QED BY <1>0, <4>1, SafeSame
    <3>3. CASE ~Sound(r)'
      BY <3>3 DEF Safe
    <3> QED BY <3>1, <3>2, <3>3
  <2> QED BY <2>1, <2>2, <2>3 DEF SessionInv, ControlInv, TypeInv, Safe
<1>2. CASE OtherBackup \/ UNCHANGED vars
  <2>1. /\ UNCHANGED <<threadVars, direct, client, buffer, bufferVars, registry, sched, trespassed>>
        /\ single' \in {None, Outsider, single}
    BY <1>2 DEF OtherBackup, vars
  <2>2. ControlInv'
    BY <1>0, <2>1 DEF ControlInv, TypeInv, TypeOK, TaskInv, LogonInv, At, threadVars, bufferVars
  <2>3. OwnInv' /\ FreeInv'
    BY <1>0, <2>1 DEF OwnInv, FreeInv, Holds, Serving, Allotted, Leaked, Untouched, At, threadVars,
                      bufferVars
  <2>4. ASSUME NEW r \in Sessions PROVE Safe(r)'
    <3>1. Same(r)
      BY <2>1 DEF Same, threadVars, bufferVars
    <3>2. CASE Serving(r) /\ Untouched(buffer[r])
      BY <1>0, <3>1, <3>2, SafeSame
    <3>3. CASE ~(Serving(r) /\ Untouched(buffer[r]))
      BY <2>1, <3>3 DEF Safe, Sound, Serving, Untouched, threadVars
    <3> QED BY <3>2, <3>3
  <2> QED BY <2>2, <2>3, <2>4 DEF SessionInv, ControlInv, TypeInv, Safe
<1> QED BY <1>1, <1>2, NextSteps

\* The control of the threads, the ownership of the buffers and the token, message and
\* LOGOFF of each session: the inductive invariant (exchbuff.c and conv.c).
THEOREM SessionsCorrect == Spec => []SessionInv
BY SessionInit, SessionStep, PTL DEF Spec

\* Type correctness of the sessions: every thread is at one of its own statements, and
\* every buffer index is one of a buffer.
THEOREM SessionTypeCorrect == Spec => []TypeOK
<1>1. SessionInv => TypeOK
  BY DEF SessionInv
<1> QED BY <1>1, SessionsCorrect, PTL

\* A service thread has its buffer for itself, and no buffer is lost but by a CreateThread
\* that fails: AllocExchngBuf and FreeExchngBuf, however logons and ends interleave.  Of an
\* agent nothing is said once its service thread has let the buffer go.
THEOREM BuffersOwned == Spec => []BufferOwned
<1>1. SessionInv => BufferOwned
  BY DEF SessionInv, OwnInv, BufferOwned
<1> QED BY <1>1, SessionsCorrect, PTL

\* The event keeps the two writers of a buffer apart, for any number of sessions that
\* share the pool: no packet is written over one that has still to be read.
THEOREM NoPacketLost == Spec => []NoLostPacket
<1>1. SessionInv => NoLostPacket
  <2> SUFFICES ASSUME SessionInv, NEW t \in Threads, At(t, "copyIn"), Holds(t[2], Buf(t)),
                      Untouched(Buf(t)), ~Broken(t)
               PROVE  unread[Buf(t)] = "none"
    BY DEF NoLostPacket
  <2>1. PICK s \in Sessions : t = Agent(s) \/ t = Service(s)
    BY ThreadCases
  <2>2. t[2] = s /\ Buf(t) = buffer[s] /\ Sound(s)
    BY <2>1, AgentFacts, ServiceFacts DEF Sound, Holds, Buf, Broken
  <2> QED BY <2>1, <2>2 DEF SessionInv, OneToken
<1> QED BY <1>1, SessionsCorrect, PTL

\* A message means a packet: whoever GetMessage wakes finds one that it has not read.
THEOREM AlwaysReadsFresh == Spec => []ReadsFresh
<1>1. SessionInv => ReadsFresh
  <2> SUFFICES ASSUME SessionInv, NEW t \in Threads, At(t, "copyOut"), Holds(t[2], Buf(t)),
                      Untouched(Buf(t)), ~Broken(t)
               PROVE  unread[Buf(t)] = t[1]
    BY DEF ReadsFresh
  <2>1. PICK s \in Sessions : t = Agent(s) \/ t = Service(s)
    BY ThreadCases
  <2>2. t[2] = s /\ Buf(t) = buffer[s] /\ Sound(s)
    BY <2>1, AgentFacts, ServiceFacts DEF Sound, Holds, Buf, Broken
  <2> QED BY <2>1, <2>2 DEF SessionInv, OneMessage
<1> QED BY <1>1, SessionsCorrect, PTL

=============================================================================
