------------------------------ MODULE Session ------------------------------
(***************************************************************************)
(* The sessions of the server: the exchange buffers (exchbuff.c), the loop *)
(* of a client agent (ClientAgentThread in conv.c) and the loop of a       *)
(* service thread (ServiceShell in shell.c), for several sessions that     *)
(* take their buffers from one pool.                                       *)
(*                                                                         *)
(* A session has two threads and one exchange buffer, of one packet.  The  *)
(* agent copies packets from the client's pipe to the buffer until one has *)
(* endPacket zero; then the service thread answers, with packets the agent *)
(* copies to the pipe until one has endPacket zero.  hEmpEvent is set when *)
(* the buffer is empty; a writer posts one thread message per packet to    *)
(* the other thread, whose id it reads in the buffer.  A thread that       *)
(* leaves sets cErrorStat, sets the event and posts a message, to wake the *)
(* other one.  The service thread frees the buffer, and the agent keeps    *)
(* its pointer to it.                                                      *)
(***************************************************************************)
EXTENDS Integers, FiniteSets

CONSTANTS
  Sessions,   \* one connection each; also the thread ids of its two threads
  BUFFERS,    \* dwUsers: the exchange buffers, and the rows of the registry
  Requests,   \* the requests clients send, of RequestKinds
  Failures,   \* what may go wrong, of FailureKinds
  Outsider,   \* stands for the sessions that are not in Sessions
  None        \* no session

\* "data" is a request whose handler reads it to its end and answers.  The others
\* are backup commands: to enter and leave single-user mode, and an unknown one.
RequestKinds == {"data", "single", "multi", "unknown"}

\* A handler gives a request up before its end; SrvReadExchngBufEx finds a request too
\* long; CreateThread fails; a client sends PIPE_CLOSE in the middle of a request; a
\* ReadFile fails though the pipe is not broken.
FailureKinds == {"early", "long", "thread", "abandon", "read"}

ASSUME SessionAssumption ==
  /\ BUFFERS \in Nat \ {0}
  /\ Requests \subseteq RequestKinds
  /\ Failures \subseteq FailureKinds
  /\ None \notin Sessions
  /\ Outsider \notin Sessions \cup {None}

VARIABLES
  pc,          \* pc[t]: where thread t is
  task,        \* task[t]: what its read or write is for
  packet,      \* packet[t]: its szBuffer
  messages,    \* messages[t]: the TS_EXCHBUF_WRRD messages in its queue
  direct,      \* direct[s]: fDirect of the agent, TRUE while the client speaks
  client,      \* client[s]: "out", "in", "deaf" (it neither reads nor sends any more) or "gone"
  buffer,      \* buffer[s]: lpExchangeBuf of the session's REQUEST
  inUse,       \* inUse[b]: cFlag
  errorStat,   \* errorStat[b]: cErrorStat
  empty,       \* empty[b]: hEmpEvent is signalled
  content,     \* content[b]: the packet in lpExchBuf
  cliThread,   \* cliThread[b]: the session whose agent is dwCliThreadId
  srvThread,   \* srvThread[b]: the session whose service thread is dwSrvThreadId
  registry,    \* the sessions with a row in lpClientResInfo
  sched,       \* the request the scheduler works on: its session and the step
  single,      \* singleUserThread if singleUserMode, or None
  unread,      \* history: unread[b], the role that has still to read content[b]
  trespassed   \* history: the buffers an agent has changed after its session had left them

threadVars == <<pc, task, packet, messages>>
bufferVars == <<inUse, errorStat, empty, content, cliThread, srvThread, unread>>
vars == <<threadVars, direct, client, buffer, bufferVars, registry, sched, single, trespassed>>

-----------------------------------------------------------------------------
(* Types and state functions *)

Roles == {"cli", "srv"}
Threads == Roles \X Sessions
Agent(s) == <<"cli", s>>
Service(s) == <<"srv", s>>

Buffers == 0 .. BUFFERS - 1

\* What the two threads tell apart in a packet: what it is, endPacket, and whose it is.
\* "close" is msgTS_PIPE_CLOSE, "logoff" is msgTS_CLIENT_LOGOFF, "sync" the agent's own
\* msgTS_LOGON_OK.
Packets == [kind : RequestKinds \cup {"answer", "close", "logoff", "sync"},
            end : BOOLEAN, of : Sessions \cup {None}]

NoPacket == [kind |-> "data", end |-> TRUE, of |-> None]

ReadPcs == {"readCheck", "get", "copyOut", "readReturn"}
WritePcs == {"writeCheck", "wait", "copyIn", "writeReturn"}
ErrorPcs == {"errStore", "errEvent", "errPost"}
AgentPcs == {"out", "queued", "logonReply", "pipe", "deliver", "over"}
ServicePcs == {"none", "work", "freeEvent", "freeFlag", "unregister", "gone"}
Tasks == {"none", "forward", "closing", "logoff", "top", "drain", "answer", "twice", "last"}

Buf(t) == buffer[t[2]]

\* A thread that can still be posted messages.
Alive(t) == pc[t] \notin {"out", "over", "none", "gone"}

\* The agent is past the logon, in its transfer loop or on its way out.
InLoop(s) == pc[Agent(s)] \in ReadPcs \cup WritePcs \cup ErrorPcs \cup {"pipe", "deliver"}

\* Session s has a service thread that has not let the buffer go.
Serving(s) == pc[Service(s)] \notin {"none", "unregister", "gone"}

Released(s) == pc[Service(s)] = "gone"

\* The scheduler has allocated a buffer for s, and no thread yet.
Allotted(s) == sched = [at |-> "thread", session |-> s]

\* The agent was refused without a service thread.
Leaked(s) == pc[Agent(s)] = "over" /\ pc[Service(s)] = "none"

\* The session whose buffer b is.
Holds(s, b) == Serving(s) /\ buffer[s] = b

Init ==
  /\ pc = [t \in Threads |-> IF t[1] = "cli" THEN "out" ELSE "none"]
  /\ task = [t \in Threads |-> "none"]
  /\ packet = [t \in Threads |-> NoPacket]
  /\ messages = [t \in Threads |-> 0]
  /\ direct = [s \in Sessions |-> TRUE]
  /\ client = [s \in Sessions |-> "out"]
  /\ buffer = [s \in Sessions |-> 0]
  /\ inUse = [b \in Buffers |-> FALSE]
  /\ errorStat = [b \in Buffers |-> "ok"]
  /\ empty = [b \in Buffers |-> TRUE]
  /\ content = [b \in Buffers |-> NoPacket]
  /\ cliThread = [b \in Buffers |-> None]
  /\ srvThread = [b \in Buffers |-> None]
  /\ registry = {}
  /\ sched = [at |-> "idle", session |-> None]
  /\ single = None
  /\ unread = [b \in Buffers |-> "none"]
  /\ trespassed = {}

-----------------------------------------------------------------------------
(* Steps of one thread *)

At(t, p) == pc[t] = p

Goto(t, p) == pc' = [pc EXCEPT ![t] = p]

\* Thread t goes on at p, for task k.
Begin(t, p, k) == Goto(t, p) /\ task' = [task EXCEPT ![t] = k]

\* PostThreadMessage to the thread the buffer names for the other role: lost when it
\* has ended.
Peer(t) == IF t[1] = "cli" THEN <<"srv", srvThread[Buf(t)]>> ELSE <<"cli", cliThread[Buf(t)]>>

Post(t) ==
  messages' = IF Peer(t) \in Threads /\ Alive(Peer(t))
              THEN [messages EXCEPT ![Peer(t)] = @ + 1] ELSE messages

\* An agent touches a buffer that its service thread has let go.
Trespass(t) ==
  trespassed' = IF t[1] = "cli" /\ ~Holds(t[2], Buf(t)) THEN trespassed \cup {Buf(t)}
                ELSE trespassed

Broken(t) == errorStat[Buf(t)] # "ok"

\* What the agent does with the answer to a read or a write: ok is TERR_SUCCESS.  (It
\* would keep msgTS_NO_DATA from the client; no service thread sends it.)
AgentRead(s, ok) ==
  LET a == Agent(s) IN
  IF ~ok
  THEN Begin(a, "over", "none") /\ UNCHANGED direct
  ELSE LET back == packet[a].end
           mode == single # None /\ single # s
       IN /\ direct' = [direct EXCEPT ![s] = back]
          /\ IF mode /\ back THEN Begin(a, "writeCheck", "closing")
                             ELSE Begin(a, "deliver", "none")

\* Mutant: the agent stays with the client after the last packet of a request.
AgentWroteStays(s, ok) ==
  LET a == Agent(s) IN
  CASE task[a] = "forward" /\ ok -> Begin(a, "pipe", "none")
    [] task[a] = "closing" /\ ok -> Begin(a, "writeCheck", "logoff")
    [] task[a] = "logoff" /\ ~ok -> Begin(a, "errStore", "none")
    [] OTHER -> Begin(a, "over", "none")

AgentWrote(s, ok) ==
  LET a == Agent(s) IN
  CASE task[a] = "forward" /\ ok -> Begin(a, IF direct[s] THEN "pipe" ELSE "readCheck", "none")
    [] task[a] = "closing" /\ ok -> Begin(a, "writeCheck", "logoff")
    [] task[a] = "logoff" /\ ~ok -> Begin(a, "errStore", "none")
    [] OTHER -> Begin(a, "over", "none")

\* The switch of ServiceShell on the packet it has read.  A backup command sets or
\* clears single-user mode (its two assignments are one step: in between, the mode
\* is off, or no agent but those of other sessions can look at it).
Dispatch(s) ==
  LET v == Service(s)
      p == packet[v]
  IN \/ /\ p.kind = "logoff"
        /\ Begin(v, "freeEvent", "none")
        /\ UNCHANGED single
     \/ /\ p.kind \in {"close", "sync"}
        /\ Begin(v, "readCheck", "top")
        /\ UNCHANGED single
     \/ /\ p.kind \in {"data", "answer"}
        /\ IF p.end THEN Begin(v, "work", "none") ELSE Begin(v, "readCheck", "drain")
        /\ UNCHANGED single
     \/ /\ p.kind \in {"single", "multi"}
        /\ single' = IF p.kind = "single" THEN s ELSE None
        /\ Begin(v, "writeCheck", "last")
     \/ /\ p.kind = "unknown"
        /\ Begin(v, "writeCheck", "twice")
        /\ UNCHANGED single
     \/ /\ "early" \in Failures /\ p.kind = "data" /\ ~p.end
        /\ Begin(v, "writeCheck", "last")
        /\ UNCHANGED single

\* Mutant: a failed read ends the thread without FreeExchngBuf.
ServiceReadLeaks(s, ok) ==
  LET v == Service(s)
      p == packet[v]
  IN \/ /\ task[v] = "top" /\ ok
        /\ Dispatch(s)
     \/ /\ task[v] = "top" /\ ~ok
        /\ Begin(v, "unregister", "none")
        /\ UNCHANGED single
     \/ /\ task[v] = "drain" /\ ~ok
        /\ Begin(v, "readCheck", "top")
        /\ UNCHANGED single
     \/ /\ task[v] = "drain" /\ ok
        /\ IF p.end THEN Begin(v, "work", "none") ELSE Begin(v, "readCheck", "drain")
        /\ UNCHANGED single
     \/ /\ task[v] = "drain" /\ ok /\ "early" \in Failures /\ ~p.end
        /\ Begin(v, "writeCheck", "last")
        /\ UNCHANGED single
     \/ /\ task[v] = "drain" /\ ok /\ "long" \in Failures
        /\ Begin(v, "errStore", "none")
        /\ UNCHANGED single

\* ServiceShell after SrvReadExchngBuf, and a handler that reads on.
ServiceRead(s, ok) ==
  LET v == Service(s)
      p == packet[v]
  IN \/ /\ task[v] = "top" /\ ok
        /\ Dispatch(s)
     \/ /\ task[v] = "top" /\ ~ok
        /\ Begin(v, "freeEvent", "none")
        /\ UNCHANGED single
     \/ /\ task[v] = "drain" /\ ~ok
        /\ Begin(v, "readCheck", "top")
        /\ UNCHANGED single
     \/ /\ task[v] = "drain" /\ ok
        /\ IF p.end THEN Begin(v, "work", "none") ELSE Begin(v, "readCheck", "drain")
        /\ UNCHANGED single
     \/ /\ task[v] = "drain" /\ ok /\ "early" \in Failures /\ ~p.end
        /\ Begin(v, "writeCheck", "last")
        /\ UNCHANGED single
     \/ /\ task[v] = "drain" /\ ok /\ "long" \in Failures
        /\ Begin(v, "errStore", "none")
        /\ UNCHANGED single

ServiceWrote(s, ok) ==
  LET v == Service(s) IN
  CASE task[v] = "answer" /\ ok -> Begin(v, "work", "none")
    [] task[v] = "twice" -> Begin(v, "writeCheck", "last")
    [] OTHER -> Begin(v, "readCheck", "top")

\* A read or a write of t returns.
ReadReturns(t, ok) ==
  IF t[1] = "cli" THEN AgentRead(t[2], ok) /\ UNCHANGED single
                  ELSE ServiceRead(t[2], ok) /\ UNCHANGED direct

WriteReturns(t, ok) ==
  IF t[1] = "cli" THEN AgentWrote(t[2], ok) ELSE ServiceWrote(t[2], ok)

-----------------------------------------------------------------------------
(* CliReadExchngBuf and SrvReadExchngBuf, by thread t *)

\* The first test of cErrorStat.
ReadCheck(t) ==
  /\ At(t, "readCheck")
  /\ IF Broken(t) THEN ReadReturns(t, FALSE)
     ELSE Goto(t, "get") /\ UNCHANGED <<task, direct, single>>
  /\ UNCHANGED <<packet, messages, client, buffer, bufferVars, registry, sched, trespassed>>

\* Mutant: PeekMessage, which does not wait.
ReadGetPolls(t) ==
  /\ At(t, "get")
  /\ messages' = [messages EXCEPT ![t] = @ - 1]
  /\ Goto(t, "copyOut")
  /\ UNCHANGED <<task, packet, direct, client, buffer, bufferVars, registry, sched, single, trespassed>>

\* Mutant: PeekMessage with PM_NOREMOVE.
ReadGetKeeps(t) ==
  /\ At(t, "get")
  /\ messages[t] > 0
  /\ Goto(t, "copyOut")
  /\ UNCHANGED <<task, packet, messages, direct, client, buffer, bufferVars, registry, sched,
                 single, trespassed>>

\* Mutant: SetEvent before the copy out of the buffer.
ReadGetSetsEvent(t) ==
  /\ At(t, "get")
  /\ messages[t] > 0
  /\ messages' = [messages EXCEPT ![t] = @ - 1]
  /\ empty' = [empty EXCEPT ![Buf(t)] = TRUE]
  /\ Goto(t, "copyOut")
  /\ UNCHANGED <<task, packet, direct, client, buffer, inUse, errorStat, content, cliThread,
                 srvThread, unread, registry, sched, single, trespassed>>

\* GetMessage of TS_EXCHBUF_WRRD.
ReadGet(t) ==
  /\ At(t, "get")
  /\ messages[t] > 0
  /\ messages' = [messages EXCEPT ![t] = @ - 1]
  /\ Goto(t, "copyOut")
  /\ UNCHANGED <<task, packet, direct, client, buffer, bufferVars, registry, sched, single, trespassed>>

\* Mutant: no SetEvent.
ReadCopyNoEvent(t) ==
  /\ At(t, "copyOut")
  /\ packet' = [packet EXCEPT ![t] = content[Buf(t)]]
  /\ unread' = [unread EXCEPT ![Buf(t)] = "none"]
  /\ Trespass(t)
  /\ Goto(t, "readReturn")
  /\ UNCHANGED <<task, messages, direct, client, buffer, inUse, errorStat, empty, content,
                 cliThread, srvThread, registry, sched, single>>

\* The copy out of the buffer and SetEvent.
ReadCopy(t) ==
  /\ At(t, "copyOut")
  /\ packet' = [packet EXCEPT ![t] = content[Buf(t)]]
  /\ empty' = [empty EXCEPT ![Buf(t)] = TRUE]
  /\ unread' = [unread EXCEPT ![Buf(t)] = "none"]
  /\ Trespass(t)
  /\ Goto(t, "readReturn")
  /\ UNCHANGED <<task, messages, direct, client, buffer, inUse, errorStat, content,
                 cliThread, srvThread, registry, sched, single>>

\* The second test of cErrorStat.
ReadReturn(t) ==
  /\ At(t, "readReturn")
  /\ ReadReturns(t, ~Broken(t))
  /\ UNCHANGED <<packet, messages, client, buffer, bufferVars, registry, sched, trespassed>>

CliRead(s) == ReadCheck(Agent(s)) \/ ReadGet(Agent(s)) \/ ReadCopy(Agent(s)) \/ ReadReturn(Agent(s))

SrvRead(s) ==
  ReadCheck(Service(s)) \/ ReadGet(Service(s)) \/ ReadCopy(Service(s)) \/ ReadReturn(Service(s))

-----------------------------------------------------------------------------
(* CliWriteExchngBuf and SrvWriteExchngBuf, by thread t *)

WriteCheck(t) ==
  /\ At(t, "writeCheck")
  /\ IF Broken(t) THEN WriteReturns(t, FALSE) ELSE Goto(t, "wait") /\ UNCHANGED task
  /\ UNCHANGED <<packet, messages, direct, client, buffer, bufferVars, registry, sched,
                 single, trespassed>>

\* The wait on hEmpEvent, an auto-reset event.
WriteWait(t) ==
  /\ At(t, "wait")
  /\ empty[Buf(t)]
  /\ empty' = [empty EXCEPT ![Buf(t)] = FALSE]
  /\ Trespass(t)
  /\ Goto(t, "copyIn")
  /\ UNCHANGED <<task, packet, messages, direct, client, buffer, inUse, errorStat, content,
                 cliThread, srvThread, unread, registry, sched, single>>

\* The packet t writes.
Written(t) ==
  CASE task[t] = "forward" -> packet[t]
    [] task[t] = "closing" -> [kind |-> "close", end |-> TRUE, of |-> t[2]]
    [] task[t] = "logoff" -> [kind |-> "logoff", end |-> TRUE, of |-> t[2]]
    [] task[t] = "answer" -> [kind |-> "answer", end |-> FALSE, of |-> t[2]]
    [] task[t] \in {"twice", "last"} -> [kind |-> "answer", end |-> TRUE, of |-> t[2]]

\* The copy into the buffer and the message to the other thread.
WriteCopy(t) ==
  /\ At(t, "copyIn")
  /\ content' = [content EXCEPT ![Buf(t)] = Written(t)]
  /\ unread' = [unread EXCEPT ![Buf(t)] = Peer(t)[1]]
  /\ Post(t)
  /\ Trespass(t)
  /\ Goto(t, "writeReturn")
  /\ UNCHANGED <<task, packet, direct, client, buffer, inUse, errorStat, empty,
                 cliThread, srvThread, registry, sched, single>>

WriteReturn(t) ==
  /\ At(t, "writeReturn")
  /\ WriteReturns(t, ~Broken(t))
  /\ UNCHANGED <<packet, messages, direct, client, buffer, bufferVars, registry, sched,
                 single, trespassed>>

CliWrite(s) ==
  WriteCheck(Agent(s)) \/ WriteWait(Agent(s)) \/ WriteCopy(Agent(s)) \/ WriteReturn(Agent(s))

SrvWrite(s) ==
  WriteCheck(Service(s)) \/ WriteWait(Service(s)) \/ WriteCopy(Service(s)) \/ WriteReturn(Service(s))

-----------------------------------------------------------------------------
(* CliSetExchBufError and SrvSetExchBufError, by thread t *)

ErrStore(t) ==
  /\ At(t, "errStore")
  /\ errorStat' = [errorStat EXCEPT ![Buf(t)] = t[1]]
  /\ Trespass(t)
  /\ Goto(t, "errEvent")
  /\ UNCHANGED <<task, packet, messages, direct, client, buffer, inUse, empty, content,
                 cliThread, srvThread, unread, registry, sched, single>>

ErrEvent(t) ==
  /\ At(t, "errEvent")
  /\ empty' = [empty EXCEPT ![Buf(t)] = TRUE]
  /\ Trespass(t)
  /\ Goto(t, "errPost")
  /\ UNCHANGED <<task, packet, messages, direct, client, buffer, inUse, errorStat, content,
                 cliThread, srvThread, unread, registry, sched, single>>

\* The message; then the agent leaves, and the handler fails back to ServiceShell.
ErrPost(t) ==
  /\ At(t, "errPost")
  /\ Post(t)
  /\ Trespass(t)
  /\ IF t[1] = "cli" THEN Begin(t, "over", "none") ELSE Begin(t, "readCheck", "top")
  /\ UNCHANGED <<packet, direct, client, buffer, bufferVars, registry, sched, single>>

CliSetError(s) == ErrStore(Agent(s)) \/ ErrEvent(Agent(s)) \/ ErrPost(Agent(s))
SrvSetError(s) == ErrStore(Service(s)) \/ ErrEvent(Service(s)) \/ ErrPost(Service(s))

-----------------------------------------------------------------------------
(* The logon: the agent's side, and the scheduler's in ProcessRequest *)

\* A client connects and sends its logon packet; in single-user mode it is refused.
Connect(s) ==
  /\ At(Agent(s), "out")
  /\ client' = [client EXCEPT ![s] = "in"]
  /\ Goto(Agent(s), IF single # None THEN "over" ELSE "queued")
  /\ UNCHANGED <<task, packet, messages, direct, buffer, bufferVars, registry, sched,
                 single, trespassed>>

\* A client stops for good to read what it is sent, and keeps its connection.
StopReading(s) ==
  /\ client[s] = "in"
  /\ client' = [client EXCEPT ![s] = "deaf"]
  /\ UNCHANGED <<threadVars, direct, buffer, bufferVars, registry, sched, single, trespassed>>

\* A client closes its end of the pipe, or dies.
Disconnect(s) ==
  /\ client[s] \in {"in", "deaf"}
  /\ client' = [client EXCEPT ![s] = "gone"]
  /\ UNCHANGED <<threadVars, direct, buffer, bufferVars, registry, sched, single, trespassed>>

\* TBackupNotifyShell in a session of which only single-user mode is seen here.
OtherBackup ==
  /\ "single" \in Requests
  /\ single' \in {None, Outsider}
  /\ UNCHANGED <<threadVars, direct, client, buffer, bufferVars, registry, sched, trespassed>>

\* AllocExchngBuf: the first free buffer, if any, and dwCliThreadId.
AllocExchngBuf(s) ==
  /\ sched.at = "idle"
  /\ At(Agent(s), "queued")
  /\ \/ /\ \A b \in Buffers : inUse[b]
        /\ Goto(Agent(s), "over")
        /\ UNCHANGED <<buffer, inUse, errorStat, cliThread, sched>>
     \/ \E b \in Buffers :
          /\ ~inUse[b] /\ \A c \in Buffers : c < b => inUse[c]
          /\ inUse' = [inUse EXCEPT ![b] = TRUE]
          /\ errorStat' = [errorStat EXCEPT ![b] = "ok"]
          /\ cliThread' = [cliThread EXCEPT ![b] = s]
          /\ buffer' = [buffer EXCEPT ![s] = b]
          /\ sched' = [at |-> "thread", session |-> s]
          /\ UNCHANGED pc
  /\ UNCHANGED <<task, packet, messages, direct, client, empty, content, srvThread, unread,
                 registry, single, trespassed>>

\* CreateThread of ServiceShell.  A failure refuses the logon (and keeps the buffer).
CreateService(s) ==
  /\ sched = [at |-> "thread", session |-> s]
  /\ \/ /\ Begin(Service(s), "readCheck", "top")
        /\ srvThread' = [srvThread EXCEPT ![buffer[s]] = s]
        /\ sched' = [sched EXCEPT !.at = "register"]
     \/ /\ "thread" \in Failures
        /\ Goto(Agent(s), "over")
        /\ sched' = [at |-> "idle", session |-> None]
        /\ UNCHANGED <<task, srvThread>>
  /\ UNCHANGED <<packet, messages, direct, client, buffer, inUse, errorStat, empty, content,
                 cliThread, unread, registry, single, trespassed>>

\* TSRegisterUser, which takes no row when there is none, and the answer to the agent.
TSRegisterUser(s) ==
  /\ sched = [at |-> "register", session |-> s]
  /\ registry' = IF Cardinality(registry) < BUFFERS THEN registry \cup {s} ELSE registry
  /\ sched' = [at |-> "idle", session |-> None]
  /\ Goto(Agent(s), "logonReply")
  /\ UNCHANGED <<task, packet, messages, direct, client, buffer, bufferVars, single, trespassed>>

\* The agent writes the logon reply, which stays in its szBuffer, to the pipe.  If it
\* cannot, it just ends.
LogonReply(s) ==
  /\ At(Agent(s), "logonReply")
  /\ Goto(Agent(s), IF client[s] = "gone" THEN "over" ELSE "pipe")
  /\ packet' = [packet EXCEPT ![Agent(s)] = [kind |-> "sync", end |-> TRUE, of |-> s]]
  /\ UNCHANGED <<task, messages, direct, client, buffer, bufferVars, registry, sched,
                 single, trespassed>>

-----------------------------------------------------------------------------
(* ClientAgentThread, the transfer loop of session s *)

\* The agent goes on with packet p in its szBuffer.  PIPE_CLOSE ends the loop; in the
\* single-user mode of another session the packet is dropped, and the loop ends
\* at the end of the request; otherwise the packet goes to the service thread.
Take(s, p) ==
  /\ packet' = [packet EXCEPT ![Agent(s)] = p]
  /\ direct' = [direct EXCEPT ![s] = ~p.end]
  /\ CASE p.kind = "close" -> Begin(Agent(s), "writeCheck", "logoff")
       [] p.kind # "close" /\ single \in {None, s} -> Begin(Agent(s), "writeCheck", "forward")
       [] OTHER -> IF p.end THEN Begin(Agent(s), "writeCheck", "logoff")
                            ELSE UNCHANGED <<pc, task>>
  /\ UNCHANGED <<messages, client, buffer, bufferVars, registry, sched, single, trespassed>>

\* ReadFile returns a packet of the client.
ReadPipe(s) ==
  /\ At(Agent(s), "pipe")
  /\ client[s] = "in"
  /\ \E kind \in Requests \cup {"close"}, end \in BOOLEAN :
       /\ kind # "data" => end
       /\ kind = "close" => packet[Agent(s)].end \/ "abandon" \in Failures
       /\ Take(s, [kind |-> kind, end |-> end, of |-> s])

\* ReadFile fails otherwise than by a broken pipe, which is not looked at: the agent
\* goes on with what its szBuffer still holds.
ReadFails(s) ==
  /\ At(Agent(s), "pipe")
  /\ "read" \in Failures
  /\ Take(s, packet[Agent(s)])

\* Mutant: the agent ends as it does when the logon reply fails.
BrokenPipeJustEnds(s) ==
  /\ At(Agent(s), "pipe")
  /\ client[s] = "gone"
  /\ Goto(Agent(s), "over")
  /\ UNCHANGED <<task, packet, messages, direct, client, buffer, bufferVars, registry, sched,
                 single, trespassed>>

\* ReadFile returns ERROR_BROKEN_PIPE.
BrokenPipe(s) ==
  /\ At(Agent(s), "pipe")
  /\ client[s] = "gone"
  /\ Goto(Agent(s), "errStore")
  /\ UNCHANGED <<task, packet, messages, direct, client, buffer, bufferVars, registry, sched,
                 single, trespassed>>

\* WriteFile of an answer and FlushFileBuffers, which come back when the client has read
\* it, or has closed: ERROR_NO_DATA ends the loop, any other failure is passed over.
Deliver(s) ==
  /\ At(Agent(s), "deliver")
  /\ client[s] # "deaf"
  /\ \/ Goto(Agent(s), IF direct[s] THEN "pipe" ELSE "readCheck")
     \/ client[s] = "gone" /\ Goto(Agent(s), "errStore")
  /\ UNCHANGED <<task, packet, messages, direct, client, buffer, bufferVars, registry, sched,
                 single, trespassed>>

-----------------------------------------------------------------------------
(* ServiceShell, the service thread of session s *)

\* A handler writes an answer that is not its last ...
AnswerMore(s) ==
  /\ At(Service(s), "work")
  /\ Begin(Service(s), "writeCheck", "answer")
  /\ UNCHANGED <<packet, messages, direct, client, buffer, bufferVars, registry, sched,
                 single, trespassed>>

\* ... and its last.
AnswerLast(s) ==
  /\ At(Service(s), "work")
  /\ Begin(Service(s), "writeCheck", "last")
  /\ UNCHANGED <<packet, messages, direct, client, buffer, bufferVars, registry, sched,
                 single, trespassed>>

\* FreeExchngBuf: SetEvent ...
FreeEvent(s) ==
  /\ At(Service(s), "freeEvent")
  /\ empty' = [empty EXCEPT ![buffer[s]] = TRUE]
  /\ Goto(Service(s), "freeFlag")
  /\ UNCHANGED <<task, packet, messages, direct, client, buffer, inUse, errorStat, content,
                 cliThread, srvThread, unread, registry, sched, single, trespassed>>

\* ... and the flag: the buffer can be given to another session.
FreeFlag(s) ==
  /\ At(Service(s), "freeFlag")
  /\ inUse' = [inUse EXCEPT ![buffer[s]] = FALSE]
  /\ unread' = [unread EXCEPT ![buffer[s]] = "none"]
  /\ Goto(Service(s), "unregister")
  /\ UNCHANGED <<task, packet, messages, direct, client, buffer, errorStat, empty, content,
                 cliThread, srvThread, registry, sched, single, trespassed>>

\* TSUnregisterUser; the thread ends.
TSUnregisterUser(s) ==
  /\ At(Service(s), "unregister")
  /\ registry' = registry \ {s}
  /\ Goto(Service(s), "gone")
  /\ UNCHANGED <<task, packet, messages, direct, client, buffer, bufferVars, sched,
                 single, trespassed>>

-----------------------------------------------------------------------------

ClientNext(s) == Connect(s) \/ StopReading(s) \/ Disconnect(s) \/ ReadPipe(s)

AgentNext(s) ==
  \/ LogonReply(s) \/ ReadFails(s) \/ BrokenPipe(s) \/ Deliver(s)
  \/ CliRead(s) \/ CliWrite(s) \/ CliSetError(s)

SchedulerNext(s) == AllocExchngBuf(s) \/ CreateService(s) \/ TSRegisterUser(s)

ServiceNext(s) ==
  \/ SrvRead(s) \/ SrvWrite(s) \/ SrvSetError(s) \/ AnswerMore(s) \/ AnswerLast(s)
  \/ FreeEvent(s) \/ FreeFlag(s) \/ TSUnregisterUser(s)

Next ==
  \/ \E s \in Sessions : ClientNext(s) \/ AgentNext(s) \/ SchedulerNext(s) \/ ServiceNext(s)
  \/ OtherBackup

Spec == Init /\ [][Next]_vars

(***************************************************************************)
(* Fairness: the threads of the server keep running, and every handler     *)
(* comes to its last answer.  Nothing is asked of the clients: an agent     *)
(* whose client does not read stays in Deliver.                            *)
(***************************************************************************)
Fairness ==
  \A s \in Sessions :
    /\ WF_vars(AgentNext(s))
    /\ WF_vars(SchedulerNext(s))
    /\ WF_vars(ServiceNext(s))
    /\ SF_vars(AnswerLast(s))

FairSpec == Spec /\ Fairness

-----------------------------------------------------------------------------
(* Properties *)

\* Type invariant.
TypeOK ==
  /\ pc \in [Threads -> AgentPcs \cup ServicePcs \cup ReadPcs \cup WritePcs \cup ErrorPcs]
  /\ \A s \in Sessions :
       /\ pc[Agent(s)] \in AgentPcs \cup ReadPcs \cup WritePcs \cup ErrorPcs
       /\ pc[Service(s)] \in ServicePcs \cup ReadPcs \cup WritePcs \cup ErrorPcs
  /\ task \in [Threads -> Tasks]
  /\ packet \in [Threads -> Packets]
  /\ messages \in [Threads -> Nat]
  /\ direct \in [Sessions -> BOOLEAN]
  /\ client \in [Sessions -> {"out", "in", "deaf", "gone"}]
  /\ buffer \in [Sessions -> Buffers]
  /\ inUse \in [Buffers -> BOOLEAN]
  /\ errorStat \in [Buffers -> {"ok"} \cup Roles]
  /\ empty \in [Buffers -> BOOLEAN]
  /\ content \in [Buffers -> Packets]
  /\ cliThread \in [Buffers -> Sessions \cup {None}]
  /\ srvThread \in [Buffers -> Sessions \cup {None}]
  /\ registry \subseteq Sessions
  /\ sched \in [at : {"idle", "thread", "register"}, session : Sessions \cup {None}]
  /\ single \in Sessions \cup {Outsider, None}
  /\ unread \in [Buffers -> {"none"} \cup Roles]
  /\ trespassed \subseteq Buffers

\* Only the threads of its sessions have changed b, while they had it.
Untouched(b) == b \notin trespassed

\* A packet is never written over one that has still to be read, unless one of the two
\* threads has broken the session off: the event alone keeps the two writers of a buffer
\* apart, and it passes from session to session with the buffer (exchbuff.c 133, 144).
\* Nothing is claimed of a buffer once an agent has changed it that had lost it, which
\* it can (see Isolation).
NoLostPacket ==
  \A t \in Threads : At(t, "copyIn") /\ Holds(t[2], Buf(t)) /\ Untouched(Buf(t)) =>
    unread[Buf(t)] = "none" \/ Broken(t)

\* A message means a packet: a thread that copies the buffer out has not read that packet
\* before and did not write it, unless the session is broken off.
ReadsFresh ==
  \A t \in Threads : At(t, "copyOut") /\ Holds(t[2], Buf(t)) /\ Untouched(Buf(t)) =>
    unread[Buf(t)] = t[1] \/ Broken(t)

\* A service thread has its buffer for itself: the flag is set, both thread ids are
\* those of its session, and no other session with a service thread has it.  And no
\* buffer is lost: one whose flag is set has a service thread, or is about to get one,
\* except after a CreateThread that failed (tqueue.c:346).  Of the agent nothing is
\* claimed after its service thread has let the buffer go (see Isolation).
BufferOwned ==
  /\ \A s \in Sessions : Serving(s) =>
       /\ inUse[buffer[s]] /\ cliThread[buffer[s]] = s /\ srvThread[buffer[s]] = s
       /\ \A r \in Sessions \ {s} : Serving(r) => buffer[r] # buffer[s]
  /\ \A b \in Buffers : inUse[b] => \E s \in Sessions :
       buffer[s] = b /\ cliThread[b] = s /\ (Serving(s) \/ Allotted(s) \/ Leaked(s))

\* A service thread serves its own client: every packet it acts on was written by the
\* agent of its session (2_2_2.htm:49).
Isolation ==
  \A s \in Sessions :
    At(Service(s), "readReturn") /\ ~Broken(Service(s)) => packet[Service(s)].of = s

\* A handler takes the LOGOFF of the agent for the rest of a request.
Swallows(s) ==
  At(Service(s), "readReturn") /\ task[Service(s)] = "drain" /\ packet[Service(s)].kind = "logoff"

\* A session whose agent has entered its transfer loop is given back once the client has
\* gone: the service thread ends, with its buffer freed and its row cleared.
LoopEnds ==
  \A s \in Sessions : (client[s] = "gone" /\ InLoop(s)) ~> Released(s)

\* So it is, whatever the moment the client goes, unless its LOGOFF is swallowed.
LoopEndsUnlessSwallowed ==
  \A s \in Sessions : []~Swallows(s) => ((client[s] = "gone" /\ InLoop(s)) ~> Released(s))

\* The same of every session that has a service thread (2_2_2.htm:80 to 82).
SessionEnds ==
  \A s \in Sessions : (client[s] = "gone" /\ Serving(s)) ~> Released(s)

\* The session is being broken off by one of its threads.
HungUp(s) ==
  \/ pc[Agent(s)] \in ErrorPcs \cup {"over"} \/ task[Agent(s)] \in {"closing", "logoff"}
  \/ pc[Service(s)] \in ErrorPcs \cup {"freeEvent", "freeFlag", "unregister", "gone"}
  \/ Serving(s) /\ (Broken(Service(s)) \/ ~Untouched(buffer[s]))

\* The service thread has been given the turn and has not written its last answer.
HasTurn(s) ==
  LET v == Service(s) IN
  \/ pc[v] = "readReturn" /\ packet[v].end
  \/ pc[v] \in {"work", "writeCheck", "wait", "copyIn"}
  \/ pc[v] = "writeReturn" /\ task[v] = "answer"

InTransit(s) == Serving(s) /\ unread[buffer[s]] # "none"

TurnOf(s) ==
  CASE HungUp(s) -> "over"
    [] ~HungUp(s) /\ InTransit(s) -> IF unread[buffer[s]] = "cli" THEN "server" ELSE "client"
    [] OTHER -> IF HasTurn(s) THEN "server" ELSE "client"

MailOf(s) ==
  CASE HungUp(s) \/ ~InTransit(s) -> "empty"
    [] OTHER -> IF content[buffer[s]].end THEN "end" ELSE "more"

\* The agent waits for an answer.
Listens(s) ==
  LET a == Agent(s) IN
  \/ pc[a] \in {"readCheck", "get", "copyOut"}
  \/ pc[a] = "readReturn" /\ ~packet[a].end
  \/ pc[a] \in {"writeReturn", "deliver"} /\ ~direct[s]

\* The two threads of a session implement a dialogue: no packet is lost or read twice, no
\* thread speaks out of turn, whatever the handlers of other sessions do.
TakesTurns == INSTANCE Dialogue WITH
  turn <- [s \in Sessions |-> TurnOf(s)], mail <- [s \in Sessions |-> MailOf(s)]

Dialogues == TakesTurns!Spec

\* A client that has sent its request to the end is answered to the end, or its session
\* is broken off, unless it stops reading: then the agent stays in WriteFile or
\* FlushFileBuffers (conv.c:1050) and the service thread behind it, for ever.
Answered ==
  \A s \in Sessions : TurnOf(s) = "server" ~> (TurnOf(s) # "server" \/ client[s] = "deaf")

-----------------------------------------------------------------------------
(* The inductive invariants behind BufferOwned, NoLostPacket and ReadsFresh, and behind *)
(* Dialogues (proved in SessionProofs).                                                 *)

\* What a thread writes is known where it writes.
TaskInv ==
  \A s \in Sessions :
    LET a == Agent(s)
        v == Service(s)
    IN /\ task[a] \in {"none", "forward", "closing", "logoff"}
       /\ task[a] # "none" <=> pc[a] \in WritePcs
       /\ task[v] \in {"top", "drain"} <=> pc[v] \in ReadPcs
       /\ task[v] \in {"answer", "twice", "last"} <=> pc[v] \in WritePcs
       /\ task[a] = "forward" => packet[a].kind \in Requests \/ "read" \in Failures

\* The scheduler works on a request whose agent waits for it, and every other agent past
\* its logon has had a service thread.
LogonInv ==
  /\ sched.at # "idle" => sched.session \in Sessions /\ At(Agent(sched.session), "queued")
  /\ sched.at = "register" => ~At(Service(sched.session), "none")
  /\ \A s \in Sessions :
       /\ At(Service(s), "none") =>
            /\ pc[Agent(s)] \in {"out", "queued", "over"}
            /\ messages[Agent(s)] = 0 /\ messages[Service(s)] = 0
            /\ packet[Agent(s)] = NoPacket /\ packet[Service(s)] = NoPacket
       /\ pc[Agent(s)] \in {"out", "queued"} =>
            At(Service(s), "none") \/ sched = [at |-> "register", session |-> s]

\* A buffer belongs to one session from its allocation to FreeFlag, and the service
\* thread it names is one that has had it.
OwnInv ==
  /\ \A s \in Sessions :
       /\ Serving(s) \/ Allotted(s) =>
            /\ inUse[buffer[s]] /\ cliThread[buffer[s]] = s
            /\ \A r \in Sessions \ {s} : Serving(r) \/ Allotted(r) => buffer[r] # buffer[s]
       /\ Serving(s) => srvThread[buffer[s]] = s
  /\ \A b \in Buffers :
       /\ LET s == srvThread[b] IN s # None => buffer[s] = b /\ ~At(Service(s), "none")
       /\ inUse[b] => \E s \in Sessions :
            buffer[s] = b /\ cliThread[b] = s /\ (Serving(s) \/ Allotted(s) \/ Leaked(s))

\* A buffer that is no session's holds nothing to be read.
FreeInv ==
  \A b \in Buffers : unread[b] = "none" \/ ~Untouched(b) \/ \E s \in Sessions : Holds(s, b)

\* The agent has written its LOGOFF, and writes no more.
SaidLogoff(s) ==
  \/ At(Agent(s), "over")
  \/ At(Agent(s), "writeReturn") /\ task[Agent(s)] = "logoff"

\* One token: the event, a thread that writes, or a packet that has still to be read.
OneToken(s) ==
  LET b == buffer[s]
      a == Agent(s)
      v == Service(s)
  IN /\ empty[b] \/ At(a, "copyIn") \/ At(v, "copyIn") => unread[b] = "none"
     /\ empty[b] => ~At(a, "copyIn") /\ ~At(v, "copyIn")
     /\ ~(At(a, "copyIn") /\ At(v, "copyIn"))

\* One message, for the one who has to read the packet.
OneMessage(s) ==
  \A t \in {Agent(s), Service(s)} :
    /\ messages[t] > 0 \/ At(t, "copyOut") => unread[buffer[s]] = t[1]
    /\ messages[t] <= IF At(t, "copyOut") THEN 0 ELSE 1

\* A service thread that frees an unbroken buffer has read a LOGOFF, and the agent is out of it.
LogoffLast(s) ==
  LET b == buffer[s]
      v == Service(s)
  IN /\ unread[b] = "srv" /\ content[b].kind = "logoff" => SaidLogoff(s)
     /\ unread[b] = "cli" => content[b].kind # "logoff"
     /\ packet[Agent(s)].kind # "logoff"
     /\ packet[v].kind = "logoff" =>
          /\ SaidLogoff(s)
          /\ pc[v] \in {"readReturn", "freeEvent"} => unread[b] = "none"
     /\ At(v, "freeEvent") => packet[v].kind = "logoff"

\* A thread has stored its error and not yet told the other.
Breaking(s) == \E t \in {Agent(s), Service(s)} : pc[t] \in {"errEvent", "errPost"}

\* A session on an untouched buffer that none of its threads has broken off.
Sound(s) == Serving(s) /\ Untouched(buffer[s]) /\ ~Broken(Service(s))

SessionInv ==
  /\ TypeOK
  /\ TaskInv
  /\ LogonInv
  /\ OwnInv
  /\ FreeInv
  /\ \A s \in Sessions : Sound(s) => OneToken(s) /\ OneMessage(s) /\ LogoffLast(s) /\ ~Breaking(s)

\* A packet of a request; only data is sent in several.
IsRequest(p) == p.kind \in Requests /\ (p.kind # "data" => p.end)

\* Who speaks and who listens, in every session that is not broken off.
TurnInv ==
  \A s \in Sessions :
    LET a == Agent(s)
        v == Service(s)
        p == content[buffer[s]]
    IN /\ task[a] = "forward" => IsRequest(packet[a]) /\ direct[s] = ~packet[a].end
       /\ Serving(s) /\ ~HungUp(s) =>
            /\ task[v] # "twice"
            /\ At(v, "readReturn") => IsRequest(packet[v])
            /\ unread[buffer[s]] = "srv" => IsRequest(p)
            /\ CASE unread[buffer[s]] = "none" -> Listens(s) <=> HasTurn(s)
                 [] unread[buffer[s]] = "srv" -> ~HasTurn(s) /\ (Listens(s) <=> p.end)
                 [] unread[buffer[s]] = "cli" -> Listens(s) /\ (HasTurn(s) <=> ~p.end)
=============================================================================
