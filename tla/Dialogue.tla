------------------------------ MODULE Dialogue ------------------------------
(***************************************************************************)
(* What an exchange buffer promises to the two ends of a session: they     *)
(* take turns.  The one whose turn it is sends packets, each of which is   *)
(* heard before the next is sent, and passes the turn with the last one.   *)
(* Either may hang up at any time.                                         *)
(***************************************************************************)
CONSTANT Sessions

VARIABLES
  turn,    \* turn[s]: who speaks, "client" or "server", or "over"
  mail     \* mail[s]: the packet on its way: "empty", "more" or "end"

dialogueVars == <<turn, mail>>

Init ==
  /\ turn = [s \in Sessions |-> "client"]
  /\ mail = [s \in Sessions |-> "empty"]

Other(end) == IF end = "client" THEN "server" ELSE "client"

\* The speaker sends a packet, the last of its turn or not.
Say(s) ==
  /\ turn[s] # "over" /\ mail[s] = "empty"
  /\ \E m \in {"more", "end"} : mail' = [mail EXCEPT ![s] = m]
  /\ UNCHANGED turn

\* The other end takes it.
Hear(s) ==
  /\ turn[s] # "over" /\ mail[s] # "empty"
  /\ mail' = [mail EXCEPT ![s] = "empty"]
  /\ turn' = IF mail[s] = "end" THEN [turn EXCEPT ![s] = Other(@)] ELSE turn

HangUp(s) ==
  /\ turn' = [turn EXCEPT ![s] = "over"]
  /\ mail' = [mail EXCEPT ![s] = "empty"]

Next == \E s \in Sessions : Say(s) \/ Hear(s) \/ HangUp(s)

Spec == Init /\ [][Next]_dialogueVars
=============================================================================
