------------------------- MODULE ConversationTurns -------------------------
(***************************************************************************)
(* What the bridge promises one conversation, whatever the gate, the       *)
(* buffer, the event chain and the watchdogs do to keep the promise: one   *)
(* batch of messages is worked on at a time; the next begins only when no  *)
(* other is being worked on, and takes everything that is waiting; nothing *)
(* leaves but by being worked on to the end, or by going back to wait      *)
(* because its turn died before it began.  Order is not promised: a        *)
(* message that finds the conversation free goes ahead of what waits.      *)
(***************************************************************************)
EXTENDS Integers

CONSTANT NMsg

VARIABLES
  sent,     \* messages 1..sent were sent
  waiting,  \* messages that wait for a turn
  active    \* the messages the current turn works on

vars == <<sent, waiting, active>>

Init == sent = 0 /\ waiting = {} /\ active = {}

\* A message is sent and waits.
Arrive ==
  /\ sent < NMsg
  /\ sent' = sent + 1 /\ waiting' = waiting \cup {sent + 1}
  /\ UNCHANGED active

\* A message is sent and, the conversation being free, begun at once.
ArriveAndBegin ==
  /\ sent < NMsg /\ active = {}
  /\ sent' = sent + 1 /\ active' = {sent + 1}
  /\ UNCHANGED waiting

\* Everything that waits is begun as one batch.
Begin ==
  /\ active = {} /\ waiting # {}
  /\ active' = waiting /\ waiting' = {}
  /\ UNCHANGED sent

\* The batch is over.
Finish ==
  /\ active # {}
  /\ active' = {}
  /\ UNCHANGED <<sent, waiting>>

\* The batch's turn never came to life: its messages wait again.
Recover ==
  /\ active # {}
  /\ waiting' = waiting \cup active /\ active' = {}
  /\ UNCHANGED sent

Next == Arrive \/ ArriveAndBegin \/ Begin \/ Finish \/ Recover

Spec == Init /\ [][Next]_vars
=============================================================================
