-------------------------------- MODULE Desk --------------------------------
(***************************************************************************)
(* What the inbox promises about a chat that several people and the AI     *)
(* work on at once: its rows change as if one operation at a time were     *)
(* carried out, each on what the one before it left.  A handoff by the AI  *)
(* may come at any time, also when the chat is no longer the AI's.         *)
(***************************************************************************)
EXTENDS InboxOps

VARIABLE desk       \* the rows of the chat

Init == desk = FreshChat

Serve(q) == desk' = Outcome(q, desk.chat.state, desk.active, desk)
Handoff == \E st \in HandoffState : desk' = HandedOff(st, desk)

Next == (\E q \in Requests : Serve(q)) \/ Handoff

Spec == Init /\ [][Next]_desk
=============================================================================
