---------------------------- MODULE AlarmLedger ----------------------------
(***************************************************************************)
(* What the alarms table and the 'alarm' events promise together, for one  *)
(* controller and one alarm code: a row opens, its opening is announced,   *)
(* the row closes, its closing is announced, and so on in turn.  Push,     *)
(* webhooks and escalations listen to the events only, so an event that is *)
(* missing, repeated or out of turn is a notification nobody gets, or one  *)
(* nobody can explain.                                                     *)
(***************************************************************************)
VARIABLES
  rows,  \* active rows of the code
  said   \* the last event said the alarm is active

Init == rows = 0 /\ ~said

Open           == rows = 0 /\ ~said /\ rows' = 1     /\ UNCHANGED said
AnnounceOpen   == rows = 1 /\ ~said /\ said' = TRUE  /\ UNCHANGED rows
Close          == rows = 1 /\ said  /\ rows' = 0     /\ UNCHANGED said
AnnounceClosed == rows = 0 /\ said  /\ said' = FALSE /\ UNCHANGED rows

Next == Open \/ AnnounceOpen \/ Close \/ AnnounceClosed

ledger == <<rows, said>>

(* Nothing obliges an alarm to open or to close; what happened is announced. *)
Spec == Init /\ [][Next]_ledger /\ WF_ledger(AnnounceOpen) /\ WF_ledger(AnnounceClosed)
=============================================================================
