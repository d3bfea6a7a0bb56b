-------------------------- MODULE WebhookLifecycle --------------------------
(***************************************************************************)
(* What the webhook inbox promises, with nothing of how it does it.  Every *)
(* event has one record that moves through ABSENT, PROCESSING, FAILED and  *)
(* SUCCEEDED; one attempt at a time is the holder of the record, only the  *)
(* holder's outcome is recorded, SUCCEEDED is final, and the provider is   *)
(* told "received" only for an event that has a record.                    *)
(*                                                                         *)
(* WebhookInbox implements this module (see WebhookInboxProofs).           *)
(***************************************************************************)
CONSTANTS Events,   \* provider events, each named by (provider, event id)
          Leases,   \* names of processing attempts
          None      \* no attempt

VARIABLES status,   \* status[e]: where the record of e is in its life
          holder,   \* holder[e]: the attempt whose outcome counts
          acked     \* the events the provider has been told about

vars == <<status, holder, acked>>

Statuses == {"ABSENT", "PROCESSING", "FAILED", "SUCCEEDED"}

Init ==
  /\ status = [e \in Events |-> "ABSENT"]
  /\ holder = [e \in Events |-> None]
  /\ acked = {}

\* A new event, or one whose last attempt failed, is given to attempt l.
Accept(e, l) ==
  /\ status[e] \in {"ABSENT", "FAILED"}
  /\ status' = [status EXCEPT ![e] = "PROCESSING"]
  /\ holder' = [holder EXCEPT ![e] = l]
  /\ UNCHANGED acked

\* An interrupted attempt is replaced by attempt l.
TakeOver(e, l) ==
  /\ status[e] = "PROCESSING"
  /\ holder[e] # l
  /\ holder' = [holder EXCEPT ![e] = l]
  /\ UNCHANGED <<status, acked>>

\* The holder's outcome is recorded.
Settle(e) ==
  /\ status[e] = "PROCESSING"
  /\ \E outcome \in {"SUCCEEDED", "FAILED"} :
       status' = [status EXCEPT ![e] = outcome]
  /\ UNCHANGED <<holder, acked>>

Acknowledge(e) ==
  /\ status[e] # "ABSENT"
  /\ acked' = acked \cup {e}
  /\ UNCHANGED <<status, holder>>

Next ==
  \E e \in Events :
    \/ \E l \in Leases : Accept(e, l) \/ TakeOver(e, l)
    \/ Settle(e)
    \/ Acknowledge(e)

Spec == Init /\ [][Next]_vars
=============================================================================
