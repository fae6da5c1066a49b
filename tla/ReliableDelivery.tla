------------------------- MODULE ReliableDelivery -------------------------
(***************************************************************************)
(* What the delivery layer promises, without saying how.  A message is     *)
(* accepted for delivery once; its effect at the receiver happens at most  *)
(* as one entry of the history; the sender may report it delivered only    *)
(* after that effect; a message the sender gave up (its peer was blocked,  *)
(* its queue row was quarantined) is never reported delivered afterwards.  *)
(*                                                                         *)
(* The promise is spread over the comments of outbox/manager.go and of     *)
(* store/message.go; module Outbox shows the code implements it.           *)
(***************************************************************************)
EXTENDS Naturals

CONSTANT Msgs

VARIABLES
  status,     \* sender: 0 none, 1 queued, 2 sent, 3 delivered (store.Status)
  inbox,      \* receiver: is the message in the history?
  withdrawn   \* messages the sender stopped trying to deliver

vars == <<status, inbox, withdrawn>>

TypeOK ==
  /\ status \in [Msgs -> 0..3]
  /\ inbox \in [Msgs -> {"none", "stored", "deleted"}]
  /\ withdrawn \subseteq Msgs

Init ==
  /\ status = [m \in Msgs |-> 0]
  /\ inbox = [m \in Msgs |-> "none"]
  /\ withdrawn = {}

Accept(m) ==
  /\ status[m] = 0
  /\ status' = [status EXCEPT ![m] = 1]
  /\ UNCHANGED <<inbox, withdrawn>>

Transmit ==   \* some queued messages are now known to have left the node
  \E S \in SUBSET {m \in Msgs : status[m] = 1} :
    /\ status' = [m \in Msgs |-> IF m \in S THEN 2 ELSE status[m]]
    /\ UNCHANGED <<inbox, withdrawn>>

Apply(m) ==
  /\ status[m] # 0
  /\ inbox[m] = "none"
  /\ inbox' = [inbox EXCEPT ![m] = "stored"]
  /\ UNCHANGED <<status, withdrawn>>

Confirm(m) ==
  /\ status[m] \in {1, 2}
  /\ inbox[m] # "none"
  /\ m \notin withdrawn
  /\ status' = [status EXCEPT ![m] = 3]
  /\ UNCHANGED <<inbox, withdrawn>>

Withdraw ==
  \E S \in SUBSET {m \in Msgs : status[m] \in {1, 2}} :
    /\ withdrawn' = withdrawn \cup S
    /\ UNCHANGED <<status, inbox>>

Delete(m) ==   \* the receiver erases a text it has; it stays erased
  /\ inbox[m] = "stored"
  /\ inbox' = [inbox EXCEPT ![m] = "deleted"]
  /\ UNCHANGED <<status, withdrawn>>

Next ==
  \/ \E m \in Msgs : Accept(m) \/ Apply(m) \/ Confirm(m) \/ Delete(m)
  \/ Transmit
  \/ Withdraw

Spec == Init /\ [][Next]_vars
===========================================================================
