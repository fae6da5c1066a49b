--------------------------- MODULE OutboxProofs ---------------------------
(***************************************************************************)
(* Proofs about Outbox for every set of peers and messages and every bound.*)
(*                                                                         *)
(* TypeOK is inductive as it stands.  IInv joins the claims the two        *)
(* databases make about each other with the facts on frames and acks in    *)
(* flight that make them inductive: "delivered" is honest because an ack   *)
(* only ever leaves a receiver that holds the record.  Then: no lost       *)
(* wake-up, no lost message while the disk is sound, and the refinement of *)
(* ReliableDelivery.                                                       *)
(***************************************************************************)
EXTENDS Outbox, TLAPS

\* The absent row is a row.
LEMMA NoRowType == NoRow \in Row
BY BoundsAssumption DEF NoRow, Row

\* What the store operators return, typed.
LEMMA OperatorTypes ==
  ASSUME TypeOK
  PROVE  /\ \A S \in SUBSET Msgs, s \in Status : StatusUp(S, s) \in [Msgs -> Status]
         /\ \A ids : Postpone(ids) \in [Msgs -> Row]
         /\ \A p : KickRows(p) \in [Msgs -> Row]
<1> USE DEF TypeOK
<1>1. \A S \in SUBSET Msgs, s \in Status : StatusUp(S, s) \in [Msgs -> Status]
  BY DEF StatusUp
<1>2. \A ids : Postpone(ids) \in [Msgs -> Row]
  BY DEF Postpone, Row
<1>3. \A p : KickRows(p) \in [Msgs -> Row]
  BY DEF KickRows, Row
<1> QED BY <1>1, <1>2, <1>3

\* The initial values are of their types.
LEMMA TypeInit == Init => TypeOK
<1> SUFFICES ASSUME Init  PROVE TypeOK
  OBVIOUS
<1>1. rows \in [Msgs -> Row] /\ status \in [Msgs -> Status]
  BY NoRowType DEF Init, Status, None, Delivered
<1>2. result \in [Msgs -> {"none", "todo", "sent", "failed"}]
  BY DEF Init, Idle
<1>3. inbox \in [Msgs -> {"none", "stored", "deleted"}]
  BY DEF Init
<1>4. faults \in 0..MaxFaults /\ damage \in 0..MaxDamage
  BY BoundsAssumption DEF Init
<1>5. /\ pc \in {"read", "quarantine", "send", "arm", "wait"} /\ armed \in BOOLEAN
      /\ batch = {} /\ bad = {}
  BY DEF Init
<1> QED BY <1>1, <1>2, <1>3, <1>4, <1>5 DEF Init, TypeOK

\* Each action keeps the types.
LEMMA TypeStep == TypeOK /\ [Next]_vars => TypeOK'
<1> SUFFICES ASSUME TypeOK, [Next]_vars
             PROVE  TypeOK'
  OBVIOUS
<1> USE NoRowType, DestAssumption, BoundsAssumption
    DEF TypeOK, vars, senderDB, runVars, receiverDB, net, ghosts, budgets
<1>1. ASSUME NEW m \in Msgs, Enqueue(m)  PROVE TypeOK'
  BY <1>1 DEF Enqueue, Row, Rowid, Status, None, Queued, Sent, Delivered
<1>2. ASSUME NEW p \in Peers, Flush(p)  PROVE TypeOK'
  BY <1>2 DEF Flush, Kick
<1>3. ASSUME NEW p \in Peers, PresenceKick(p)  PROVE TypeOK'
  BY <1>3 DEF PresenceKick, Kick
<1>4. ASSUME NEW p \in Peers, PurgePeer(p)  PROVE TypeOK'
  BY <1>4 DEF PurgePeer
<1>5. CASE FlushRead
  <2>1. PICK S \in SUBSET Due :
          /\ batch' = {[id |-> rows[m].id, msg |-> m] : m \in {x \in S : Intact(x)}}
          /\ bad' = {rows[m].id : m \in {x \in S : ~Intact(x)}}
          /\ result' = [m \in Msgs |-> IF m \in S /\ Intact(m) THEN "todo" ELSE "none"]
          /\ pc' = IF \E m \in S : ~Intact(m) THEN "quarantine"
                   ELSE IF S = {} THEN "arm" ELSE "send"
    BY <1>5 DEF FlushRead
  <2>2. \A m \in S : m \in Msgs /\ rows[m].id \in Rowid
    BY DEF Due, Stored, Row, Rowid
  <2>3. batch' \subseteq [id : Rowid, msg : Msgs] /\ bad' \subseteq Rowid
    BY <2>1, <2>2
  <2>4. /\ result' \in [Msgs -> {"none", "todo", "sent", "failed"}]
        /\ pc' \in {"read", "quarantine", "send", "arm", "wait"}
    BY <2>1
  <2> QED BY <1>5, <2>3, <2>4 DEF FlushRead
<1>6. CASE FlushQuarantine
  BY <1>6 DEF FlushQuarantine
<1>7. ASSUME NEW m \in Msgs, SendOk(m)  PROVE TypeOK'
  BY <1>7 DEF SendOk
<1>8. ASSUME NEW m \in Msgs, SendFailed(m)  PROVE TypeOK'
  BY <1>8 DEF SendFailed
<1>9. CASE FlushRecord
  <2>1. rows' \in [Msgs -> Row]
    BY <1>9, OperatorTypes DEF FlushRecord
  <2>2. status' \in [Msgs -> Status]
    BY <1>9, OperatorTypes DEF FlushRecord, LeftNode, Status, None, Sent, Delivered
  <2> QED BY <1>9, <2>1, <2>2 DEF FlushRecord, Idle
<1>10. CASE FlushArm
  BY <1>10 DEF FlushArm, Nearest
<1>11. CASE WakeTimer
  BY <1>11 DEF WakeTimer
<1>12. ASSUME NEW p \in Peers, WakeKick(p)  PROVE TypeOK'
  BY <1>12, OperatorTypes DEF WakeKick
<1>13. CASE StoreFault
  <2>1. /\ pc' \in {"wait", "read"} /\ armed' \in BOOLEAN /\ kicks' \subseteq Peers
    BY <1>13 DEF StoreFault
  <2>2. result' \in [Msgs -> {"none", "todo", "sent", "failed"}]
    BY <1>13 DEF StoreFault, Idle
  <2>3. faults' \in 0..MaxFaults
    BY <1>13 DEF StoreFault
  <2> QED BY <1>13, <2>1, <2>2, <2>3 DEF StoreFault
<1>14. ASSUME NEW m \in Msgs, ReceiveFresh(m)  PROVE TypeOK'
  BY <1>14 DEF ReceiveFresh, Fresh
<1>15. ASSUME NEW m \in Msgs, ReceiveDup(m)  PROVE TypeOK'
  BY <1>15 DEF ReceiveDup
<1>16. ASSUME NEW m \in Msgs, HandlerError(m)  PROVE TypeOK'
  BY <1>16 DEF HandlerError, Fresh
<1>17. ASSUME NEW m \in Msgs, HandleAck(m)  PROVE TypeOK'
  <2>1. status' \in [Msgs -> Status]
    BY <1>17, OperatorTypes DEF HandleAck, Status, None, Delivered
  <2> QED BY <1>17, <2>1 DEF HandleAck
<1>18. ASSUME NEW m \in Msgs, DeleteReceived(m)  PROVE TypeOK'
  BY <1>18 DEF DeleteReceived
<1>19. ASSUME NEW m \in Msgs, Lose(m)  PROVE TypeOK'
  BY <1>19 DEF Lose
<1>20. ASSUME NEW m \in Msgs, Elapse(m)  PROVE TypeOK'
  <2>1. rows' = [rows EXCEPT ![m] = [rows[m] EXCEPT !.due = TRUE]]
    BY <1>20 DEF Elapse
  <2>2. [rows[m] EXCEPT !.due = TRUE] \in Row
    BY DEF Row
  <2> QED BY <1>20, <2>1, <2>2 DEF Elapse
<1>21. ASSUME NEW m \in Msgs, Damage(m)  PROVE TypeOK'
  <2>1. rows' = [rows EXCEPT ![m] = [rows[m] EXCEPT !.intact = FALSE]]
    BY <1>21 DEF Damage
  <2>2. [rows[m] EXCEPT !.intact = FALSE] \in Row
    BY DEF Row
  <2> QED BY <1>21, <2>1, <2>2 DEF Damage
<1>22. CASE Restart
  <2>1. result' \in [Msgs -> {"none", "todo", "sent", "failed"}]
    BY <1>22 DEF Restart, Idle
  <2>2. faults' \in 0..MaxFaults
    BY <1>22 DEF Restart
  <2> QED BY <1>22, <2>1, <2>2 DEF Restart
<1>23. CASE UNCHANGED vars
  BY <1>23
<1> QED
  BY <1>1, <1>2, <1>3, <1>4, <1>5, <1>6, <1>7, <1>8, <1>9, <1>10, <1>11, <1>12,
     <1>13, <1>14, <1>15, <1>16, <1>17, <1>18, <1>19, <1>20, <1>21, <1>22, <1>23
  DEF Next, Producers, Run, Inbound, Environment

\* Every variable keeps its type (for all bounds on the environment).
THEOREM TypeCorrect == Spec => []TypeOK
BY TypeInit, TypeStep, PTL DEF Spec

-----------------------------------------------------------------------------
(* The inductive invariant.                                                *)

Applied == {m \in Msgs : inbox[m] # "none"}
OnWire == {m \in Msgs : status[m] \in {Sent, Delivered}}

\* The receiver marks a message seen, and answers it, only with its record.
AnsweredIsApplied ==
  /\ seen \subseteq Applied
  /\ acks \subseteq Applied
  /\ \A m \in Msgs : status[m] = Delivered => m \in Applied

\* What a frame causes was caused by a frame that left.
WireIsLeft ==
  /\ frames \subseteq left
  /\ Applied \subseteq left
  /\ OnWire \subseteq left
  /\ \A m \in Msgs : result[m] = "sent" => m \in left

\* A row belongs to a message that is still to be delivered.
RowIsPending == \A m \in Msgs : Stored(m) => status[m] \in {Queued, Sent}

\* What was applied is in the window, or was there.
WindowRemembers == Applied \subseteq seen \cup forgot /\ twice \subseteq forgot

IInv ==
  /\ TypeOK
  /\ AnsweredIsApplied /\ WireIsLeft /\ RowIsPending /\ WindowRemembers

\* A step that neither writes a status, nor touches the network or a
\* receiver, nor adds or removes a row.
Inner ==
  /\ UNCHANGED <<status, frames, acks, seen, inbox, forgot, twice, left, purged>>
  /\ \A m \in Msgs : rows'[m].id = rows[m].id
  /\ \A m \in Msgs : result'[m] = "sent" => result[m] = "sent"

\* Every step is one of the few that matter to IInv, or an inner one.
LEMMA StepKinds ==
  ASSUME TypeOK, [Next]_vars
  PROVE  \/ \E m \in Msgs : Enqueue(m) \/ SendOk(m) \/ SendFailed(m)
         \/ \E m \in Msgs : ReceiveFresh(m) \/ ReceiveDup(m) \/ HandlerError(m)
         \/ \E m \in Msgs : HandleAck(m) \/ DeleteReceived(m) \/ Lose(m)
         \/ \E p \in Peers : PurgePeer(p)
         \/ FlushQuarantine \/ FlushRecord
         \/ Inner
<1> USE DEF TypeOK, vars, senderDB, runVars, receiverDB, net, ghosts, budgets
<1>1. ASSUME NEW p \in Peers, Flush(p) \/ PresenceKick(p)  PROVE Inner
  BY <1>1 DEF Flush, PresenceKick, Inner
<1>2. CASE FlushRead
  <2>1. \A m \in Msgs : result'[m] # "sent"
    BY <1>2 DEF FlushRead
  <2> QED BY <1>2, <2>1 DEF FlushRead, Inner
<1>3. CASE FlushArm \/ WakeTimer
  BY <1>3 DEF FlushArm, WakeTimer, Inner
<1>4. ASSUME NEW p \in Peers, WakeKick(p)  PROVE Inner
  <2>1. \A m \in Msgs : rows'[m].id = rows[m].id
    BY <1>4 DEF WakeKick, KickRows, Row
  <2> QED BY <1>4, <2>1 DEF WakeKick, Inner
<1>5. CASE StoreFault \/ Restart
  <2>1. \A m \in Msgs : result'[m] # "sent"
    BY <1>5 DEF StoreFault, Restart, Idle
  <2>2. UNCHANGED <<rows, status, frames, acks, seen, inbox, forgot, twice, left, purged>>
    BY <1>5 DEF StoreFault, Restart
  <2> QED BY <2>1, <2>2 DEF Inner
<1>6. ASSUME NEW m \in Msgs, Elapse(m)  PROVE Inner
  <2>1. rows' = [rows EXCEPT ![m] = [rows[m] EXCEPT !.due = TRUE]]
    BY <1>6 DEF Elapse
  <2>2. [rows[m] EXCEPT !.due = TRUE].id = rows[m].id
    BY DEF Row
  <2> QED BY <1>6, <2>1, <2>2 DEF Elapse, Inner
<1>7. ASSUME NEW m \in Msgs, Damage(m)  PROVE Inner
  <2>1. rows' = [rows EXCEPT ![m] = [rows[m] EXCEPT !.intact = FALSE]]
    BY <1>7 DEF Damage
  <2>2. [rows[m] EXCEPT !.intact = FALSE].id = rows[m].id
    BY DEF Row
  <2> QED BY <1>7, <2>1, <2>2 DEF Damage, Inner
<1>8. CASE UNCHANGED vars
  BY <1>8 DEF Inner
<1> QED
  BY <1>1, <1>2, <1>3, <1>4, <1>5, <1>6, <1>7, <1>8
  DEF Next, Producers, Run, Inbound, Environment

\* Nothing is claimed of empty tables.
LEMMA IInvInit == Init => IInv
<1> SUFFICES ASSUME Init  PROVE IInv
  OBVIOUS
<1>1. TypeOK
  BY TypeInit
<1>2. AnsweredIsApplied /\ WireIsLeft
  BY DEF Init, AnsweredIsApplied, WireIsLeft, Applied, OnWire, Idle,
         None, Sent, Delivered
<1>3. RowIsPending
  BY DEF Init, RowIsPending, Stored, NoRow
<1>4. WindowRemembers
  BY DEF Init, WindowRemembers, Applied
<1> QED BY <1>1, <1>2, <1>3, <1>4 DEF IInv

\* Every step keeps the invariant, one case per action that matters to it.
LEMMA IInvStep == IInv /\ [Next]_vars => IInv'
<1> SUFFICES ASSUME IInv, [Next]_vars  PROVE IInv'
  OBVIOUS
<1> USE DEF IInv, vars, senderDB, runVars, receiverDB, net, ghosts, budgets
<1>0. TypeOK'
  BY TypeStep
<1>1. ASSUME NEW m \in Msgs, Enqueue(m)  PROVE IInv'
  <2> USE <1>1 DEF Enqueue
  <2>1. UNCHANGED <<Applied, seen, acks, frames, left, result, forgot, twice>>
    BY DEF Applied
  <2>2. \A x \in Msgs \ {m} : status'[x] = status[x] /\ rows'[x] = rows[x]
    BY DEF TypeOK
  <2>3. status'[m] = Queued
    BY DEF TypeOK
  <2>4. AnsweredIsApplied' /\ WireIsLeft'
    BY <2>1, <2>2, <2>3 DEF AnsweredIsApplied, WireIsLeft, OnWire, Queued, Sent, Delivered
  <2>5. RowIsPending'
    BY <2>2, <2>3 DEF RowIsPending, Stored, Queued, Sent
  <2>6. WindowRemembers'
    BY <2>1 DEF WindowRemembers
  <2> QED BY <1>0, <2>4, <2>5, <2>6
<1>2. ASSUME NEW m \in Msgs, SendOk(m) \/ SendFailed(m)  PROVE IInv'
  <2>1. UNCHANGED <<rows, status, acks, seen, inbox, forgot, twice>>
    BY <1>2 DEF SendOk, SendFailed
  <2>2. /\ \/ frames' = frames /\ left' = left
           \/ frames' = frames \cup {m} /\ left' = left \cup {m}
        /\ \A x \in Msgs : result'[x] = "sent" => result[x] = "sent" \/ x \in left'
    BY <1>2 DEF SendOk, SendFailed, TypeOK
  <2>3. AnsweredIsApplied' /\ RowIsPending' /\ WindowRemembers'
    BY <2>1 DEF AnsweredIsApplied, RowIsPending, WindowRemembers, Applied, Stored
  <2>4. WireIsLeft'
    BY <2>1, <2>2 DEF WireIsLeft, Applied, OnWire
  <2> QED BY <1>0, <2>3, <2>4
<1>3. ASSUME NEW m \in Msgs, ReceiveFresh(m)  PROVE IInv'
  <2>1. /\ UNCHANGED <<rows, status, frames, left, result>>
        /\ m \in frames /\ acks' \subseteq acks \cup {m}
    BY <1>3 DEF ReceiveFresh, Fresh
  <2>2. /\ seen' \subseteq seen \cup {m} /\ m \in seen'
        /\ forgot \subseteq forgot' /\ seen \subseteq seen' \cup forgot'
    BY <1>3 DEF ReceiveFresh, Fresh
  <2>3. Applied' = Applied \cup {m}
    BY <1>3 DEF ReceiveFresh, Fresh, Applied, TypeOK
  <2>4. AnsweredIsApplied'
    BY <2>1, <2>2, <2>3 DEF AnsweredIsApplied
  <2>5. WireIsLeft' /\ RowIsPending'
    BY <2>1, <2>3 DEF WireIsLeft, OnWire, RowIsPending, Stored
  <2>6. WindowRemembers'
    <3>1. twice' \subseteq twice \cup (Applied \cap {m}) /\ m \notin seen
      BY <1>3 DEF ReceiveFresh, Fresh, Applied
    <3> QED BY <2>2, <2>3, <3>1 DEF WindowRemembers
  <2> QED BY <1>0, <2>4, <2>5, <2>6
<1>4. ASSUME NEW m \in Msgs, ReceiveDup(m) \/ HandlerError(m) \/ Lose(m)  PROVE IInv'
  <2>1. /\ UNCHANGED <<rows, status, seen, inbox, forgot, twice, left, result>>
        /\ frames' \subseteq frames /\ acks' \subseteq acks \cup seen
    BY <1>4 DEF ReceiveDup, HandlerError, Fresh, Lose
  <2> QED
    BY <1>0, <2>1 DEF AnsweredIsApplied, WireIsLeft, RowIsPending, WindowRemembers,
                      Applied, OnWire, Stored
<1>5. ASSUME NEW m \in Msgs, HandleAck(m)  PROVE IInv'
  <2>1. /\ UNCHANGED <<frames, acks, seen, inbox, forgot, twice, left, result>>
        /\ m \in acks
    BY <1>5 DEF HandleAck
  <2>2. /\ ~Stored(m)' /\ status'[m] \in {status[m], Delivered}
        /\ \A x \in Msgs \ {m} : status'[x] = status[x] /\ rows'[x] = rows[x]
    BY <1>5 DEF HandleAck, StatusUp, TypeOK, Stored, NoRow
  <2>3. AnsweredIsApplied' /\ WireIsLeft'
    BY <2>1, <2>2 DEF AnsweredIsApplied, WireIsLeft, Applied, OnWire
  <2>4. RowIsPending' /\ WindowRemembers'
    BY <2>1, <2>2 DEF RowIsPending, WindowRemembers, Applied, Stored
  <2> QED BY <1>0, <2>3, <2>4
<1>6. ASSUME NEW m \in Msgs, DeleteReceived(m)  PROVE IInv'
  <2>1. UNCHANGED <<rows, status, frames, acks, seen, forgot, twice, left, result>>
    BY <1>6 DEF DeleteReceived
  <2>2. Applied' = Applied
    BY <1>6 DEF DeleteReceived, Applied, TypeOK
  <2> QED
    BY <1>0, <2>1, <2>2 DEF AnsweredIsApplied, WireIsLeft, RowIsPending,
                            WindowRemembers, OnWire, Stored
<1>7. ASSUME (\E p \in Peers : PurgePeer(p)) \/ FlushQuarantine  PROVE IInv'
  <2>1. UNCHANGED <<status, frames, acks, seen, inbox, forgot, twice, left, result>>
    BY <1>7 DEF PurgePeer, FlushQuarantine
  <2>2. \A m \in Msgs : Stored(m)' => Stored(m)
    BY <1>7 DEF PurgePeer, FlushQuarantine, Stored, NoRow
  <2> QED
    BY <1>0, <2>1, <2>2 DEF AnsweredIsApplied, WireIsLeft, RowIsPending,
                            WindowRemembers, Applied, OnWire
<1>8. CASE FlushRecord
  <2>1. /\ UNCHANGED <<frames, acks, seen, inbox, forgot, twice, left>>
        /\ \A m \in Msgs : result'[m] # "sent"
    BY <1>8 DEF FlushRecord, Idle
  <2>2. \A m \in Msgs : Stored(m)' => Stored(m)
    BY <1>8 DEF FlushRecord, Postpone, Stored, TypeOK, Row
  <2>3. \A m \in Msgs :
          \/ status'[m] = status[m]
          \/ status'[m] = Sent /\ result[m] = "sent" /\ status[m] \in {Queued, Sent}
    BY <1>8 DEF FlushRecord, LeftNode, StatusUp, TypeOK, Status, None, Queued, Sent, Delivered
  <2>4. AnsweredIsApplied' /\ WindowRemembers'
    BY <2>1, <2>3 DEF AnsweredIsApplied, WindowRemembers, Applied, Sent, Delivered
  <2>5. WireIsLeft'
    BY <2>1, <2>3 DEF WireIsLeft, Applied, OnWire
  <2>6. RowIsPending'
    BY <2>2, <2>3 DEF RowIsPending
  <2> QED BY <1>0, <2>4, <2>5, <2>6
<1>9. CASE Inner
  BY <1>0, <1>9 DEF Inner, AnsweredIsApplied, WireIsLeft, RowIsPending,
                    WindowRemembers, Applied, OnWire, Stored
<1> QED BY <1>1, <1>2, <1>3, <1>4, <1>5, <1>6, <1>7, <1>8, <1>9, StepKinds DEF IInv

\* The invariant of the specification.
LEMMA IInvHolds == Spec => []IInv
BY IInvInit, IInvStep, PTL DEF Spec

\* "Delivered" is shown only for what the receiver has committed.
THEOREM DeliveredHonest == Spec => []DeliveredIsReal
<1>1. IInv => DeliveredIsReal
  BY DEF IInv, AnsweredIsApplied, DeliveredIsReal, Applied
<1> QED BY <1>1, IInvHolds, PTL

\* "Sent" is shown only for what has left the node.
THEOREM SentHonest == Spec => []SentIsReal
<1>1. IInv => SentIsReal
  BY DEF IInv, WireIsLeft, SentIsReal, OnWire
<1> QED BY <1>1, IInvHolds, PTL

\* A handler runs twice only for a message the dedup window had let go.
THEOREM HandledOnce == Spec => []ExactlyOnce
<1>1. IInv => ExactlyOnce
  BY DEF IInv, WindowRemembers, ExactlyOnce
<1> QED BY <1>1, IInvHolds, PTL

-----------------------------------------------------------------------------
(* No lost wake-up.                                                        *)

\* NoStrandedRow is inductive: the kick channel is only emptied by Run, which
\* then reads the queue again before it sleeps.
LEMMA WakeupStep == TypeOK /\ NoStrandedRow /\ [Next]_vars => NoStrandedRow'
<1> SUFFICES ASSUME TypeOK, NoStrandedRow, [Next]_vars
             PROVE  NoStrandedRow'
  OBVIOUS
<1> USE DEF NoStrandedRow, vars, senderDB, runVars, receiverDB, net, ghosts, budgets
<1>1. ASSUME NEW m \in Msgs, Enqueue(m)  PROVE NoStrandedRow'
  <2>1. \A x \in Msgs \ {m} : rows'[x] = rows[x]
    BY <1>1 DEF Enqueue, TypeOK
  <2>2. /\ UNCHANGED <<pc, armed, kicks>> /\ toFlush \subseteq toFlush'
        /\ m \notin Quiet => Dest[m] \in toFlush'
    BY <1>1 DEF Enqueue
  <2> QED BY <2>1, <2>2 DEF Stored
<1>2. ASSUME NEW p \in Peers, Flush(p) \/ PresenceKick(p)  PROVE NoStrandedRow'
  <2>1. kicks' # {}
    BY <1>2 DEF Flush, PresenceKick, Kick
  <2> QED BY <2>1
<1>3. ASSUME NEW p \in Peers, PurgePeer(p)  PROVE NoStrandedRow'
  <2>1. \A m \in Msgs : Stored(m)' => Stored(m)
    BY <1>3 DEF PurgePeer, Stored, NoRow
  <2> QED BY <1>3, <2>1 DEF PurgePeer
<1>4. CASE FlushRead \/ FlushQuarantine \/ FlushRecord \/ WakeTimer
  BY <1>4 DEF FlushRead, FlushQuarantine, FlushRecord, WakeTimer
<1>5. CASE FlushArm
  BY <1>5 DEF FlushArm, Nearest, Stored
<1>6. ASSUME NEW m \in Msgs, SendOk(m) \/ SendFailed(m)  PROVE NoStrandedRow'
  BY <1>6 DEF SendOk, SendFailed, Sendable
<1>7. ASSUME NEW p \in Peers, WakeKick(p)  PROVE NoStrandedRow'
  BY <1>7 DEF WakeKick
<1>8. CASE StoreFault \/ Restart
  BY <1>8 DEF StoreFault, Restart
<1>9. ASSUME NEW m \in Msgs,
             ReceiveFresh(m) \/ ReceiveDup(m) \/ HandlerError(m) \/ DeleteReceived(m) \/ Lose(m)
      PROVE  NoStrandedRow'
  <2>1. UNCHANGED <<rows, pc, armed, kicks, toFlush>>
    BY <1>9 DEF ReceiveFresh, ReceiveDup, HandlerError, DeleteReceived, Lose
  <2> QED BY <2>1 DEF Stored
<1>10. ASSUME NEW m \in Msgs, HandleAck(m)  PROVE NoStrandedRow'
  <2>1. \A x \in Msgs : Stored(x)' => Stored(x)
    BY <1>10 DEF HandleAck, Stored, NoRow, TypeOK
  <2> QED BY <1>10, <2>1 DEF HandleAck
<1>11. ASSUME NEW m \in Msgs, Elapse(m) \/ Damage(m)  PROVE NoStrandedRow'
  <2>1. UNCHANGED <<pc, armed, kicks, toFlush>>
    BY <1>11 DEF Elapse, Damage
  <2>2. \A x \in Msgs \ {m} : rows'[x] = rows[x]
    BY <1>11 DEF Elapse, Damage, TypeOK
  <2>3. Stored(m)
    BY <1>11 DEF Elapse, Damage
  <2> QED BY <2>1, <2>2, <2>3 DEF Stored
<1>12. CASE UNCHANGED vars
  BY <1>12 DEF Stored
<1> QED
  BY <1>1, <1>2, <1>3, <1>4, <1>5, <1>6, <1>7, <1>8, <1>9, <1>10, <1>11, <1>12
  DEF Next, Producers, Run, Inbound, Environment

\* When Run sleeps without a timer and without a kick, every row has a
\* producer on its way to Flush, unless its producer never calls it.
THEOREM NoLostWakeup == Spec => []NoStrandedRow
<1>1. Init => NoStrandedRow
  BY DEF Init, NoStrandedRow
<1> QED BY <1>1, TypeCorrect, WakeupStep, PTL DEF Spec

-----------------------------------------------------------------------------
(* No lost message.                                                        *)

\* A sound disk gives the quarantine nothing to do.
Sound ==
  /\ \A m \in Msgs : Stored(m) => Intact(m)
  /\ bad = {}

KInv == IInv /\ Sound /\ NothingLost

\* Without damage nothing is ever quarantined.
LEMMA SoundStep ==
  ASSUME MaxDamage = 0, TypeOK, Sound, [Next]_vars
  PROVE  Sound'
<1> USE DEF Sound, vars, senderDB, runVars, receiverDB, net, ghosts, budgets
<1>1. ASSUME NEW m \in Msgs, Enqueue(m)  PROVE Sound'
  <2>1. \A x \in Msgs \ {m} : rows'[x] = rows[x]
    BY <1>1 DEF Enqueue, TypeOK
  <2>2. rows'[m].intact
    BY <1>1 DEF Enqueue, TypeOK
  <2> QED BY <1>1, <2>1, <2>2 DEF Enqueue, Stored, Intact
<1>2. CASE FlushRead
  <2>1. \A S \in SUBSET Due : \A x \in S : Intact(x)
    BY DEF Due
  <2>2. bad' = {}
    BY <1>2, <2>1 DEF FlushRead
  <2> QED BY <1>2, <2>2 DEF FlushRead, Stored, Intact
<1>3. CASE FlushRecord
  <2>1. \A x \in Msgs : rows'[x].id = rows[x].id /\ rows'[x].intact = rows[x].intact
    BY <1>3 DEF FlushRecord, Postpone, TypeOK, Row
  <2> QED BY <1>3, <2>1 DEF FlushRecord, Stored, Intact
<1>4. ASSUME NEW p \in Peers, WakeKick(p)  PROVE Sound'
  <2>1. \A x \in Msgs : rows'[x].id = rows[x].id /\ rows'[x].intact = rows[x].intact
    BY <1>4 DEF WakeKick, KickRows, TypeOK, Row
  <2> QED BY <1>4, <2>1 DEF WakeKick, Stored, Intact
<1>5. ASSUME (\E p \in Peers : PurgePeer(p)) \/ FlushQuarantine
             \/ (\E m \in Msgs : HandleAck(m))
      PROVE  Sound'
  <2>1. \A x \in Msgs : rows'[x] \in {rows[x], NoRow}
    BY <1>5 DEF PurgePeer, FlushQuarantine, HandleAck, TypeOK
  <2>2. bad' = {}
    BY <1>5 DEF PurgePeer, FlushQuarantine, HandleAck
  <2> QED BY <2>1, <2>2 DEF Stored, Intact, NoRow
<1>6. ASSUME NEW m \in Msgs, Elapse(m)  PROVE Sound'
  <2>1. rows' = [rows EXCEPT ![m] = [rows[m] EXCEPT !.due = TRUE]]
    BY <1>6 DEF Elapse
  <2>2. /\ [rows[m] EXCEPT !.due = TRUE].id = rows[m].id
        /\ [rows[m] EXCEPT !.due = TRUE].intact = rows[m].intact
    BY DEF TypeOK, Row
  <2> QED BY <1>6, <2>1, <2>2 DEF Elapse, TypeOK, Stored, Intact
<1>7. ASSUME NEW m \in Msgs, Damage(m)  PROVE FALSE
  BY <1>7 DEF Damage, TypeOK
<1>8. ASSUME StoreFault \/ Restart  PROVE Sound'
  BY <1>8 DEF StoreFault, Restart, Stored, Intact
<1>9. ASSUME UNCHANGED <<rows, bad>>  PROVE Sound'
  BY <1>9 DEF Stored, Intact
<1>10. ASSUME NEW p \in Peers, Flush(p) \/ PresenceKick(p)  PROVE UNCHANGED <<rows, bad>>
  BY <1>10 DEF Flush, PresenceKick
<1>11. ASSUME NEW m \in Msgs, SendOk(m) \/ SendFailed(m) \/ ReceiveFresh(m) \/ ReceiveDup(m)
                              \/ HandlerError(m) \/ DeleteReceived(m) \/ Lose(m)
       PROVE  UNCHANGED <<rows, bad>>
  BY <1>11 DEF SendOk, SendFailed, ReceiveFresh, ReceiveDup, HandlerError, DeleteReceived, Lose
<1>12. ASSUME FlushArm \/ WakeTimer  PROVE UNCHANGED <<rows, bad>>
  BY <1>12 DEF FlushArm, WakeTimer
<1>13. ASSUME UNCHANGED vars  PROVE UNCHANGED <<rows, bad>>
  BY <1>13
<1> QED
  BY <1>1, <1>2, <1>3, <1>4, <1>5, <1>6, <1>7, <1>8, <1>9, <1>10, <1>11, <1>12, <1>13
  DEF Next, Producers, Run, Inbound, Environment

\* A row leaves the queue only with its ack or with a block of its peer.
LEMMA NothingLostStep ==
  ASSUME IInv, Sound, NothingLost, [Next]_vars
  PROVE  NothingLost'
<1> USE DEF IInv, vars, senderDB, runVars, receiverDB, net, ghosts, budgets
<1>1. ASSUME NEW m \in Msgs, Enqueue(m)  PROVE NothingLost'
  <2>1. \A x \in Msgs \ {m} : rows'[x] = rows[x] /\ status'[x] = status[x]
    BY <1>1 DEF Enqueue, TypeOK
  <2>2. Stored(m)' /\ UNCHANGED purged
    BY <1>1 DEF Enqueue, TypeOK, Stored, Rowid
  <2> QED BY <2>1, <2>2 DEF NothingLost, Stored
<1>2. ASSUME NEW p \in Peers, PurgePeer(p)  PROVE NothingLost'
  <2>1. \A x \in Msgs : Stored(x) => Stored(x)' \/ x \in purged'
    BY <1>2 DEF PurgePeer, Stored
  <2> QED BY <1>2, <2>1 DEF PurgePeer, NothingLost
<1>3. CASE FlushQuarantine
  <2>1. \A x \in Msgs : rows'[x] = rows[x]
    BY <1>3 DEF FlushQuarantine, Sound, TypeOK
  <2> QED BY <1>3, <2>1 DEF FlushQuarantine, NothingLost, Stored
<1>4. CASE FlushRecord
  <2>1. \A x \in Msgs : rows'[x].id = rows[x].id
    BY <1>4 DEF FlushRecord, Postpone, TypeOK, Row
  <2>2. \A x \in Msgs : status'[x] \in {Queued, Sent} => status[x] \in {Queued, Sent}
    BY <1>4 DEF FlushRecord, LeftNode, StatusUp, TypeOK, Status, None, Queued, Sent, Delivered
  <2> QED BY <1>4, <2>1, <2>2 DEF FlushRecord, NothingLost, Stored
<1>5. ASSUME NEW m \in Msgs, HandleAck(m)  PROVE NothingLost'
  <2>1. \A x \in Msgs \ {m} : rows'[x] = rows[x] /\ status'[x] = status[x]
    BY <1>5 DEF HandleAck, StatusUp, TypeOK
  <2>2. Stored(m) => status'[m] = Delivered
    BY <1>5 DEF HandleAck, StatusUp, TypeOK, RowIsPending, None, Queued, Sent, Delivered
  <2>3. ~Stored(m) => status'[m] = status[m]
    BY <1>5 DEF HandleAck
  <2>4. UNCHANGED purged
    BY <1>5 DEF HandleAck
  <2> QED BY <2>1, <2>2, <2>3, <2>4 DEF NothingLost, Stored, Queued, Sent, Delivered
<1>6. ASSUME NEW m \in Msgs, SendOk(m) \/ SendFailed(m) \/ ReceiveFresh(m) \/ ReceiveDup(m)
                             \/ HandlerError(m) \/ DeleteReceived(m) \/ Lose(m)
      PROVE  NothingLost'
  <2>1. UNCHANGED <<rows, status, purged>>
    BY <1>6 DEF SendOk, SendFailed, ReceiveFresh, ReceiveDup, HandlerError, DeleteReceived, Lose
  <2> QED BY <2>1 DEF NothingLost, Stored
<1>7. CASE Inner
  BY <1>7 DEF Inner, NothingLost, Stored
<1> QED BY <1>1, <1>2, <1>3, <1>4, <1>5, <1>6, <1>7, StepKinds

\* While no row is damaged on disk, a message that is not yet delivered has
\* its row, or its peer was blocked: through restarts, store errors, failed
\* handlers, and every loss of a frame or an ack.
THEOREM NoMessageLost ==
  ASSUME MaxDamage = 0
  PROVE  Spec => []NothingLost
<1>1. Init => KInv
  <2>1. Init => Sound
    BY DEF Init, Sound, Stored, NoRow
  <2>2. Init => NothingLost
    BY DEF Init, NothingLost, None, Queued, Sent
  <2> QED BY <2>1, <2>2, IInvInit DEF KInv
<1>2. KInv /\ [Next]_vars => KInv'
  BY IInvStep, SoundStep, NothingLostStep DEF KInv, IInv
<1>3. KInv => NothingLost
  BY DEF KInv
<1> QED BY <1>1, <1>2, <1>3, PTL DEF Spec

-----------------------------------------------------------------------------
(* The refinement.                                                         *)

Accepted == {m \in Msgs : status[m] # None}

\* Only an accepted message is in a pass, on the wire or at the receiver.
OnlyAccepted ==
  /\ left \subseteq Accepted
  /\ \A m \in Msgs : result[m] # "none" => m \in Accepted

\* Being accepted is for ever, and a pass reads rows of accepted messages.
LEMMA AcceptedStep ==
  ASSUME IInv, OnlyAccepted, [Next]_vars
  PROVE  OnlyAccepted'
<1> USE DEF IInv, OnlyAccepted, vars, senderDB, runVars, receiverDB, net, ghosts, budgets
<1>1. Accepted \subseteq Accepted'
  <2>1. ASSUME NEW m \in Msgs, Enqueue(m)  PROVE Accepted \subseteq Accepted'
    BY <2>1 DEF Enqueue, Accepted, TypeOK
  <2>2. ASSUME NEW S \in SUBSET Msgs, NEW s \in {Sent, Delivered}, status' = StatusUp(S, s)
        PROVE  Accepted \subseteq Accepted'
    BY <2>2 DEF StatusUp, Accepted, None, Sent, Delivered
  <2>3. ASSUME FlushRecord \/ \E m \in Msgs : HandleAck(m)
        PROVE  Accepted \subseteq Accepted'
    BY <2>2, <2>3 DEF FlushRecord, LeftNode, HandleAck, Accepted
  <2>4. ASSUME UNCHANGED status  PROVE Accepted \subseteq Accepted'
    BY <2>4 DEF Accepted
  <2>5. ASSUME NEW m \in Msgs,
               SendOk(m) \/ SendFailed(m) \/ ReceiveFresh(m) \/ ReceiveDup(m)
                 \/ HandlerError(m) \/ DeleteReceived(m) \/ Lose(m)
        PROVE  UNCHANGED status
    BY <2>5 DEF SendOk, SendFailed, ReceiveFresh, ReceiveDup, HandlerError, DeleteReceived, Lose
  <2>6. ASSUME (\E p \in Peers : PurgePeer(p)) \/ FlushQuarantine  PROVE UNCHANGED status
    BY <2>6 DEF PurgePeer, FlushQuarantine
  <2>7. ASSUME Inner  PROVE UNCHANGED status
    BY <2>7 DEF Inner
  <2> QED BY <2>1, <2>3, <2>4, <2>5, <2>6, <2>7, StepKinds
<1>2. ASSUME NEW m \in Msgs, SendOk(m) \/ SendFailed(m)  PROVE OnlyAccepted'
  <2>1. /\ left' \subseteq left \cup {m} /\ result[m] = "todo"
        /\ \A x \in Msgs : result'[x] # "none" => result[x] # "none"
    BY <1>2 DEF SendOk, SendFailed, Sendable, TypeOK
  <2> QED BY <1>1, <2>1
<1>3. CASE FlushRead
  <2>1. \A x \in Msgs : result'[x] # "none" => Stored(x)
    BY <1>3 DEF FlushRead, Due
  <2>2. \A x \in Msgs : Stored(x) => x \in Accepted
    BY DEF RowIsPending, Accepted, None, Queued, Sent
  <2>3. UNCHANGED left
    BY <1>3 DEF FlushRead
  <2> QED BY <1>1, <2>1, <2>2, <2>3
<1>4. ASSUME FlushRecord \/ StoreFault \/ Restart  PROVE OnlyAccepted'
  <2>1. UNCHANGED left /\ \A x \in Msgs : result'[x] = "none"
    BY <1>4 DEF FlushRecord, StoreFault, Restart, Idle
  <2> QED BY <1>1, <2>1
<1>5. ASSUME UNCHANGED <<left, result>>  PROVE OnlyAccepted'
  BY <1>1, <1>5
<1>6. ASSUME NEW m \in Msgs,
             Enqueue(m) \/ ReceiveFresh(m) \/ ReceiveDup(m) \/ HandlerError(m)
               \/ HandleAck(m) \/ DeleteReceived(m) \/ Lose(m) \/ Elapse(m) \/ Damage(m)
      PROVE  UNCHANGED <<left, result>>
  BY <1>6 DEF Enqueue, ReceiveFresh, ReceiveDup, HandlerError, HandleAck, DeleteReceived,
              Lose, Elapse, Damage
<1>7. ASSUME NEW p \in Peers, Flush(p) \/ PresenceKick(p) \/ PurgePeer(p) \/ WakeKick(p)
      PROVE  UNCHANGED <<left, result>>
  BY <1>7 DEF Flush, PresenceKick, PurgePeer, WakeKick
<1>8. ASSUME FlushQuarantine \/ FlushArm \/ WakeTimer  PROVE UNCHANGED <<left, result>>
  BY <1>8 DEF FlushQuarantine, FlushArm, WakeTimer
<1>9. ASSUME UNCHANGED vars  PROVE UNCHANGED <<left, result>>
  BY <1>9
<1> QED
  BY <1>2, <1>3, <1>4, <1>5, <1>6, <1>7, <1>8, <1>9
  DEF Next, Producers, Run, Inbound, Environment

Withdrawn == {m \in Msgs : status[m] \in {Queued, Sent} /\ ~Stored(m)}

\* The abstract state is read off the two databases.
LEMMA RefineInit == Init => RD!Init
<1> SUFFICES ASSUME Init  PROVE RD!Init
  OBVIOUS
<1>1. Withdrawn = {}
  BY DEF Init, Withdrawn, None, Queued, Sent
<1>2. status = [m \in Msgs |-> 0]
  BY DEF Init, None
<1> QED BY <1>1, <1>2 DEF Init, RD!Init, Withdrawn

\* A step of the queue, the wire or a receiver is a step of the promise, or
\* leaves it alone.
LEMMA RefineStep ==
  ASSUME IInv, OnlyAccepted, [Next]_vars
  PROVE  [RD!Next]_(RD!vars)
<1> USE DEF IInv, TypeOK, Status, None, Queued, Sent, Delivered
<1>0. RD!vars = <<status, inbox, Withdrawn>>
  BY DEF RD!vars, Withdrawn
<1>a. ASSUME UNCHANGED <<status, inbox, Withdrawn>>  PROVE [RD!Next]_(RD!vars)
  BY <1>a, <1>0 DEF RD!vars, Withdrawn
<1>1. ASSUME NEW m \in Msgs, Enqueue(m)  PROVE RD!Accept(m)
  <2>1. \A x \in Msgs \ {m} : rows'[x] = rows[x] /\ status'[x] = status[x]
    BY <1>1 DEF Enqueue
  <2>2. Stored(m)' /\ status[m] = 0
    BY <1>1 DEF Enqueue, Stored, Rowid
  <2>3. Withdrawn' = Withdrawn
    BY <2>1, <2>2 DEF Withdrawn, Stored
  <2> QED BY <1>1, <2>2, <2>3 DEF Enqueue, receiverDB, RD!Accept, Withdrawn
<1>2. CASE FlushRecord
  <2> DEFINE S == {m \in Msgs : status[m] = 1 /\ result[m] = "sent"}
  <2>1. status' = [m \in Msgs |-> IF m \in S THEN 2 ELSE status[m]]
    BY <1>2 DEF FlushRecord, LeftNode, StatusUp
  <2>2. \A x \in Msgs : rows'[x].id = rows[x].id
    BY <1>2 DEF FlushRecord, Postpone, Row
  <2>3. Withdrawn' = Withdrawn
    BY <2>1, <2>2 DEF Withdrawn, Stored
  <2>4. UNCHANGED inbox
    BY <1>2 DEF FlushRecord, receiverDB
  <2>5. S \in SUBSET {m \in Msgs : status[m] = 1}
    OBVIOUS
  <2>6. RD!Transmit
    BY <2>1, <2>3, <2>4, <2>5 DEF RD!Transmit, Withdrawn
  <2> QED BY <2>6 DEF RD!Next
<1>3. ASSUME NEW m \in Msgs, ReceiveFresh(m)  PROVE [RD!Next]_(RD!vars)
  <2>1. UNCHANGED <<rows, status>>
    BY <1>3 DEF ReceiveFresh, senderDB
  <2>2. Withdrawn' = Withdrawn
    BY <2>1 DEF Withdrawn, Stored
  <2>3. status[m] # 0
    BY <1>3 DEF ReceiveFresh, Fresh, WireIsLeft, OnlyAccepted, Accepted
  <2>4. CASE inbox[m] = "none"
    <3>1. RD!Apply(m)
      BY <1>3, <2>1, <2>2, <2>3, <2>4 DEF ReceiveFresh, RD!Apply, Withdrawn
    <3> QED BY <3>1 DEF RD!Next
  <2>5. CASE inbox[m] # "none"
    BY <1>3, <1>a, <2>1, <2>2, <2>5 DEF ReceiveFresh
  <2> QED BY <2>4, <2>5
<1>4. ASSUME NEW m \in Msgs, HandleAck(m)  PROVE [RD!Next]_(RD!vars)
  <2>1. /\ \A x \in Msgs \ {m} : rows'[x] = rows[x]
        /\ ~Stored(m)' /\ UNCHANGED inbox
    BY <1>4 DEF HandleAck, Stored, NoRow, receiverDB
  <2>2. CASE Stored(m)
    <3>0. status[m] \in {1, 2}
      BY <2>2 DEF RowIsPending
    <3>a. status' = [x \in Msgs |-> IF x \in {m} /\ status[x] # 0 /\ status[x] < 3
                                   THEN 3 ELSE status[x]]
      BY <1>4, <2>2 DEF HandleAck, StatusUp
    <3>b. status' = [x \in Msgs |-> IF x = m THEN 3 ELSE status[x]]
      BY <3>0, <3>a
    <3>c. status = [x \in Msgs |-> status[x]]
      OBVIOUS
    <3>1. status' = [status EXCEPT ![m] = 3] /\ status[m] \in {1, 2}
      BY <3>0, <3>b, <3>c
    <3>2. inbox[m] # "none"
      BY <1>4 DEF HandleAck, AnsweredIsApplied, Applied
    <3>3. Withdrawn' = Withdrawn /\ m \notin Withdrawn
      BY <2>1, <2>2, <3>1 DEF Withdrawn, Stored
    <3>4. RD!Confirm(m)
      BY <2>1, <3>1, <3>2, <3>3 DEF RD!Confirm, Withdrawn
    <3> QED BY <3>4 DEF RD!Next
  <2>3. CASE ~Stored(m)
    <3>1. UNCHANGED status
      BY <1>4, <2>3 DEF HandleAck
    <3>2. Withdrawn' = Withdrawn
      BY <2>1, <2>3, <3>1 DEF Withdrawn, Stored
    <3> QED BY <1>a, <2>1, <3>1, <3>2
  <2> QED BY <2>2, <2>3
<1>5. ASSUME NEW m \in Msgs, DeleteReceived(m)  PROVE RD!Delete(m)
  <2>1. UNCHANGED <<rows, status>>
    BY <1>5 DEF DeleteReceived, senderDB
  <2>2. Withdrawn' = Withdrawn
    BY <2>1 DEF Withdrawn, Stored
  <2> QED BY <1>5, <2>1, <2>2 DEF DeleteReceived, RD!Delete, Withdrawn
<1>6. ASSUME (\E p \in Peers : PurgePeer(p)) \/ FlushQuarantine  PROVE RD!Withdraw
  <2>1. UNCHANGED <<status, inbox>> /\ \A x \in Msgs : Stored(x)' => Stored(x)
    BY <1>6 DEF PurgePeer, FlushQuarantine, receiverDB, Stored, NoRow
  <2> DEFINE S == Withdrawn'
  <2>2. S \in SUBSET {m \in Msgs : status[m] \in {1, 2}} /\ Withdrawn' = Withdrawn \cup S
    BY <2>1 DEF Withdrawn
  <2> QED BY <2>1, <2>2 DEF RD!Withdraw, Withdrawn
<1>7. ASSUME NEW m \in Msgs,
             SendOk(m) \/ SendFailed(m) \/ ReceiveDup(m) \/ HandlerError(m) \/ Lose(m)
      PROVE  [RD!Next]_(RD!vars)
  <2>1. UNCHANGED <<rows, status, inbox>>
    BY <1>7 DEF SendOk, SendFailed, ReceiveDup, HandlerError, Lose, senderDB, receiverDB
  <2>2. Withdrawn' = Withdrawn
    BY <2>1 DEF Withdrawn, Stored
  <2> QED BY <1>a, <2>1, <2>2
<1>8. CASE Inner
  <2>1. Withdrawn' = Withdrawn
    BY <1>8 DEF Inner, Withdrawn, Stored
  <2> QED BY <1>8, <1>a, <2>1 DEF Inner
<1> QED BY <1>1, <1>2, <1>3, <1>4, <1>5, <1>6, <1>7, <1>8, StepKinds DEF RD!Next

\* The queue, the flush goroutine, the acks and the dedup window together keep
\* the promise of ReliableDelivery.
THEOREM KeepsPromise == Spec => ImplementsReliableDelivery
<1>1. Init => OnlyAccepted
  BY DEF Init, OnlyAccepted, Idle
<1>2. IInv /\ OnlyAccepted /\ [Next]_vars => OnlyAccepted'
  BY AcceptedStep
<1>3. IInv /\ OnlyAccepted /\ [Next]_vars => [RD!Next]_(RD!vars)
  BY RefineStep
<1> QED
  BY <1>1, <1>2, <1>3, RefineInit, IInvHolds, PTL
  DEF Spec, ImplementsReliableDelivery, RD!Spec
===========================================================================
