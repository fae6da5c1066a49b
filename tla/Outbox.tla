------------------------------ MODULE Outbox ------------------------------
(***************************************************************************)
(* The delivery layer of outbox/manager.go over the tables of              *)
(* store/migrate.go: one sending node (its queue, its flush goroutine, its *)
(* kick channel) and the receiving nodes' half of HandleInbound, joined by *)
(* a network that loses, duplicates and reorders.                          *)
(*                                                                         *)
(* A database transaction is one action: sqlite has one connection         *)
(* (store/db.go), so transactions and single reads are serialised.  A      *)
(* flush pass is several actions, because it reads the queue, sends        *)
(* without holding the database, and writes its results later.             *)
(*                                                                         *)
(* Abstractions.  next_at is the flag "due" (next_at <= now) and Elapse    *)
(* lets any backoff run out, so attempts, which only choose the length of  *)
(* a backoff, are left out.  The order by next_at inside a batch is left   *)
(* out: the network reorders anyway.  The kick channel holds a set of      *)
(* peers; a Flush may find it full whenever it is not empty.               *)
(***************************************************************************)
EXTENDS Naturals, FiniteSets

CONSTANTS
  Peers,      \* receiving nodes
  Msgs,       \* reliable envelopes; each is enqueued at most once
  Dest,       \* Dest[m]: the peer m is for
  Quiet,      \* envelopes whose producer never calls Flush (see Enqueue)
  MaxRowid,   \* bound: largest outbox.id
  DueBatch,   \* dueBatch: rows one read of the queue returns
  DedupCap,   \* dedupCap: entries a pruned dedup window keeps per peer
  MaxFaults,  \* bound: restarts, store errors and blocks of a peer
  MaxDamage   \* bound: rows damaged on disk

ASSUME DestAssumption == Dest \in [Msgs -> Peers]
ASSUME BoundsAssumption ==
  /\ MaxRowid \in Nat
  /\ DueBatch \in Nat \ {0}
  /\ DedupCap \in Nat \ {0}
  /\ MaxFaults \in Nat
  /\ MaxDamage \in Nat

None == 0
Queued == 1
Sent == 2
Delivered == 3
Status == None..Delivered

Rowid == 1..MaxRowid
Row == [id : 0..MaxRowid, due : BOOLEAN, intact : BOOLEAN]
NoRow == [id |-> 0, due |-> FALSE, intact |-> FALSE]

VARIABLES
  \* The sender's database.
  rows,       \* table outbox, by message (UNIQUE (peer, msg_id))
  status,     \* messages.status of the outgoing text
  \* The sender's goroutine Run and the callers of Flush.
  pc,         \* where Run is
  batch,      \* rows read by OutboxDue: ids and messages as they were then
  bad,        \* ids of undecryptable rows in that read
  result,     \* attemptResult of each message of the pass
  armed,      \* is the retry timer set while Run waits?
  kicks,      \* the kick channel
  toFlush,    \* producers that committed and have not yet called Flush
  \* The network and the receivers' databases.
  frames, acks,
  seen,       \* table dedup
  inbox,      \* table messages at the receiver
  \* History variables and fault budgets.
  purged,     \* unsettled rows removed by a block
  damaged,    \* rows that were damaged on disk
  left,       \* messages whose frame was handed to the network
  forgot,     \* dedup entries that were pruned
  twice,      \* messages whose handler committed more than once
  faults, damage

senderDB == <<rows, status>>
runVars == <<pc, batch, bad, result, armed>>
receiverDB == <<seen, inbox, forgot, twice>>
net == <<frames, acks>>
ghosts == <<purged, damaged, left>>
budgets == <<faults, damage>>
vars == <<senderDB, runVars, kicks, toFlush, net, receiverDB, ghosts, budgets>>

Stored(m) == rows[m].id # 0
Intact(m) == rows[m].intact
Due == {m \in Msgs : Stored(m) /\ rows[m].due}

TypeOK ==
  /\ rows \in [Msgs -> Row]
  /\ status \in [Msgs -> Status]
  /\ pc \in {"read", "quarantine", "send", "arm", "wait"}
  /\ batch \subseteq [id : Rowid, msg : Msgs]
  /\ bad \subseteq Rowid
  /\ result \in [Msgs -> {"none", "todo", "sent", "failed"}]
  /\ armed \in BOOLEAN
  /\ kicks \subseteq Peers
  /\ toFlush \subseteq Peers
  /\ frames \subseteq Msgs
  /\ acks \subseteq Msgs
  /\ seen \subseteq Msgs
  /\ inbox \in [Msgs -> {"none", "stored", "deleted"}]
  /\ purged \subseteq Msgs
  /\ damaged \subseteq Msgs
  /\ left \subseteq Msgs
  /\ forgot \subseteq Msgs
  /\ twice \subseteq Msgs
  /\ faults \in 0..MaxFaults
  /\ damage \in 0..MaxDamage

Idle == [m \in Msgs |-> "none"]

Init ==
  /\ rows = [m \in Msgs |-> NoRow]
  /\ status = [m \in Msgs |-> None]
  /\ pc = "read" /\ batch = {} /\ bad = {} /\ result = Idle /\ armed = FALSE
  /\ kicks = {} /\ toFlush = {}
  /\ frames = {} /\ acks = {}
  /\ seen = {} /\ inbox = [m \in Msgs |-> "none"] /\ forgot = {} /\ twice = {}
  /\ purged = {} /\ damaged = {} /\ left = {}
  /\ faults = 0 /\ damage = 0

-----------------------------------------------------------------------------
(* Operations of the store used by the actions.                            *)

\* sqlite gives a row of a table without AUTOINCREMENT the id after the
\* largest one present: the id of a deleted last row is given out again.
NextRowid(id) ==
  /\ \A m \in Msgs : rows[m].id < id
  /\ id = 1 \/ \E m \in Msgs : rows[m].id = id - 1

\* Operators named Bug... are what their neighbour would be after a plausible
\* mistake; nothing uses them, each breaks a property of this module.
BugStatusStep(S, s) == [m \in Msgs |-> IF m \in S THEN status[m] + 1 ELSE status[m]]
BugForgetSent(ids) == [m \in Msgs |-> IF rows[m].id \in ids THEN NoRow ELSE rows[m]]

\* MessageStatusUp for every message of S: raise, never lower.
StatusUp(S, s) ==
  [m \in Msgs |-> IF m \in S /\ status[m] # None /\ status[m] < s
                  THEN s ELSE status[m]]

\* OutboxAttempt for every id of ids: the next attempt is in the future.
Postpone(ids) ==
  [m \in Msgs |-> IF Stored(m) /\ rows[m].id \in ids
                  THEN [rows[m] EXCEPT !.due = FALSE] ELSE rows[m]]

\* OutboxKick: whatever waits for p is due now.
KickRows(p) ==
  [m \in Msgs |-> IF Stored(m) /\ Dest[m] = p
                  THEN [rows[m] EXCEPT !.due = TRUE] ELSE rows[m]]

\* Flush: a non-blocking send on the kick channel; when the channel is full,
\* which it can only be when it is not empty, the kick is dropped.
Kick(p) == kicks' = kicks \cup {p} \/ (kicks # {} /\ kicks' = kicks)

-----------------------------------------------------------------------------
(* Producers.                                                              *)

\* EnqueueTx in the producer's transaction, with the history record.  A
\* producer then calls Flush, except the handlers that enqueue from inside
\* the receive transaction: drainPending and ensureHandshake below onChat
\* and RegisterSealed (chat/manager.go) commit without a Flush.
Enqueue(m) ==
  /\ status[m] = None
  /\ \E id \in Rowid :
       /\ NextRowid(id)
       /\ rows' = [rows EXCEPT ![m] = [id |-> id, due |-> TRUE, intact |-> TRUE]]
  /\ status' = [status EXCEPT ![m] = Queued]
  /\ toFlush' = IF m \in Quiet THEN toFlush ELSE toFlush \cup {Dest[m]}
  /\ UNCHANGED <<runVars, kicks, net, receiverDB, ghosts, budgets>>

Flush(p) ==
  /\ p \in toFlush
  /\ toFlush' = toFlush \ {p}
  /\ Kick(p)
  /\ UNCHANGED <<senderDB, runVars, net, receiverDB, ghosts, budgets>>

\* Presence calls Flush when a contact comes online or stays silent.
PresenceKick(p) ==
  /\ Kick(p)
  /\ UNCHANGED <<senderDB, runVars, toFlush, net, receiverDB, ghosts, budgets>>

\* OutboxPurgePeer, part of the transaction that blocks p.
PurgePeer(p) ==
  /\ faults < MaxFaults /\ faults' = faults + 1
  /\ rows' = [m \in Msgs |-> IF Dest[m] = p THEN NoRow ELSE rows[m]]
  /\ purged' = purged \cup {m \in Msgs : Stored(m) /\ Dest[m] = p}
  /\ UNCHANGED <<status, runVars, kicks, toFlush, net, receiverDB, damaged, left, damage>>

-----------------------------------------------------------------------------
(* Run and flushDue: the one goroutine that sends the queue.               *)

FlushRead ==
  /\ pc = "read"
  /\ \E S \in SUBSET Due :
       /\ Cardinality(S) = IF Cardinality(Due) < DueBatch
                           THEN Cardinality(Due) ELSE DueBatch
       /\ batch' = {[id |-> rows[m].id, msg |-> m] : m \in {x \in S : Intact(x)}}
       /\ bad' = {rows[m].id : m \in {x \in S : ~Intact(x)}}
       /\ result' = [m \in Msgs |-> IF m \in S /\ Intact(m) THEN "todo" ELSE "none"]
       /\ pc' = IF \E m \in S : ~Intact(m) THEN "quarantine"
                ELSE IF S = {} THEN "arm" ELSE "send"
  /\ UNCHANGED <<senderDB, armed, kicks, toFlush, net, receiverDB, ghosts, budgets>>

\* OutboxDeleteByID of every undecryptable row, in a transaction of its own.
FlushQuarantine ==
  /\ pc = "quarantine"
  /\ rows' = [m \in Msgs |-> IF rows[m].id \in bad THEN NoRow ELSE rows[m]]
  /\ bad' = {}
  /\ pc' = IF batch = {} THEN "arm" ELSE "send"
  /\ UNCHANGED <<status, batch, result, armed, kicks, toFlush, net, receiverDB,
                 ghosts, budgets>>

\* The workers: peers concurrently, the messages of one peer one by one; the
\* first failure of a peer ends the pass for that peer.
PeerFailed(p) == \E m \in Msgs : Dest[m] = p /\ result[m] = "failed"
Sendable(m) == pc = "send" /\ result[m] = "todo" /\ ~PeerFailed(Dest[m])
AllTried == pc = "send" /\ \A m \in Msgs : ~Sendable(m)

SendOk(m) ==
  /\ Sendable(m)
  /\ frames' = frames \cup {m} /\ left' = left \cup {m}
  /\ result' = [result EXCEPT ![m] = "sent"]
  /\ UNCHANGED <<senderDB, pc, batch, bad, armed, kicks, toFlush, acks,
                 receiverDB, purged, damaged, budgets>>

\* An error is no proof that the frame stayed here: a timeout may come after
\* the network took it.
SendFailed(m) ==
  /\ Sendable(m)
  /\ \/ UNCHANGED <<frames, left>>
     \/ frames' = frames \cup {m} /\ left' = left \cup {m}
  /\ result' = [result EXCEPT ![m] = "failed"]
  /\ UNCHANGED <<senderDB, pc, batch, bad, armed, kicks, toFlush, acks,
                 receiverDB, purged, damaged, budgets>>

\* The results, one transaction: rows by the id read at the start of the
\* pass, statuses by message.  A full batch is followed by another read.
BugTried == {m \in Msgs : result[m] # "none"}
LeftNode == {m \in Msgs : result[m] = "sent"}

FlushRecord ==
  /\ AllTried
  /\ rows' = Postpone({b.id : b \in batch})
  /\ status' = StatusUp(LeftNode, Sent)
  /\ pc' = IF Cardinality(batch) < DueBatch THEN "arm" ELSE "read"
  /\ batch' = {} /\ result' = Idle
  /\ UNCHANGED <<bad, armed, kicks, toFlush, net, receiverDB, ghosts, budgets>>

\* OutboxNearest: with an empty queue no timer is set and only a kick wakes.
BugNearestDue == Due # {}
Nearest == \E m \in Msgs : Stored(m)

FlushArm ==
  /\ pc = "arm"
  /\ armed' = Nearest
  /\ pc' = "wait"
  /\ UNCHANGED <<senderDB, batch, bad, result, kicks, toFlush, net, receiverDB,
                 ghosts, budgets>>

WakeKick(p) ==
  /\ pc = "wait" /\ p \in kicks
  /\ kicks' = kicks \ {p}
  /\ rows' = KickRows(p)
  /\ pc' = "read" /\ armed' = FALSE
  /\ UNCHANGED <<status, batch, bad, result, toFlush, net, receiverDB, ghosts, budgets>>

WakeTimer ==
  /\ pc = "wait" /\ armed
  /\ pc' = "read" /\ armed' = FALSE
  /\ UNCHANGED <<senderDB, batch, bad, result, kicks, toFlush, net, receiverDB,
                 ghosts, budgets>>

\* A store error drops the pass; Run retries after retryBase.  A failed
\* OutboxKick loses the kick and goes on to the next pass.
StoreFault ==
  /\ faults < MaxFaults /\ faults' = faults + 1
  /\ \/ /\ pc \in {"read", "quarantine", "arm"} \/ AllTried
        /\ pc' = "wait" /\ armed' = TRUE
        /\ UNCHANGED kicks
     \/ /\ pc = "wait"
        /\ \E p \in kicks : kicks' = kicks \ {p}
        /\ pc' = "read" /\ armed' = FALSE
  /\ batch' = {} /\ bad' = {} /\ result' = Idle
  /\ UNCHANGED <<senderDB, toFlush, net, receiverDB, ghosts, damage>>

-----------------------------------------------------------------------------
(* Receiving.  A frame or an ack stays in the network until Lose drops it: *)
(* it may be delivered any number of times.                                *)

\* handleReliable of a message outside the dedup window: mark it seen, prune
\* the window now and then, run the handler, all in one transaction; then
\* answer.  Entries leave the window by age or by DedupCap; the one just
\* written is the newest (the clock does not run backwards) and stays.
\* InsertMessage leaves an existing record alone.
BugAlwaysFresh(m) == m \in frames
Fresh(m) == m \in frames /\ m \notin seen

ReceiveFresh(m) ==
  /\ Fresh(m)
  /\ \E V \in SUBSET {x \in seen : Dest[x] = Dest[m]} :
       /\ V # {} =>
            Cardinality({x \in seen \ V : Dest[x] = Dest[m]}) < DedupCap
       /\ seen' = (seen \ V) \cup {m}
       /\ forgot' = forgot \cup V
  /\ inbox' = IF inbox[m] = "none" THEN [inbox EXCEPT ![m] = "stored"] ELSE inbox
  /\ twice' = IF inbox[m] = "none" THEN twice ELSE twice \cup {m}
  /\ acks' \in {acks, acks \cup {m}}           \* sendAck may fail, or a crash precede it
  /\ UNCHANGED <<senderDB, runVars, kicks, toFlush, frames, ghosts, budgets>>

\* A duplicate runs no handler and is acknowledged again.
BugSilentDup(m) ==
  /\ m \in frames /\ m \in seen
  /\ UNCHANGED vars

ReceiveDup(m) ==
  /\ m \in frames /\ m \in seen
  /\ acks' \in {acks, acks \cup {m}}
  /\ UNCHANGED <<senderDB, runVars, kicks, toFlush, frames, receiverDB, ghosts, budgets>>

\* The handler fails: everything rolls back and no ack leaves.
BugDedupSurvives(m) ==
  /\ Fresh(m)
  /\ seen' = seen \cup {m}
  /\ UNCHANGED <<senderDB, runVars, kicks, toFlush, net, inbox, forgot, twice,
                 ghosts, budgets>>

HandlerError(m) ==
  /\ Fresh(m)
  /\ frames' = frames \ {m}
  /\ UNCHANGED <<senderDB, runVars, kicks, toFlush, acks, receiverDB, ghosts, budgets>>

\* handleAck: OutboxSettle, and the status only if a row was settled.
BugAckUnsettled(m) ==
  /\ m \in acks
  /\ rows' = [rows EXCEPT ![m] = NoRow]
  /\ status' = StatusUp({m}, Delivered)
  /\ UNCHANGED <<runVars, kicks, toFlush, net, receiverDB, ghosts, budgets>>

HandleAck(m) ==
  /\ m \in acks
  /\ rows' = [rows EXCEPT ![m] = NoRow]
  /\ status' = IF Stored(m) THEN StatusUp({m}, Delivered) ELSE status
  /\ UNCHANGED <<runVars, kicks, toFlush, net, receiverDB, ghosts, budgets>>

\* chat.Delete at the receiver: the record stays, its content goes.
DeleteReceived(m) ==
  /\ inbox[m] = "stored"
  /\ inbox' = [inbox EXCEPT ![m] = "deleted"]
  /\ UNCHANGED <<senderDB, runVars, kicks, toFlush, net, seen, forgot, twice,
                 ghosts, budgets>>

-----------------------------------------------------------------------------
(* The environment.                                                        *)

Lose(m) ==
  /\ \/ m \in frames /\ frames' = frames \ {m} /\ UNCHANGED acks
     \/ m \in acks /\ acks' = acks \ {m} /\ UNCHANGED frames
  /\ UNCHANGED <<senderDB, runVars, kicks, toFlush, receiverDB, ghosts, budgets>>

Elapse(m) ==   \* the backoff of m's row runs out
  /\ Stored(m) /\ ~rows[m].due
  /\ rows' = [rows EXCEPT ![m].due = TRUE]
  /\ UNCHANGED <<status, runVars, kicks, toFlush, net, receiverDB, ghosts, budgets>>

\* The sending process stops anywhere and starts again: only the database
\* is left.
Restart ==
  /\ faults < MaxFaults /\ faults' = faults + 1
  /\ pc' = "read" /\ batch' = {} /\ bad' = {} /\ result' = Idle /\ armed' = FALSE
  /\ kicks' = {} /\ toFlush' = {}
  /\ UNCHANGED <<senderDB, net, receiverDB, ghosts, damage>>

Damage(m) ==   \* frame_ct of the row no longer decrypts
  /\ damage < MaxDamage /\ damage' = damage + 1
  /\ Stored(m) /\ Intact(m)
  /\ rows' = [rows EXCEPT ![m].intact = FALSE]
  /\ damaged' = damaged \cup {m}
  /\ UNCHANGED <<status, runVars, kicks, toFlush, net, receiverDB, purged, left, faults>>

-----------------------------------------------------------------------------
Producers ==
  \/ \E m \in Msgs : Enqueue(m)
  \/ \E p \in Peers : Flush(p) \/ PresenceKick(p) \/ PurgePeer(p)

Run ==
  \/ FlushRead \/ FlushQuarantine \/ FlushRecord \/ FlushArm \/ WakeTimer
  \/ \E m \in Msgs : SendOk(m) \/ SendFailed(m)
  \/ \E p \in Peers : WakeKick(p)

Inbound ==
  \E m \in Msgs :
    ReceiveFresh(m) \/ ReceiveDup(m) \/ HandlerError(m) \/ HandleAck(m) \/ DeleteReceived(m)

Environment ==
  \/ \E m \in Msgs : Lose(m) \/ Elapse(m) \/ Damage(m)
  \/ StoreFault \/ Restart

Next == Producers \/ Run \/ Inbound \/ Environment

Spec == Init /\ [][Next]_vars

(***************************************************************************)
(* Fairness.  Run is one goroutine that is always scheduled, producers     *)
(* that committed go on to Flush, and time passes: weak fairness.  Strong  *)
(* fairness for what the environment may refuse any number of times but    *)
(* not for ever: a peer that can be reached now and then, frames and acks  *)
(* that are not all lost, and, because OutboxDue returns the rows with the *)
(* oldest next_at first, a due row that is part of some batch.  Nothing is *)
(* assumed of the rows of a receive transaction, which share the queue,    *)
(* the batches and the failures of their peer with the others, nor of      *)
(* presence.                                                               *)
(***************************************************************************)
ReadIncludes(m) == FlushRead /\ result'[m] = "todo"
Answered(m) == (ReceiveFresh(m) \/ ReceiveDup(m)) /\ m \in acks'

Fairness ==
  /\ WF_vars(Run)
  /\ \A p \in Peers : WF_vars(Flush(p))
  /\ \A m \in Msgs \ Quiet :
       /\ WF_vars(Elapse(m))
       /\ SF_vars(ReadIncludes(m)) /\ SF_vars(SendOk(m))
       /\ SF_vars(Answered(m)) /\ SF_vars(HandleAck(m))

FairSpec == Spec /\ Fairness

-----------------------------------------------------------------------------
(* Properties.                                                             *)

\* "Delivered" is an honest signal (store/message.go): the receiver has
\* committed the message before any ack, duplicate or late one included, can
\* settle its row.
DeliveredIsReal == \A m \in Msgs : status[m] = Delivered => inbox[m] # "none"

\* "Sent" is honest too (app/core.go, sendQueued): the frame has left the
\* node, however the result transaction races acks, restarts and new rows.
SentIsReal == \A m \in Msgs : status[m] \in {Sent, Delivered} => m \in left

\* A restart, a rolled back handler, a lost frame or a lost ack loses no
\* message: one not yet delivered has its row, unless its peer was blocked.
NothingLost ==
  \A m \in Msgs : status[m] \in {Queued, Sent} => Stored(m) \/ m \in purged

\* A handler commits twice for one message only if the dedup window had
\* forgotten the message in between (outbox/manager.go, dedupCap).
ExactlyOnce == twice \subseteq forgot

\* No lost wake-up between OutboxNearest and the select of Run: when Run
\* sleeps without a timer and without a kick, every row in the queue has a
\* producer that is still on its way to Flush.
NoStrandedRow ==
  (pc = "wait" /\ ~armed /\ kicks = {}) =>
    \A m \in Msgs \ Quiet : Stored(m) => Dest[m] \in toFlush

\* A queued message whose producer calls Flush after its commit is delivered in
\* the end, unless its peer is blocked or its row is damaged (outbox/manager.go,
\* Flush and Run).  It is false for the rows that the handlers enqueue inside the
\* receive transaction (chat/manager.go:86, 235, 241, 272): nobody calls Flush,
\* and the timer of which its comment says that it catches up may not be set.
EventuallyDelivered ==
  \A m \in Msgs \ Quiet :
    status[m] = Queued ~> status[m] = Delivered \/ m \in purged \cup damaged

\* The detailed layer keeps the promise: a message is withdrawn when it has
\* left the queue without an ack.
RD == INSTANCE ReliableDelivery WITH
  withdrawn <- {m \in Msgs : status[m] \in {Queued, Sent} /\ ~Stored(m)}
ImplementsReliableDelivery == RD!Spec
===========================================================================
