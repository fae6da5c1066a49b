----------------------------- MODULE Contacts -----------------------------
(***************************************************************************)
(* The circle of contacts (contact/manager.go) seen from one remote peer:  *)
(* the authoritative tables, the in-memory snapshot that the gate of the   *)
(* delivery loop and the checks of the commands read, and the goroutines   *)
(* that touch both.  Peers are kept apart by key everywhere in this code,  *)
(* so one peer is enough.                                                  *)
(*                                                                         *)
(* A transaction is one action and its AfterCommit hooks are another: they *)
(* run after the commit on the goroutine that committed, with no lock      *)
(* held, so the hooks of two transactions may run in either order          *)
(* (store/db.go, Tx).  Likewise a check of the snapshot and the            *)
(* transaction it guards are two actions.                                  *)
(*                                                                         *)
(* Abstractions.  The queue to the peer is the set of kinds of rows in it; *)
(* the texts that wait for a session are one flag; a session is            *)
(* "receiving" (a responder before its first message) or "ready".          *)
(* Handler errors, which roll everything back, aliases, and the tables of  *)
(* module group other than its rows in the queue are left out.             *)
(***************************************************************************)
EXTENDS Naturals, Sequences

CONSTANTS
  Users,        \* goroutines that run commands (ipc commandLoop, one per client)
  MaxRestarts   \* bound: restarts of the process

ASSUME UsersAssumption == "delivery" \notin Users
ASSUME MaxRestartsAssumption == MaxRestarts \in Nat

PeerState == {"none", "contact", "blocked"}
Rows == {"text", "init", "initack", "accept", "group"}
Reliable == {"text", "init", "initack", "request", "known"}   \* TypeContactAccept: known
Disk == [peer : PeerState, outbox : SUBSET Rows, pending : BOOLEAN,
         session : {"none", "receiving", "ready"}, handshake : BOOLEAN]

VARIABLES
  disk,      \* tables peers, outbox, pending_chat, sessions, handshakes
  snap,      \* Manager.states
  deliv,     \* the delivery loop and its frame; late: it came after Block returned
  user,      \* user[u]: the command u runs and how far it is
  hooks,     \* AfterCommit hooks that set the snapshot, in commit order
  stale,     \* history: the hook that ran last had been overtaken by a later one
  settled,   \* history: Block has returned and nothing undid it since
  alone,     \* history: nothing else was in flight during the last Block
  restarts

vars == <<disk, snap, deliv, user, hooks, stale, settled, alone, restarts>>

Idle == [pc |-> "idle", op |-> "none"]
NoFrame == [pc |-> "idle", frame |-> "none", late |-> FALSE]
NoPeer == [peer |-> "none", outbox |-> {}, pending |-> FALSE,
           session |-> "none", handshake |-> FALSE]

TypeOK ==
  /\ disk \in Disk
  /\ snap \in PeerState
  /\ deliv \in [pc : {"idle", "tx", "hook", "ack"},
                frame : Reliable \cup {"ack", "none"}, late : BOOLEAN]
  /\ user \in [Users -> [pc : {"idle", "tx", "hook"},
                         op : {"none", "add", "block", "unblock", "text"}]]
  /\ hooks \in Seq([owner : Users \cup {"delivery"}, sets : PeerState, passed : BOOLEAN])
  /\ {stale, settled, alone} \subseteq BOOLEAN
  /\ restarts \in 0..MaxRestarts

Init ==
  /\ disk = NoPeer /\ snap = "none"
  /\ deliv = NoFrame /\ user = [u \in Users |-> Idle] /\ hooks = <<>>
  /\ stale = FALSE /\ settled = FALSE /\ alone = FALSE
  /\ restarts = 0

-----------------------------------------------------------------------------
(* What the transactions do to the tables of the peer.                     *)

\* The snapshot NewManager builds from the table.
PeerList(d) == d.peer

\* Operators named Bug... are what their neighbour would be after a plausible
\* mistake; nothing uses them, each breaks a property of this module.
BugKnownBySnapshot(d) == IF snap # "contact" THEN [d EXCEPT !.peer = "contact"] ELSE d

\* EnsureKnownTx reads the table, not the snapshot.
EnsureKnown(d) == IF d.peer = "none" THEN [d EXCEPT !.peer = "contact"] ELSE d

Enqueue(d, kind) == [d EXCEPT !.outbox = @ \cup {kind}]

\* Purging the queue also empties the sealed_outbox of module group.
PurgePeer(d) == [d EXCEPT !.outbox = {}]

PendingChatAdd(d) == [d EXCEPT !.pending = TRUE]
PendingChatTake(d) == [d EXCEPT !.pending = FALSE]

SessionPut(d, s) == [d EXCEPT !.session = s]
SessionDelete(d) == [d EXCEPT !.session = "none"]
HandshakePut(d) == [d EXCEPT !.handshake = TRUE]
HandshakeDelete(d) == [d EXCEPT !.handshake = FALSE]

\* ensureHandshake: one unfinished handshake at a time.
EnsureHandshake(d) == IF d.handshake THEN d ELSE Enqueue(HandshakePut(d), "init")

\* drainPending of a session that can send.
Drain(d) == IF d.pending THEN Enqueue(PendingChatTake(d), "text") ELSE d

\* The handlers of the reliable envelopes: the tables one may leave behind.
OnContactRequest(d) == {Enqueue(d, "accept")}

\* EnsureKnownTx has run before the handler.
OnContactAccept(d) == {d}

OnChat(d) ==
  {EnsureHandshake(d)}                      \* does not decrypt
    \cup IF d.session = "none" THEN {} ELSE {Drain(SessionPut(d, "ready"))}

OnSessionInit(d) ==
  {Enqueue(HandshakeDelete(SessionPut(d, "receiving")), "initack")}
    \cup IF d.handshake THEN {d} ELSE {}   \* we win the collision

OnSessionInitAck(d) ==
  {d}                                       \* stale
    \cup IF d.handshake THEN {Drain(HandshakeDelete(SessionPut(d, "ready")))} ELSE {}

Handle(f, d) ==
  CASE f = "known"   -> OnContactAccept(d)
    [] f = "request" -> OnContactRequest(d)
    [] f = "text"    -> OnChat(d)
    [] f = "init"    -> OnSessionInit(d)
    [] f = "initack" -> OnSessionInitAck(d)

\* Block wipes everything that could still reach the peer.
Wipe(d) ==
  HandshakeDelete(SessionDelete(PendingChatTake(PurgePeer([d EXCEPT !.peer = "blocked"]))))

BugStrayRow(d) == [d EXCEPT !.outbox = @ \cup {"pending"}]

\* SendText: a text for a ready session is queued, others wait for one.
Text(d) ==
  IF d.session = "ready" THEN Enqueue(d, "text") ELSE EnsureHandshake(PendingChatAdd(d))

-----------------------------------------------------------------------------
(* The hooks.                                                              *)

Register(o, s) == hooks' = Append(hooks, [owner |-> o, sets |-> s, passed |-> FALSE])

\* o runs its hook: the hooks of earlier commits that still wait are passed.
RunHook(o) ==
  \E i \in DOMAIN hooks :
    /\ hooks[i].owner = o
    /\ snap' = hooks[i].sets
    /\ stale' = hooks[i].passed
    /\ hooks' = [j \in 1..Len(hooks) - 1 |->
                   IF j < i THEN [hooks[j] EXCEPT !.passed = TRUE] ELSE hooks[j + 1]]

-----------------------------------------------------------------------------
(* Commands.                                                               *)

Blocking == \E u \in Users : user[u].op = "block"
InFlight(u) == deliv.pc # "idle" \/ \E v \in Users \ {u} : user[v].pc # "idle"

BugSendToAnyone(op) ==
  \/ op = "add" /\ snap = "none"
  \/ op = "unblock" /\ snap = "blocked"
  \/ op \in {"text", "block"}

\* The check at the head of a command; Block has none.
Allowed(op) ==
  \/ op = "add" /\ snap = "none"
  \/ op = "unblock" /\ snap = "blocked"
  \/ op = "text" /\ snap # "blocked"
  \/ op = "block"

Check(u, op) ==
  /\ user[u].pc = "idle" /\ Allowed(op)
  /\ user' = [user EXCEPT ![u] = [pc |-> "tx", op |-> op]]
  /\ IF op = "block" THEN alone' = ~InFlight(u) /\ settled' = FALSE
                    ELSE alone' = (alone /\ ~Blocking) /\ UNCHANGED settled
  /\ UNCHANGED <<disk, snap, deliv, hooks, stale, restarts>>

\* AddByInvite, Unblock and Block: the transaction, its hook registered.
PutPeer(u, op, d, s) ==
  /\ user[u] = [pc |-> "tx", op |-> op]
  /\ disk' = d
  /\ Register(u, s)
  /\ user' = [user EXCEPT ![u].pc = "hook"]
  /\ UNCHANGED <<snap, deliv, stale, alone, restarts>>

AddByInvite(u) ==
  /\ PutPeer(u, "add", [disk EXCEPT !.peer = "contact"], "contact")
  /\ settled' = FALSE

Unblock(u) ==
  /\ PutPeer(u, "unblock", [disk EXCEPT !.peer = "none"], "none")
  /\ settled' = FALSE

Block(u) ==
  /\ PutPeer(u, "block", Wipe(disk), "blocked")
  /\ UNCHANGED settled

\* The hook, and the command returns.
Return(u) ==
  /\ user[u].pc = "hook"
  /\ RunHook(u)
  /\ user' = [user EXCEPT ![u] = Idle]
  /\ settled' = IF user[u].op = "block" THEN disk.peer = "blocked" ELSE settled
  /\ UNCHANGED <<disk, deliv, alone, restarts>>

SendText(u) ==
  /\ user[u] = [pc |-> "tx", op |-> "text"]
  /\ disk' = Text(disk)
  /\ user' = [user EXCEPT ![u] = Idle]
  /\ UNCHANGED <<snap, deliv, hooks, stale, settled, alone, restarts>>

\* A text to a group the peer is in: the fan-out of group/manager.go checks
\* no state of the peer.
GroupText ==
  /\ disk' = Enqueue(disk, "group")
  /\ UNCHANGED <<snap, deliv, user, hooks, stale, settled, alone, restarts>>

-----------------------------------------------------------------------------
(* The delivery loop: HandleInbound, one frame at a time.                  *)

\* Gate: a frame of a blocked peer is dropped, others go on.
Gate(f) ==
  /\ deliv.pc = "idle" /\ snap # "blocked"
  /\ deliv' = [pc |-> "tx", frame |-> f, late |-> settled]
  /\ alone' = (alone /\ ~Blocking)
  /\ UNCHANGED <<disk, snap, user, hooks, stale, settled, restarts>>

BugNoHook ==
  /\ deliv.pc = "tx" /\ deliv.frame \in Reliable
  /\ disk' \in Handle(deliv.frame, EnsureKnown(disk))
  /\ deliv' = [deliv EXCEPT !.pc = "ack"]
  /\ UNCHANGED <<snap, user, hooks, stale, settled, alone, restarts>>

\* A fresh reliable envelope: EnsureKnownTx (SetPreHandle in app/core.go),
\* then its handler, in one transaction.
DeliverFresh ==
  /\ deliv.pc = "tx" /\ deliv.frame \in Reliable
  /\ disk' \in Handle(deliv.frame, EnsureKnown(disk))
  /\ IF disk.peer = "none"
     THEN Register("delivery", "contact") /\ deliv' = [deliv EXCEPT !.pc = "hook"]
     ELSE UNCHANGED hooks /\ deliv' = [deliv EXCEPT !.pc = "ack"]
  /\ UNCHANGED <<snap, user, stale, settled, alone, restarts>>

DeliverDup ==   \* a duplicate is only acknowledged
  /\ deliv.pc = "tx" /\ deliv.frame \in Reliable
  /\ deliv' = [deliv EXCEPT !.pc = "ack"]
  /\ UNCHANGED <<disk, snap, user, hooks, stale, settled, alone, restarts>>

DeliverHook ==
  /\ deliv.pc = "hook"
  /\ RunHook("delivery")
  /\ deliv' = [deliv EXCEPT !.pc = "ack"]
  /\ UNCHANGED <<disk, user, settled, alone, restarts>>

SendAck ==
  /\ deliv.pc = "ack"
  /\ deliv' = NoFrame
  /\ UNCHANGED <<disk, snap, user, hooks, stale, settled, alone, restarts>>

HandleAck ==    \* OutboxSettle, or an ack of nothing we know
  /\ deliv.pc = "tx" /\ deliv.frame = "ack"
  /\ \E S \in SUBSET disk.outbox : disk' = [disk EXCEPT !.outbox = S]
  /\ deliv' = NoFrame
  /\ UNCHANGED <<snap, user, hooks, stale, settled, alone, restarts>>

\* NewManager of the next process loads the snapshot from the table.
Restart ==
  /\ restarts < MaxRestarts /\ restarts' = restarts + 1
  /\ deliv' = NoFrame /\ user' = [u \in Users |-> Idle] /\ hooks' = <<>>
  /\ snap' = PeerList(disk) /\ stale' = FALSE
  /\ UNCHANGED <<disk, settled, alone>>

-----------------------------------------------------------------------------
Next ==
  \/ \E u \in Users :
       \/ \E op \in {"add", "block", "unblock", "text"} : Check(u, op)
       \/ AddByInvite(u) \/ Unblock(u) \/ Block(u) \/ Return(u) \/ SendText(u)
  \/ GroupText
  \/ \E f \in Reliable \cup {"ack"} : Gate(f)
  \/ DeliverFresh \/ DeliverDup \/ DeliverHook \/ SendAck \/ HandleAck
  \/ Restart

Spec == Init /\ [][Next]_vars

-----------------------------------------------------------------------------
(* Properties.                                                             *)

\* Whatever the delivery loop does with a frame already past the gate, only
\* a command of the user lifts a block (comment of EnsureKnownTx).
OnlyUserLiftsBlock ==
  [][disk.peer = "blocked" /\ disk'.peer # "blocked" =>
       \E u \in Users : user[u].pc = "tx" /\ user[u].op \in {"add", "unblock"}]_vars

\* The snapshot is wrong at rest only when a hook was overtaken by the hook
\* of a later transaction: no operation forgets to update it.
SnapshotFollows == hooks = <<>> /\ ~stale => snap = disk.peer

\* A Block that nothing else overlapped is total until it is undone: the gate
\* is shut, nothing waits for the peer, no key material is left (comment of
\* Block), and no later command or frame brings any of it back; only texts to
\* a common group, which check nothing, are queued for the peer again.
UndisturbedBlockIsTotal ==
  settled /\ alone =>
    /\ snap = "blocked" /\ disk.peer = "blocked"
    /\ disk.outbox \subseteq {"group"} /\ ~disk.pending
    /\ disk.session = "none" /\ ~disk.handshake

\* All traffic of a blocked peer is dropped without an ack (comment of
\* Block): no frame that came after Block returned gets past the gate.
BlockIsSilent == deliv.late => ~settled
===========================================================================
