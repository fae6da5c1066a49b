# A formal model of molva

Molva is a peer-to-peer messenger in Go on top of the overlay network
`nodenet`. Each node keeps everything in one sqlite database and talks to its
peers in small *envelopes*. This directory holds TLA+ modules for the parts of
it whose correctness is hard to see from tests, the TLC configurations that
check them on small instances, and theorems that TLAPS proves for every
instance. `PROJECT.json` maps every definition to the lines it models.

## 1. Inventory

The components, bottom up. "Hard" names what a unit test would hardly reach.

| component | state | operations | interacts by | hard |
|---|---|---|---|---|
| `store` | sqlite tables; one connection, so transactions are serial | `Tx`, `AfterCommit`, typed reads and writes | called by everybody; hooks run after the commit, unlocked | hooks of two transactions in either order; rowid reuse; clamped counters |
| `outbox` | tables `outbox`, `dedup`, `messages.status`; kick channel; retry timer | `EnqueueTx`, `Flush`, `Run`/`flushDue`, `HandleInbound` | producers enqueue in their own transaction; handlers run in the dedup transaction; acks over the network | lost, duplicated, late acks; a crash or a store error between send and record; lost wake-ups |
| `contact` | table `peers`, in-memory snapshot | `AddByInvite`, `EnsureKnownTx`, `Block`, `Unblock`, `Gate` | gate and pre-handler of the outbox; `canSend` of chat; commands of ipc | a check against the snapshot and the transaction it guards are apart; hook order |
| `contact` presence | `lastSeen`, `isOnline` | probe tick, `markActivity`, `sweep`, `forget` | kicks the outbox; callback to ipc; read by `ListChats` | callbacks outside the lock may be reordered; a sign of life expires before `sweep` looks |
| `chat` | tables `sessions`, `handshakes`, `pending_chat` | `SendText`, `SendSealed`, `onChat`, `onSessionInit`, `onSessionInitAck` | outbox handlers; `ratchet` | colliding and overtaking handshakes, healing, texts that wait |
| `ratchet` | chains, skipped keys (Double Ratchet) | `Encrypt`, `Decrypt`, handshake halves | loaded and saved inside chat's transactions | out-of-order across DH steps, `MaxSkip` |
| `senderkey`, `group` | groups, members, sender keys, `sealed_outbox` | `Create`, `Add`, `Remove`, `SendText`, five handlers, `flushSealed` | fan-out through outbox, keys through `SendSealed` | membership, keys and messages overtake each other; at-least-once sealed queue |
| `callsig` | the current call, in memory | `Start`, `Accept`, `Reject`, `Hangup`, three handlers, delayed offer | sealed payloads; events to app and ipc | memory changed inside a transaction, glare, events out of order |
| `media` | bridge session and generation, adapter ladder, reassembler slots | `Attach`, `Detach`, `pump`, `Push`, `Tick` | driven by `app.Core` on call events, which come after the unlock | a path that attaches after its call has ended; an end that detaches the next call's path |
| `blob` | table `files`, part files, pulls | `Offer`, `onManifest`, chunk requests, `finishPull`, `DeleteFile` | manifest sealed, chunks unreliable | crash between rename and record, deletion under a pull |
| `ipc` | active client, its command and event queues | attach, command loop, push, idle watch | calls every manager; one command loop per client; resync of the call on attach | two clients' commands overlap; full queues; events that cross the resync |
| `app` | the wiring | `Run`: the single delivery loop; `openMedia`, `onMediaClosed`, the loop of inbound sessions | everything | check-then-attach of media |
| `ui` | the page's call bar and list of online contacts | reconnects, requests, handlers of events | one socket to ipc | what it shows is a copy |
| `envelope`, `contact` invite, `mnemonic` | none | codecs | | boundaries |
| `cmd/molvad`, `proto` | process, generated code | I/O | | not modelled |

What makes each correct, in one line: *outbox*: a message accepted is applied
exactly once and reported honestly; *contact*: a block is total and only the
user lifts it; *chat*: two nodes agree on a session and no text is lost without
a trace; *ratchet*: what was encrypted decrypts, once, in any order within
bounds; *group*: a removed member reads nothing new, members converge on
membership and keys; *callsig*/*media*: both sides agree on whether a call is
on, and no media outlives it; *blob*: a finished file is the promised file;
*ipc*: the active client can rebuild the state it shows.

`PROJECT.json` "hazards" lists the places where these can go wrong.

## 2. Modules

| module | models |
|---|---|
| `ReliableDelivery` | what the delivery layer promises, with no mechanism |
| `Outbox` | `outbox/manager.go` over its tables: one sender, its receivers, the network |
| `Contacts` | `contact/manager.go` and everything that reads or writes the state of one peer |
| `Session` | `chat/manager.go`: two nodes and their handshakes |
| `Ratchet` | `ratchet`: one session of the Double Ratchet between two nodes |
| `Calls` | `callsig/manager.go`: two nodes, their current calls, and the delayed offer |
| `Group` | `group/manager.go` and `senderkey`: one group, its admin and its members |
| `Blob` | `blob/manager.go`: one file from its offer to its record, and its deletion |
| `Ipc` | `ipc/server.go` and the page: connections, queues, the loop of commands, events |
| `Presence` | `contact/presence.go`: signs of life, `sweep`, what the page reads; extends `Ipc` |
| `Media` | `callsig` as one node's core uses it, and `media/bridge.go`; extends `Ipc` |
| `Desk` | `app/core.go`: `Ipc`, `Presence`, `Media` and the delivery loop composed |
| `MCOutbox`, `MCContacts`, `MCSession`, `MCRatchet`, `MCCalls`, `MCGroup`, `MCBlob`, `MCDesk` | the instances TLC checks |
| `OutboxProofs`, `ContactsProofs`, `SessionProofs`, `RatchetProofs`, `CallsProofs`, `GroupProofs`, `BlobProofs`, `DeskProofs` | theorems |

**Outbox.** A transaction is one action. A flush pass is several, because
`flushDue` reads the queue (`FlushRead`), sends without holding the database
(`SendOk`, `SendFailed`) and records results later by the *rowid* it read
(`FlushRecord`); everything else may happen in between. `NextRowid` gives out
ids as sqlite does without AUTOINCREMENT, so a rowid can change its owner
inside a pass. `Run` is the program counter `pc`: read, quarantine, send, arm,
wait. `Nearest` decides whether the timer is armed; `kicks` is the channel,
`toFlush` the producers between their commit and their `Flush`. `StoreFault`
is any failed database call of `Run`, `Restart` a crash anywhere. The receiver's
half is `ReceiveFresh`, `ReceiveDup`, `HandlerError`; a frame or an ack stays in
the network until `Lose` drops it, which covers loss, duplication and reordering.
History variables (`left`, `forgot`, `twice`, `purged`, `damaged`) only record.

**ReliableDelivery** is the abstract specification. `Outbox` implements it under
the mapping "withdrawn = queued or sent, and no longer in the queue"
(`ImplementsReliableDelivery`): a settled ack is the only way to "delivered", a
late ack of a purged row confirms nothing, a duplicate applies nothing.

**Contacts** looks at one remote peer. Commands are `Check` (the test of the
snapshot), a transaction, and `Return` (the hook); the delivery loop is `Gate`,
`DeliverFresh`/`DeliverDup`, `DeliverHook`, `SendAck`. `hooks` is the sequence of
committed but not yet run hooks and notes when one is overtaken. `Handle` lists
what the handlers of chat leave in the tables of the peer. `GroupText` is the
one command that checks nothing.

**Session** has the two nodes' tables, the envelopes in flight, and one action
per handler. It stands on the result of `Outbox`: every envelope is handled
exactly once, in any order. A session is its sid; an item decrypts under the
same sid. The smaller NodeID is node 1. `Reset` is a block followed by an unblock.

**Ratchet** is what `Session` takes as "the same sid decrypts". Keys are symbolic: a root key is the sequence of
Diffie-Hellman values that went into it, a chain key the root step that opened the chain and how often it was
hashed, a message key the chain key it comes from, and a ciphertext the key that opens it; so two keys are
equal exactly when the code derives them from the same values in the same order. `Decrypt` is
`takeSkipped`, or `skipTo` to the old chain's end, `dhRatchet` and `skipTo` to the message; when a limit or a
wrong key is in the way it is `DecryptFails`, which eats the message and throws the state away.
The order in which skipped keys were put aside, which decides which of them is dropped, is read off the keys (`Later`).

**Calls** separates what the code separates: a command changes the current call under
its mutex and sends afterwards (`cmd` is what it has yet to send); a handler changes the
call inside a transaction that may still roll back (`RolledBack` keeps the memory and
leaves the envelope in the net), and a refused offer is answered by a hook after the
commit (`busy`). `waiter` is the program counter of `offerWhenReady`. Calls stand on
the results of `Outbox` (handled exactly once, in any order) and `Session` (a node can
send or cannot yet). A call lives on, as an ended record, in `call` after it is no
longer current, because `offerWhenReady` holds a pointer to it. `spoiled` marks calls that
a fault touched.

**Group** has, for each node, its row of the group (`rec`: version and members) and its
rows of `sender_keys` (`keys`; the diagonal is a node's own `Sender`). A sender key
is the number it has among those its owner has made, and the index its chain stands at:
generations may repeat after a removal, keys do not. Commands and handlers are single transactions.
`queue` is `sealed_outbox`; `FlushSealed` moves the payloads of one peer to the net and
`FlushFails` sends one without deleting its row. `Refused` lists the handler errors that leave an
envelope in the net to be tried again; everything else in the net is handled once, in any order.
`ApplyMembership` is the heart: who is gone, who is new, and whether the own key is
replaced or given away. `After` is `Receiver.Decrypt` with its skipped keys.

**Blob** follows one file. `pull` is the entry of `pulls` that only the goroutine `Run` touches, with the content of
its open file (`data`); `linked` says whether that file is still the .part on the disk, which a rename or a deletion
ends. `pc` is where `Run` is inside `finishPull`, between the hash, the rename and the transaction; a deletion is
`DeleteStart`, `DeleteRow` and `DeleteFiles`, beside it. A chunk is known by its version: the promised one, or the one
the sender's file has after an `Edit`. `Saves` may fail, as the code only counts such failures. `torn` records that a
rename was not followed by its record.

**Desk** is one node at its user's desk. Where `Calls` asks whether two nodes agree, `Desk` asks whether one node agrees
with itself: the call manager, the bridge's session, and what the page shows. It keeps apart what the code does under a
lock and what it does after it. A change of the call or of the presence (`Put`, `SignOfLife`, `Sweep`) makes an event;
`out[g]` is the event that goroutine `g` has yet to emit, or has emitted and has yet to act on (`Act`: the observer in
`app.New`, which opens a session for a call of ours or detaches the bridge); a loop of commands is `job`: `Mutate`, `Sent`,
`Tell`, `Reply`. `openMedia` is `opening`, then `Opened` looks at the current call, then `AttachOpened` attaches; the session
of the other side is `inbound`, in the same two steps; `dying` is a session whose pump has dropped it and has yet to call
`onMediaClosed`. A connection goes through `Open`, `Swap` (the new client becomes active), `ResyncRead` and `ResyncPush` (attach reads
the current call, then pushes it); `Push` drops what does not fit. `view` is what the page shows; `Receive` applies one frame to it.
The other side's call manager, which `Calls` has, is whatever it could send (`Sendable`). History variables say what a property
excepts: `blur` (the page may have missed, or met in the wrong order, news of the call or of the presence), `torn`, `raced`, `stray`.

Operators named `Bug...` stand beside some definitions: what the neighbour would
be after a plausible mistake. No specification uses them; each is known to break
a property, which shows that the property depends on that code.

## 3. Runs

| run | expects | shows |
|---|---|---|
| `outbox_safety` | pass | types, `DeliveredIsReal`, `SentIsReal`, `NothingLost`, `ExactlyOnce`, `NoStrandedRow` |
| `outbox_live` | pass | `EventuallyDelivered`, and the refinement of `ReliableDelivery` |
| `contacts_safety` | pass | types, `SnapshotFollows`, `UndisturbedBlockIsTotal`, `OnlyUserLiftsBlock`; no deadlock |
| `contacts_silence` | violation of `BlockIsSilent` | finding 1 |
| `session_safety` | pass | types, `WinnerIsAnswered`, `ItemInOneCopy`, `OneWayIsRead` |
| `session_collision` | violation of `CollisionEndsInOneSession` | finding 2 |
| `ratchet_safety` | pass | types, `InWindowIsRead`, `UsedIsForgotten`, `KeyOnce`, `SkippedFits` |
| `calls_safety` | pass | types, `CallerIsServed`, `ActiveWasAccepted`, `EndIsFinal` |
| `group_safety` | pass | types, `AudienceOnly`, `EatenIsReplaced`, `MembershipSettles`, `MembersCanTalk` |
| `group_return` | violation of `ReturnedCanTalk` | finding 3 |
| `blob_transfer` | pass | types, `DoneIsPromised`, `BitmapIsBacked`, `DeletedStaysDeleted`, `EventuallyReceived` |
| `desk_safety` | pass | types, `CallBarFollows`, `PresenceFollows`, `MediaIsComing`, `NoStraySession` |

Bounds, and why they suffice to make the interesting cases happen:

* `outbox_safety`: two messages to one peer share its batch, its failure, its
  dedup window and the rowids 1..2; a batch of two is full, so the pass repeats;
  `DedupCap = 1` makes the second message evict the first; `MaxFaults = 1` allows
  one restart, store error or block at any point. One of the two is a row of a
  receive transaction (`Quiet`), which its producer does not `Flush`; so the messages
  are not interchangeable and there is no symmetry. The view `SafeView` leaves out whether a text in the inbox was
  erased since, which no other action and no property of the run reads.
* `outbox_live`: two messages to one peer, one of them `Quiet`, so that a row nobody flushes shares
  the queue, the peer and a batch of one with a row that must arrive; one fault, one damaged row. One bound
  belongs to this run alone: `TroubleOrQuiet` keeps a fault or a damaged row and the `Quiet` row out of one and the same
  behaviour; each alone is explored in full, and `outbox_safety` has a fault and the `Quiet` row together. The view `LiveView`
  leaves out what no action and neither property of this run reads: the histories `left`, `forgot` and `twice`, the end of a
  `Quiet` row, and whether the inbox text was erased.
* `contacts_safety`: two clients, so that commands overlap each other and the
  delivery loop; one restart, to show that the snapshot is reloaded. The two
  clients are interchangeable.
* `session_safety`: three texts and a service payload, both nodes writing, so
  that handshakes collide, overtake and heal; one reset. sids are fresh
  numbers, bounded because every handshake is started by one of finitely many
  items or by one that failed to decrypt.
* `ratchet_safety`: `MaxSkip = 2` and nine messages, so that a gap reaches over a turn of the ratchet, keys of
  two chains are put aside together, the oldest is dropped, and a gap beyond the limit is refused. Either
  side turns the ratchet several times. `InWindowIsRead` has its boundary at `MaxSkip + 1` messages under way to one
  node; with one more it is false.
* `calls_safety`: two calls that either node may start are what a glare collision, a
  refusal as busy and an answer meeting another current call need; one fault.
  Call ids are interchangeable.
* `blob_transfer`: two chunks asked one by one, so that there is a next window and a file half received, which is saved
  after its first chunk; requests are repeated by the tick and chunks arrive late, twice or never; two faults, so that
  a restart may meet a record or a deletion that failed before. No symmetry, since the run checks liveness.
* `group_safety`: three nodes, so that a member other than the admin replaces its key and
  gives it to another; four versions, so that both members are added and one is removed and
  added again; two messages or payloads sent twice, so that one message is read ahead of
  another (`MaxSkip` is as large, since nobody sends more) or a removal and a repeated
  payload cross. The members other than the admin are interchangeable. `group_return` needs
  the admin, one member and four versions.
* `desk_safety`: two connections, so that one replaces the other while its loop still runs a command; a call of ours
  and one of the other side, so that the events of one meet the other; a send queue of two, which drops, and a command queue of one,
  which refuses. `MaxInputs` counts what comes from outside: clicks, envelopes, silences and the fault; three of them are what it takes to
  have a call set up, its path attached and either its end or its loss race with what follows. Everything inside runs on without a
  bound. One contact is enough, since presence is kept per contact, and one peer for both calls is the worst case for
  `NoStraySession`'s look at the peer alone. The connections are interchangeable.

Deadlock is checked where the system never stops (`contacts_*`). An outbox with
nothing to do and no faults left, two nodes that have said everything, two nodes whose calls are over, a group
whose bounds are used up, a file that was received, and a desk nobody sits at do stop.

Fairness. `Run` is a goroutine that is always scheduled, a producer that has
committed reaches its `Flush`, time passes: weak fairness. A peer that is
reachable now and then, a network that does not lose every copy, and a due row
that is part of some batch (`OutboxDue` orders by `next_at`): strong fairness,
per message whose producer calls `Flush`. The steps of `Run` exclude one another, so they have one
condition. Nothing is assumed of the rows of receive transactions, of faults, of presence or of producers. In
`Session` the only assumption is that envelopes in flight are handled; nobody is obliged to write. For
envelopes whose producer calls `Flush` this is what `outbox_live` shows; for those a handler enqueues (handshakes,
drained texts) it takes a kick besides, by another write or by presence, which `Outbox` does not promise. In `Blob`, the delivery loop, `Run`, an `Offer` and a deletion once begun go on
(weak); the tick finds the peer online again and again, and of the requests and chunks repeated for ever not all
are lost (strong, per chunk).

Some properties are conditional. `EventuallyDelivered` and `NoStrandedRow` speak of messages whose
producer calls `Flush` (`Msgs \ Quiet`). For the rows that a receive transaction enqueues (chat/manager.go:86, 235, 241, 272)
`EventuallyDelivered` is false, even with the same fairness for them: `Run` finds the queue empty and sleeps without a timer,
the handler commits its row, and if nobody writes and presence is silent, `Run` sleeps on. TLC finds that behaviour
when the quantifier is over `Msgs`. `UndisturbedBlockIsTotal` speaks of a
Block with nothing else in flight (`alone`); without the condition it is false, as
`contacts_silence` shows. `SnapshotFollows` excludes overtaken hooks (`stale`). `WinnerIsAnswered` and `OneWayIsRead` exclude blocks
(`Undisturbed`): a block between an init and its answer leaves the handshake of the
smaller node without an answer for ever; from then on it refuses every init of the other
side, until it blocks and unblocks that side itself. `CallerIsServed` speaks of moments at which nothing
is under way (`AtRest`), since the nodes agree only then, and of calls no fault touched: an
answer whose send fails, or a restart, leaves one side in a call the other does not know, and no code repairs it.
`MembershipSettles` and `MembersCanTalk` speak of moments at which the sealed queue is empty and the net
holds only envelopes their handlers refuse (`AtRest`): a message or a key of a member that has been removed meanwhile is
refused by the others for ever, so its sender retries it for ever. `MembersCanTalk` excludes members
that were removed before (`former`); for them it is false, as `group_return` shows.
`EatenIsReplaced` says when a message is thrown away: if its sender has replaced its key before the message is handled.
The code does not resend it. It excludes senders that were removed before (`former`), for which it is false, as the search for
a proof showed and TLC confirms with three nodes and `MaxVersion` 7: a removed node deletes its own
key (`applyMembership`, group/manager.go:704-708), and on its return `rekeyTx` counts its generations from one
again (group/manager.go:338-346); a receiver that never saw the removal still holds an old key of that or a higher generation, takes the current
one for old, and eats what is encrypted under it. This is another face of what `group_return` shows.
`CallBarFollows` and `PresenceFollows` speak of moments when the page's connection is served and no news is on its way to it
(`Quiet`), and exclude what the code does not repair (`blur`): an event dropped at a full queue, an end of a call that makes no
event (a send that fails, a transaction that rolls back), and two goroutines that have news of the same thing at once, whose
order nothing keeps. A new connection clears the blur of the call, and a list of the contacts that of the presence, unless
news cross it. `MediaIsComing` excludes a call whose path did not open, which nobody tries again, or whose accepting answer the
transaction of its envelope took back (both `torn`), and one whose session the end of another
call has detached. `NoStraySession` excludes a session whose call ended between the look and the attach (`raced`); such a
session stays on the bridge until another end or its own death.
`BitmapIsBacked` and `EventuallyReceived` exclude a rename that was not recorded (`torn`), after which they are false; see
section 4. `EventuallyReceived` also excludes what gives the transfer up: a deletion, a withdrawn or edited file.

## 4. Findings

1. `contacts_silence`. A stranger's first frame commits, `Block` commits and returns, then
   the frame's hook writes "contact" into the snapshot: the gate is open for a blocked peer until a restart.
2. `session_collision`. A loser's init that arrives after the winner has finished replaces the
   live session, while the loser stays in the old one: the next text is eaten and shown delivered.
3. `group_return`. A removed member keeps its row of the group but not its own key. Added again, it takes the
   welcome for an update: the keys in it are ignored, no new own key is made, and the admin sends it none. It
   can neither write nor read the admin.

Met on the way, without a run:

* In `Calls`, a hangup handled before its offer is dropped as stale, and the offer then rings at the callee with nobody
  calling. The same happens when the winner of a collision hangs up before the loser's offer arrives.
* In `Media`, the comment of `openMedia` (app/core.go:185) says that a path that did not open is tried again by the next
  `onMediaClosed` or hangup; but without a session there is no death of one, and a hangup ends the call: the
  call stays active without media (`OpenFails`).
* In `Media`, the end of a call detaches whatever session the bridge has. Its goroutine gets there after the event has been emitted; when the
  next call has become active and has its session by then, that session is taken down and nobody opens another, since its pump
  takes itself for replaced. Likewise a session attached for a call that has just ended stays, and its frames reach the page.
* In `Media`, `Accept`, `Reject` and `Hangup` change the call before they send; when the send fails they return the error and emit nothing:
  the page shows the old state, a session stays attached. A block during a call leaves the call going.
* In `Ipc`, `onMediaClosed` reads the current call and emits "active" after the lock: an end that overtakes it is followed by
  a phantom of the call on the page. The end of any call clears the call bar, whatever call it shows. `Start` reads the record
  it returns without the lock, and may tell a later state.
* In `Ipc`, the result of a command may be dropped like any event, and the page waits for it without a limit
  (ui/src/ipc/client.ts:115-130), unless the connection is lost.
* In `Presence`, the sign of life lasts 90 s and is looked at every 60 s. In between, `ListChats` says offline and `isOnline` online;
  a new sign of life is then no change, so the page goes on showing the contact offline. `forget` reports nothing: only the page that blocked
  asks for the list again.
* Rows that `drainPending` and `ensureHandshake` enqueue from inside a receive transaction are not followed by
  `Flush`. If the queue was empty, no timer is armed, so the comment of `Flush`, "a lost kick does no harm, the timer
  catches up", does not hold for them; presence kicks only a contact that is silent or has just come online.
  `Outbox` has such rows (`Quiet`), and both runs have one; `NoStrandedRow` and `EventuallyDelivered` speak of the others.
* In `Outbox`, the quarantine of `flushDue` deletes a damaged row by a rowid read earlier. When an ack has removed that
  row in between, a new row may have its id and be deleted in its place. `NothingLost` is therefore checked
  (`outbox_safety`) and proved for `MaxDamage = 0` only.
* In `Session`, a new init of the collision's loser that overtakes its answer to the winner is dropped as a lost
  collision; nobody answers that handshake, `ensureHandshake` starts no other, and the text that waits for it stays
  until the winner writes.
* In `Blob`, a crash or a failed transaction between the rename and the record leaves the finished file under a name
  no row has: the next start opens an empty .part with the old bitmap, the hash does not match, and the file
  is not reported. A deletion that overlaps `finishPull`, or comes before `Run` has taken the new pull, leaves a file
  on the disk without a row.

## 5. Proofs

All for any `Users`, `Conns`, `Ours`, `Peers`, `Msgs`, `Dest`, `Quiet`, `Texts`, `Author`, `Initiator`, `Responder`, `CallIds`, `Nodes`, `Admin`, `MaxSkip` and any bounds, from the
named assumptions of the modules on their constants (`DestAssumption`, `BoundsAssumption`,
`AuthorAssumption`, `MaxResetsAssumption`, `RolesAssumption`, `RatchetBoundsAssumption`, `NoCallAssumption`, `MaxFaultsAssumption`, `AdminAssumption`, `GroupBoundsAssumption`,
`CallsAssumption`, `QueuesAssumption`, `ConnsAssumption`, `NoPeerAssumption`, `OursAssumption`, `UsersAssumption`,
`MaxRestartsAssumption`).

* `OutboxProofs`: `TypeCorrect`, `DeliveredHonest`, `SentHonest`, `HandledOnce`. The
  inductive invariant `IInv` adds to the types what each property leans on: an ack on the
  wire belongs to a message the receiver has applied (`AnsweredIsApplied`); a message
  marked "sent" in a running pass, or on the wire, has left the node (`WireIsLeft`); an applied
  message is in the dedup window or was forgotten (`WindowRemembers`); a row in the queue
  belongs to a message that is queued or sent (`RowIsPending`). The step lemma goes through the actions
  grouped by what they touch.
  In the same module: `NoLostWakeup` (inductive with the types: only `FlushArm` puts `Run` to sleep
  without a timer, over an empty queue, and whoever fills the queue then has `Flush` ahead);
  `NoMessageLost`, which assumes `MaxDamage = 0` and needs the rows of a pass to be sound (`Sound`):
  with damage it is false, see the end of section 4; `KeepsPromise`, the refinement, which needs in addition that only
  accepted messages are anywhere in flight (`OnlyAccepted`): one step lemma, one case per action.
* `ContactsProofs`: `ContactsTypes`, `ContactsSnapshot`, `ContactsBlockTotal`, `ContactsOnlyUser`, for any number of clients and
  restarts, from one inductive invariant (`ContactsInvariant`). `SnapshotFollows` needs that each goroutine waits for one hook at
  most (`OneHookEach`) and that the last hook of the queue, unless overtaken, sets what the table says (`LastHookFits`): the hook
  that empties the queue is that one. `UndisturbedBlockIsTotal` needs what an undisturbed `Block` sees while it runs
  (`BlockIsAlone`: the loop and the other clients are idle) and after it (`BlockIsShut`: nothing but an `Unblock` gets past
  a check, because the snapshot the checks read is already shut). `ContactsOnlyUser` looks at what each step writes to `peers`.
  `UsersAssumption` only says that the delivery loop's goroutine is none of the clients'.
* `SessionProofs`: `SessionTypeCorrect`, `WinnerAnswered`, `OneCopy`. `WinnerIsAnswered` is inductive with the
  types: an init of node 1 leaves the net only by being answered, since node 2 never wins, and
  the answer only by finishing the handshake; the two ways a handler ends (`EnsureHandshake`,
  `DrainAndSave`) are treated once, in `PartsKeepAnswer`.
  `OneCopy` proves `ItemInOneCopy`, which counts copies, from an invariant that does not: the items offered are divided among five places
  (`Divided`), no two envelopes carry the same item (`NoTwice`), and an item waits at its author only (`WaitsAtAuthor`). What the two ends
  of a handler move is said once (`HandshakeMoves`, `DrainMoves`).
* `RatchetProofs`: `RatchetTypeCorrect`, `UsedForgotten`, `KeysOnce`, `SkippedKeysFit`, `InWindowRead`. The nodes take turns: the initiator opens its sending
  chains after an even number of root steps, the responder after an odd number (`SendTurn`), so a chain of one direction never
  meets one of the other. `Shape` says that a state's chains are those of the last two root steps and the skipped
  keys lie behind the receiving chain; `Passed` and `Used` say that a sent message lies behind its sender's chain, and
  a read one behind its reader's and not among the skipped keys. Each part of `Decrypt` keeps the shape (`SkipToKeeps`,
  `RatchetKeeps`, `AdvanceKeeps`, `TakeSkippedKeeps`) and never takes back what was passed or used (`Forward`). No induction over
  the messages is needed.
  `SkippedKeysFit` proves `SkippedFits`, a bound on the size of what `saveSkipped` keeps. The root steps of the kept keys have
  different lengths (`Apart`), so the keys stand in a row by age (`InARow`); hence what `Newest` keeps has an oldest member,
  all others come after it, and it was kept only because fewer than `MaxSkip` do (`Oldest`, `NewestFits`).
  `InWindowRead` proves `InWindowIsRead`, that nothing within the window is lost, from an invariant about both sides at once (`ReachInv`).
  After the handshake, whose two halves end with the same root key (`HandshakeShared`), one side is ahead of the other: its root key is the
  peer's plus one Diffie-Hellman of their present ratchet keys, and its receiving chain is the peer's sending one (`Ahead`). A chain
  is written without gaps under one ratchet key (`ChainSent`), and the PN of the messages that follow says how long it became; a ratchet key
  names one chain only (`OneChainEach`), since none is used before it is made (`MadeBefore`). So a message in flight to a node is in one of
  three places (`Reaches`): its key was put aside, it lies ahead on the receiving chain, or it is of the chain the next turn opens, which is
  the peer's present one (`NextIsPresent`). What remains is to count. The keys that opening a message puts aside are those of other messages
  that were sent and not read (`GapWasSent`), hence of messages in flight, of which there are at most `MaxSkip`
  (`FewInFlight`); so no limit refuses it (`RowFits`), and `Newest` drops nothing (`NewestAll`). TLC found `ReachInv` invariant
  for `MaxSkip` from 0 to 3 and nine messages before it was proved.
* `CallsProofs`: `CallsTypeCorrect`, `ConsentIsMeant`, `EndStays`, `CallersServed`. `ActiveWasAccepted` leans on the envelopes:
  an offer of a call goes to its callee only (`OfferGoesOut`) and an accepting answer, in flight or about to be
  sent, belongs to an accepted call (`AcceptIsMeant`); with the types these are inductive. `EndIsFinal` follows
  from them, because an offer, the only thing that restarts a record, never reaches the caller.
  `CallersServed` has an invariant of its own (`Served`): as long as the caller of an unspoiled call holds it, the callee has not been
  told to drop it; if the call is accepted, the callee talks in it or its hangup follows; and if it rings out, it is still being offered, rings at
  the callee, or an answer is on the way. `SameCallsKeep` says what a step must show, and each action has its lemma. What makes it
  work in a collision: a callee that rings or talks never yields to another offer (`Yields` looks at the state of the current call).
* `GroupProofs`: `GroupTypeCorrect`, `AudienceKept`, `HoldersKept`, `MembershipsSettle`, `MembersTalk`, `EatenIsOld`. `AudienceOnly` is far from inductive. It needs
  that a node's own key is the newest it has made and ahead of everything it sent (`OwnIsNewest`), that no
  point of a chain in anybody's table or on its way is of a key not made yet (`PointsAreMade`), and that whoever has the
  current key of a node, or will be given it, is a member as that node knows the group (`HoldersAreMembers`). What an action
  may do to keys, points and messages is stated once, as `GroupStep`, and `StepKeeps` shows that it
  preserves the four facts; then every action is shown to be a `GroupStep`, most of them through three lemmas
  for the ways a handler writes (`SaveKeeps`, `SetKeyKeeps`, `QuietKeeps`).
  `MembershipsSettle` has an invariant about rows (`RInv`): nobody is ahead of the admin (`AdminAhead`), and the newest
  version that a member or a former one holds or will be told is the last it needs: the admin's own if it is a member, one without it otherwise
  (`LastOf`, `NewsComing`). The three ways a row moves, published, received and kept, are treated once (`Published`, `RowsReceived`, `RowsKept`).
  `MembersTalk` adds one about keys (`KInv`): who has no record has no keys (`NoRowNoKeys`), the generation of a node that
  was never removed numbers the keys it has made (`GenerationsCount`), which is what lets a receiver tell old from new, and the current
  key of such a node is held by every other member or on its way to it, by itself or in the admin's welcome (`KeysCome`).
  `EatenIsOld` adds one about messages (`EInv`): every message in flight under the current key of such a sender is awaited (`Awaits`):
  its receiver keeps its key or has not come to it, and no key on the way starts after it. The theorem assumes
  `MaxEvents <= MaxSkip`: a chain keeps `MaxSkip` jumped-over keys, so a message overtaken by more than that is lost,
  by design. In the code `MaxSkip` is 512 (senderkey/senderkey.go:21); in the run both are 2.
* `BlobProofs`: `BlobTypes`, `BlobPromised`, `BlobBacked`, `BlobDeleted`, from one inductive invariant (`BlobInvariant`), one lemma per
  action. There is one manifest, and only its delivery makes a row (`OneManifest`), so a row once deleted is gone. `DoneIsPromised`
  needs what `finishPull` knows between its two steps: the content it has checked is what it renames, and stays until the record
  unless the row was deleted first (`Finishing`, `RowFirst`). `BitmapIsBacked` needs that what the bitmap in memory marks is in the open file
  (`PullIsBacked`), and that this file is the .part as long as the row is there (`PullIsOpen`): `DeleteFile` removes it after the row.
* `DeskProofs`: `DeskTypes`, `DeskMedia`, `DeskSessions`, from one inductive invariant (`DeskInductive`), `DeskCallBar` and `DeskPresence`. `MediaIsComing` needs that no event is
  overwritten before it has been acted on (`OneEventEach`), and that a call of ours becomes active only by an answer, which makes one
  (`Records`: what rings is not ours). `NoStraySession` needs that a session between the look and the attach belongs to the
  active call or to one that ended since (`CheckedIsCurrent`), and that `Start`, when its send fails, does not take back a call that has been
  answered (`Starting`, `Delivered`: there is no answer to an offer that has not been sent). The steps that leave the call and the bridge alone
  are treated once (`Frame`), and so is what a new state of the current call does (the lemmas `Put...`).
  `DeskCallBar` and `DeskPresence` need a second invariant on top of that one (`InStep`, `DeskInStep`), which speaks of the moments in
  between: unless the call is blurred, every goroutine that has news of it, every command that works on it and every snapshot of
  attach tells the current call as it is (`CallNewsFit`), and when nobody has any, the last event of the call in the queue of the page
  does, or the bar itself if there is none (`BarComes`). While `Start` is sending, the queue ends without a call, which is what its
  failure goes back to without an event. For each contact, what is in the queue, or the answer of ListChats that is still to be
  pushed, ends with what is the case, or a goroutine is on its way to report it (`OnlineNewsFit`, `OnlineComes`). What decides is the last event
  of its kind (`EndsWith`); that a push, a drop and the page's handler keep that is proved once for both (`AppendOther`,
  `AppendDecides`, `TailEnds`).

Every safety invariant and every action property that a passing run checks is stated by a theorem. Only model-checked are the three
liveness properties (`EventuallyDelivered`, `OneWayIsRead`, `EventuallyReceived`): liveness under fairness is out of the prover's reach.

## 6. Not modelled

* The reassembly of frames (`media/reasm.go`) and the ladder of presets (`media/adapt.go`): they work on the fragments and loss rates of
  one session, and nothing else depends on what they decide. One thing was noticed on reading: the pump of a replaced session may
  report its drops after `ResetSession`, and the new session's are then not seen until they exceed that total (media/adapt.go:75-96).
* `contact/invite.go`, `mnemonic`, `envelope`, `ipc/codec.go`: pure functions on bytes, which the models abstract.
* The Lamport and sequence counters of `store`, aliases, the message history: they only order or decorate what the page shows.
* Encryption at rest, migrations, the bootstrap list, `cmd/molvad`, logging and counters: I/O around the state. The list of bootstrap nodes and
  the seed are written in place, so a crash may leave them torn; nothing in the state modelled here depends on it.
* Generated code.

Abstracted throughout: backoff lengths (any), the order of sends inside a batch (the network reorders), malformed
input (eaten without effect). `Group` leaves out the limits of size, forged payloads, the message history, and payloads that chat
eats because the session below was replaced (finding 2 is about such replacements). `Desk` tells commands and events apart only
where the page or the bridge acts on them.
