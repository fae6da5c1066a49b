--------------------------- MODULE ContactsProofs ---------------------------
(***************************************************************************)
(* Theorems about module Contacts: its types, when the snapshot may differ *)
(* from the table, what a Block leaves, and who may undo it, for any       *)
(* number of clients and restarts.                                         *)
(***************************************************************************)
EXTENDS Contacts, SequenceTheorems, TLAPS

Hook == [owner : Users \cup {"delivery"}, sets : PeerState, passed : BOOLEAN]

-----------------------------------------------------------------------------
(* The inductive invariant                                                 *)

\* The types, by the part of the state they are about.
TableTypes == disk \in Disk /\ snap \in PeerState

LoopTypes ==
  /\ deliv \in [pc : {"idle", "tx", "hook", "ack"},
                frame : Reliable \cup {"ack", "none"}, late : BOOLEAN]
  /\ user \in [Users -> [pc : {"idle", "tx", "hook"},
                         op : {"none", "add", "block", "unblock", "text"}]]

HookTypes == hooks \in Seq(Hook)

HistoryTypes ==
  /\ stale \in BOOLEAN /\ settled \in BOOLEAN /\ alone \in BOOLEAN
  /\ restarts \in 0..MaxRestarts

\* Whose hook it is: the goroutine that committed, and it waits for no other.
Waits(o) == IF o = "delivery" THEN deliv.pc = "hook" ELSE user[o].pc = "hook"

OneHookEach ==
  /\ \A i \in DOMAIN hooks : Waits(hooks[i].owner)
  /\ \A i, j \in DOMAIN hooks : hooks[i].owner = hooks[j].owner => i = j

\* The latest hook has been overtaken, or it sets what the table says.
LastHookFits ==
  hooks # <<>> => hooks[Len(hooks)].passed \/ hooks[Len(hooks)].sets = disk.peer

\* What Block leaves in the tables.
Wiped ==
  /\ disk.peer = "blocked"
  /\ disk.outbox \subseteq {"group"} /\ ~disk.pending
  /\ disk.session = "none" /\ ~disk.handshake

\* While a Block runs that nothing overlapped, nothing else is in flight.
BlockIsAlone ==
  /\ \A u \in Users : user[u].pc = "idle" => user[u].op = "none"
  /\ \A u \in Users : alone /\ user[u].op = "block" =>
       /\ deliv.pc = "idle"
       /\ \A v \in Users \ {u} : user[v].pc = "idle"
       /\ user[u].pc = "hook" =>
            /\ Wiped
            /\ \A i \in DOMAIN hooks : hooks[i].sets = "blocked"

\* After such a Block nothing is in flight but an Unblock that has looked at the gate.
BlockIsShut ==
  settled /\ alone =>
    /\ snap = "blocked" /\ Wiped
    /\ hooks = <<>> /\ deliv.pc = "idle"
    /\ \A u \in Users : user[u].pc = "idle" \/ user[u] = [pc |-> "tx", op |-> "unblock"]

IInv ==
  /\ TableTypes /\ LoopTypes /\ HookTypes /\ HistoryTypes
  /\ OneHookEach /\ LastHookFits /\ SnapshotFollows
  /\ BlockIsAlone /\ BlockIsShut

-----------------------------------------------------------------------------
(* The tables and the hooks                                                *)

LEMMA IInvTypes == IInv => TypeOK
BY DEF IInv, TableTypes, LoopTypes, HookTypes, HistoryTypes, TypeOK, Hook

\* What the store operators write, and that none of them touches the peer's state.
LEMMA TableOps ==
  ASSUME NEW d \in Disk
  PROVE  /\ \A k \in Rows : Enqueue(d, k) \in Disk /\ Enqueue(d, k).peer = d.peer
         /\ PendingChatAdd(d) \in Disk /\ PendingChatAdd(d).peer = d.peer
         /\ PendingChatTake(d) \in Disk /\ PendingChatTake(d).peer = d.peer
         /\ \A s \in {"none", "receiving", "ready"} :
              SessionPut(d, s) \in Disk /\ SessionPut(d, s).peer = d.peer
         /\ HandshakePut(d) \in Disk /\ HandshakePut(d).peer = d.peer
         /\ HandshakeDelete(d) \in Disk /\ HandshakeDelete(d).peer = d.peer
<1>1. \A k \in Rows : Enqueue(d, k) \in Disk /\ Enqueue(d, k).peer = d.peer
  BY DEF Enqueue, Disk
<1>2. PendingChatAdd(d) \in Disk /\ PendingChatAdd(d).peer = d.peer
  BY DEF PendingChatAdd, Disk
<1>3. PendingChatTake(d) \in Disk /\ PendingChatTake(d).peer = d.peer
  BY DEF PendingChatTake, Disk
<1>4. \A s \in {"none", "receiving", "ready"} :
        SessionPut(d, s) \in Disk /\ SessionPut(d, s).peer = d.peer
  BY DEF SessionPut, Disk
<1>5. HandshakePut(d) \in Disk /\ HandshakePut(d).peer = d.peer
  BY DEF HandshakePut, Disk
<1>6. HandshakeDelete(d) \in Disk /\ HandshakeDelete(d).peer = d.peer
  BY DEF HandshakeDelete, Disk
<1>. QED BY <1>1, <1>2, <1>3, <1>4, <1>5, <1>6

\* The two compound writes of chat/manager.go.
LEMMA ChatOps ==
  ASSUME NEW d \in Disk
  PROVE  /\ EnsureHandshake(d) \in Disk /\ EnsureHandshake(d).peer = d.peer
         /\ Drain(d) \in Disk /\ Drain(d).peer = d.peer
<1>1. "init" \in Rows /\ "text" \in Rows
  BY DEF Rows
<1>2. HandshakePut(d) \in Disk /\ HandshakePut(d).peer = d.peer
  BY TableOps
<1>3. PendingChatTake(d) \in Disk /\ PendingChatTake(d).peer = d.peer
  BY TableOps
<1>4. EnsureHandshake(d) \in Disk /\ EnsureHandshake(d).peer = d.peer
  BY <1>1, <1>2, TableOps DEF EnsureHandshake
<1>5. Drain(d) \in Disk /\ Drain(d).peer = d.peer
  BY <1>1, <1>3, TableOps DEF Drain
<1>. QED BY <1>4, <1>5

LEMMA TextKeeps == ASSUME NEW d \in Disk PROVE Text(d) \in Disk /\ Text(d).peer = d.peer
<1>1. "text" \in Rows
  BY DEF Rows
<1>2. PendingChatAdd(d) \in Disk /\ PendingChatAdd(d).peer = d.peer
  BY TableOps
<1>. QED BY <1>1, <1>2, TableOps, ChatOps DEF Text

\* No handler of a reliable envelope writes the state of the peer.
LEMMA HandleKeeps ==
  ASSUME NEW f \in Reliable, NEW d \in Disk, NEW e \in Handle(f, d)
  PROVE  e \in Disk /\ e.peer = d.peer
<1>0. "text" \in Rows /\ "accept" \in Rows /\ "initack" \in Rows
      /\ {"receiving", "ready"} \subseteq {"none", "receiving", "ready"}
  BY DEF Rows
<1>1. CASE f = "known"
  BY <1>1 DEF Handle, OnContactAccept
<1>2. CASE f = "request"
  BY <1>0, <1>2, TableOps DEF Handle, OnContactRequest
<1>3. CASE f = "text"
  <2>1. e = EnsureHandshake(d) \/ e = Drain(SessionPut(d, "ready"))
    BY <1>3 DEF Handle, OnChat
  <2>2. SessionPut(d, "ready") \in Disk /\ SessionPut(d, "ready").peer = d.peer
    BY <1>0, TableOps
  <2>. QED BY <2>1, <2>2, ChatOps
<1>4. CASE f = "init"
  <2>. DEFINE s == SessionPut(d, "receiving")
              h == HandshakeDelete(s)
  <2>1. e = Enqueue(h, "initack") \/ e = d
    BY <1>4 DEF Handle, OnSessionInit
  <2>2. s \in Disk /\ s.peer = d.peer
    BY <1>0, TableOps
  <2>. HIDE DEF s
  <2>3. h \in Disk /\ h.peer = d.peer
    BY <2>2, TableOps
  <2>. HIDE DEF h
  <2>4. Enqueue(h, "initack") \in Disk /\ Enqueue(h, "initack").peer = h.peer
    BY <1>0, <2>3, TableOps
  <2>. QED BY <2>1, <2>3, <2>4
<1>5. CASE f = "initack"
  <2>. DEFINE s == SessionPut(d, "ready")
              h == HandshakeDelete(s)
  <2>1. e = Drain(h) \/ e = d
    BY <1>5 DEF Handle, OnSessionInitAck
  <2>2. s \in Disk /\ s.peer = d.peer
    BY <1>0, TableOps
  <2>. HIDE DEF s
  <2>3. h \in Disk /\ h.peer = d.peer
    BY <2>2, TableOps
  <2>. HIDE DEF h
  <2>. QED BY <2>1, <2>3, ChatOps
<1>. QED BY <1>1, <1>2, <1>3, <1>4, <1>5 DEF Reliable

\* EnsureKnownTx makes a contact of a stranger and leaves a blocked peer blocked.
LEMMA KnownKeeps ==
  ASSUME NEW d \in Disk
  PROVE  /\ EnsureKnown(d) \in Disk
         /\ EnsureKnown(d).peer = IF d.peer = "none" THEN "contact" ELSE d.peer
BY DEF EnsureKnown, Disk, PeerState

\* Block leaves nothing for the peer.
LEMMA WipeWipes ==
  ASSUME NEW d \in Disk
  PROVE  /\ Wipe(d) \in Disk /\ Wipe(d).peer = "blocked"
         /\ Wipe(d).outbox = {} /\ ~Wipe(d).pending
         /\ Wipe(d).session = "none" /\ ~Wipe(d).handshake
<1>. DEFINE d1 == [d EXCEPT !.peer = "blocked"]
            d2 == PurgePeer(d1)
            d3 == PendingChatTake(d2)
            d4 == SessionDelete(d3)
            d5 == HandshakeDelete(d4)
<1>0. Wipe(d) = d5
  BY DEF Wipe
<1>1. d1 \in Disk /\ d1.peer = "blocked"
  BY DEF Disk, PeerState
<1>. HIDE DEF d1
<1>2. d2 \in Disk /\ d2.peer = "blocked" /\ d2.outbox = {}
  BY <1>1 DEF PurgePeer, Disk
<1>. HIDE DEF d2
<1>3. d3 \in Disk /\ d3.peer = "blocked" /\ d3.outbox = {} /\ ~d3.pending
  BY <1>2 DEF PendingChatTake, Disk
<1>. HIDE DEF d3
<1>4. d4 \in Disk /\ d4.peer = "blocked" /\ d4.outbox = {} /\ ~d4.pending /\ d4.session = "none"
  BY <1>3 DEF SessionDelete, Disk
<1>. HIDE DEF d4
<1>5. /\ d5 \in Disk /\ d5.peer = "blocked" /\ d5.outbox = {} /\ ~d5.pending
      /\ d5.session = "none" /\ ~d5.handshake
  BY <1>4 DEF HandshakeDelete, Disk
<1>. HIDE DEF d5
<1>. QED BY <1>0, <1>5

LEMMA HookAt ==
  ASSUME HookTypes, NEW i \in DOMAIN hooks
  PROVE  /\ hooks[i] \in Hook
         /\ hooks[i].owner \in Users \cup {"delivery"}
         /\ hooks[i].sets \in PeerState /\ hooks[i].passed \in BOOLEAN
<1>1. hooks[i] \in Hook
  BY LenProperties, ElementOfSeq DEF HookTypes
<1>. QED BY <1>1 DEF Hook

\* A commit puts its hook behind the others.
LEMMA Registered ==
  ASSUME HookTypes, NEW o \in Users \cup {"delivery"}, NEW s \in PeerState, Register(o, s)
  PROVE  /\ hooks' \in Seq(Hook) /\ hooks' # <<>> /\ Len(hooks') = Len(hooks) + 1
         /\ DOMAIN hooks' = 1..Len(hooks) + 1
         /\ hooks'[Len(hooks')] = [owner |-> o, sets |-> s, passed |-> FALSE]
         /\ \A i \in DOMAIN hooks : i \in DOMAIN hooks' /\ hooks'[i] = hooks[i]
         /\ \A i \in DOMAIN hooks' : i \in DOMAIN hooks \/ i = Len(hooks')
<1>. DEFINE h == [owner |-> o, sets |-> s, passed |-> FALSE]
<1>1. h \in Hook
  BY DEF Hook
<1>2. hooks' = Append(hooks, h)
  BY DEF Register
<1>. HIDE DEF h
<1>3. /\ hooks' \in Seq(Hook) /\ Len(hooks') = Len(hooks) + 1
      /\ hooks'[Len(hooks')] = h
      /\ \A i \in 1..Len(hooks) : hooks'[i] = hooks[i]
  BY <1>1, <1>2, AppendProperties DEF HookTypes
<1>4. Len(hooks) \in Nat /\ DOMAIN hooks = 1..Len(hooks) /\ DOMAIN hooks' = 1..Len(hooks')
  BY <1>3 DEF HookTypes
<1>. QED BY <1>3, <1>4 DEF h

\* A hook that runs leaves the queue, and those before it count as overtaken.
LEMMA HookRuns ==
  ASSUME HookTypes, NEW o, RunHook(o)
  PROVE  \E i \in DOMAIN hooks :
           /\ hooks[i].owner = o
           /\ snap' = hooks[i].sets /\ snap' \in PeerState
           /\ stale' = hooks[i].passed /\ stale' \in BOOLEAN
           /\ hooks' \in Seq(Hook) /\ Len(hooks') = Len(hooks) - 1
           /\ \A j \in DOMAIN hooks' :
                \/ /\ j < i /\ j \in DOMAIN hooks
                   /\ hooks'[j].owner = hooks[j].owner /\ hooks'[j].sets = hooks[j].sets
                   /\ hooks'[j].passed
                \/ /\ j >= i /\ j + 1 \in DOMAIN hooks
                   /\ hooks'[j] = hooks[j + 1]
<1>1. PICK i \in DOMAIN hooks :
        /\ hooks[i].owner = o
        /\ snap' = hooks[i].sets
        /\ stale' = hooks[i].passed
        /\ hooks' = [j \in 1..Len(hooks) - 1 |->
                       IF j < i THEN [hooks[j] EXCEPT !.passed = TRUE] ELSE hooks[j + 1]]
  BY DEF RunHook
<1>2. /\ Len(hooks) \in Nat /\ DOMAIN hooks = 1..Len(hooks) /\ i \in 1..Len(hooks)
      /\ \A j \in 1..Len(hooks) : hooks[j] \in Hook
  BY <1>1 DEF HookTypes
<1>3. /\ Len(hooks) - 1 \in Nat
      /\ \A j \in 1..Len(hooks) - 1 : j \in 1..Len(hooks) /\ j + 1 \in 1..Len(hooks)
  BY <1>2
<1>4. ASSUME NEW j \in 1..Len(hooks) - 1
      PROVE  /\ hooks'[j] \in Hook
             /\ \/ /\ j < i /\ j \in DOMAIN hooks
                   /\ hooks'[j].owner = hooks[j].owner /\ hooks'[j].sets = hooks[j].sets
                   /\ hooks'[j].passed
                \/ /\ j >= i /\ j + 1 \in DOMAIN hooks
                   /\ hooks'[j] = hooks[j + 1]
  <2>1. CASE j < i
    <3>1. hooks'[j] = [hooks[j] EXCEPT !.passed = TRUE]
      BY <1>1, <2>1
    <3>2. hooks[j] \in Hook
      BY <1>2, <1>3
    <3>. QED BY <1>2, <1>3, <2>1, <3>1, <3>2 DEF Hook
  <2>2. CASE j >= i
    <3>1. hooks'[j] = hooks[j + 1]
      BY <1>1, <1>2, <2>2
    <3>. QED BY <1>2, <1>3, <2>2, <3>1
  <2>. QED BY <1>2, <2>1, <2>2
<1>5. DOMAIN hooks' = 1..Len(hooks) - 1
  BY <1>1
<1>6. hooks' \in [1..Len(hooks) - 1 -> Hook]
  BY <1>1, <1>4
<1>7. hooks' \in Seq(Hook) /\ Len(hooks') = Len(hooks) - 1
  <2>. DEFINE n == Len(hooks) - 1
  <2>1. n \in Nat
    BY <1>3
  <2>2. hooks' \in [1..n -> Hook] /\ DOMAIN hooks' = 1..n
    BY <1>5, <1>6
  <2>. HIDE DEF n
  <2>3. hooks' \in Seq(Hook)
    BY <2>1, <2>2, SeqDef
  <2>4. Len(hooks') = n
    BY <2>1, <2>2, <2>3, LenProperties
  <2>. QED BY <2>3, <2>4 DEF n
<1>8. hooks[i].sets \in PeerState /\ hooks[i].passed \in BOOLEAN
  BY <1>2 DEF Hook
<1>. QED BY <1>1, <1>4, <1>5, <1>7, <1>8

-----------------------------------------------------------------------------
(* What a step does to the hooks                                           *)

\* Nobody's hook runs and nobody commits one.
LEMMA HooksStay ==
  ASSUME IInv, hooks' = hooks, \A o \in Users \cup {"delivery"} : Waits(o) => Waits(o)'
  PROVE  OneHookEach'
<1>1. \A i \in DOMAIN hooks : hooks[i].owner \in Users \cup {"delivery"}
  BY HookAt DEF IInv
<1>2. \A i \in DOMAIN hooks : Waits(hooks[i].owner)'
  BY <1>1 DEF IInv, OneHookEach
<1>. QED BY <1>2 DEF IInv, OneHookEach

\* o commits a hook that sets what it has written.
LEMMA HookAdded ==
  ASSUME IInv, NEW o \in Users \cup {"delivery"}, NEW s \in PeerState, Register(o, s),
         ~Waits(o), \A x \in Users \cup {"delivery"} : x = o \/ Waits(x) => Waits(x)',
         disk'.peer = s
  PROVE  HookTypes' /\ OneHookEach' /\ LastHookFits' /\ SnapshotFollows'
<1>1. HookTypes /\ OneHookEach
  BY DEF IInv
<1>2. /\ hooks' \in Seq(Hook) /\ hooks' # <<>> /\ Len(hooks') = Len(hooks) + 1
      /\ DOMAIN hooks' = 1..Len(hooks) + 1
      /\ hooks'[Len(hooks')] = [owner |-> o, sets |-> s, passed |-> FALSE]
      /\ \A i \in DOMAIN hooks : i \in DOMAIN hooks' /\ hooks'[i] = hooks[i]
      /\ \A i \in DOMAIN hooks' : i \in DOMAIN hooks \/ i = Len(hooks')
  BY <1>1, Registered
<1>3. \A i \in DOMAIN hooks :
        /\ hooks[i].owner \in Users \cup {"delivery"} /\ Waits(hooks[i].owner)
        /\ hooks[i].owner # o
  BY <1>1, HookAt DEF OneHookEach
<1>4. \A i \in DOMAIN hooks' : hooks'[i].owner = o => i = Len(hooks')
  BY <1>2, <1>3
<1>5. OneHookEach'
  <2>1. \A i \in DOMAIN hooks' :
          /\ hooks'[i].owner \in Users \cup {"delivery"}
          /\ hooks'[i].owner = o \/ Waits(hooks'[i].owner)
    BY <1>2, <1>3
  <2>2. \A i, j \in DOMAIN hooks' : hooks'[i].owner = hooks'[j].owner => i = j
    BY <1>1, <1>2, <1>3, <1>4 DEF OneHookEach
  <2>. QED BY <2>1, <2>2 DEF OneHookEach
<1>6. LastHookFits'
  BY <1>2 DEF LastHookFits
<1>. QED BY <1>2, <1>5, <1>6 DEF HookTypes, SnapshotFollows

\* o runs its hook: the snapshot is right afterwards or another hook is to come, unless
\* a later one has gone before.
LEMMA HookTaken ==
  ASSUME IInv, NEW o, RunHook(o), disk'.peer = disk.peer,
         \A x \in Users \cup {"delivery"} : x # o /\ Waits(x) => Waits(x)'
  PROVE  /\ HookTypes' /\ OneHookEach' /\ LastHookFits' /\ SnapshotFollows'
         /\ snap' \in PeerState /\ stale' \in BOOLEAN
<1>1. HookTypes /\ OneHookEach /\ LastHookFits
  BY DEF IInv
<1>2. PICK i \in DOMAIN hooks :
        /\ hooks[i].owner = o
        /\ snap' = hooks[i].sets /\ snap' \in PeerState
        /\ stale' = hooks[i].passed /\ stale' \in BOOLEAN
        /\ hooks' \in Seq(Hook) /\ Len(hooks') = Len(hooks) - 1
        /\ \A j \in DOMAIN hooks' :
             \/ /\ j < i /\ j \in DOMAIN hooks
                /\ hooks'[j].owner = hooks[j].owner /\ hooks'[j].sets = hooks[j].sets
                /\ hooks'[j].passed
             \/ /\ j >= i /\ j + 1 \in DOMAIN hooks
                /\ hooks'[j] = hooks[j + 1]
  BY <1>1, HookRuns
<1>3. /\ Len(hooks) \in Nat /\ DOMAIN hooks = 1..Len(hooks)
      /\ Len(hooks') \in Nat /\ DOMAIN hooks' = 1..Len(hooks')
      /\ i \in 1..Len(hooks) /\ hooks # <<>>
  BY <1>1, <1>2 DEF HookTypes
\* The hook j of the new queue is the hook Was(j) of the old one.
<1>. DEFINE Was(j) == IF j < i THEN j ELSE j + 1
<1>4. \A j \in DOMAIN hooks' :
        Was(j) \in DOMAIN hooks /\ Was(j) # i /\ hooks'[j].owner = hooks[Was(j)].owner
  BY <1>2, <1>3
<1>5. \A j, k \in DOMAIN hooks' : Was(j) = Was(k) => j = k
  BY <1>3
<1>6. OneHookEach'
  <2>1. ASSUME NEW j \in DOMAIN hooks' 
               PROVE  \A x : x = hooks'[j].owner => Waits(x)'
    <3>1. /\ hooks[Was(j)].owner \in Users \cup {"delivery"} /\ Waits(hooks[Was(j)].owner)
          /\ hooks[Was(j)].owner # o
      BY <1>1, <1>2, <1>4, HookAt DEF OneHookEach
    <3>. QED BY <1>4, <3>1
  <2>2. \A j, k \in DOMAIN hooks' : hooks'[j].owner = hooks'[k].owner => j = k
    BY <1>1, <1>4, <1>5 DEF OneHookEach
  <2>. QED BY <2>1, <2>2 DEF OneHookEach
<1>7. LastHookFits'
  <2>. SUFFICES ASSUME hooks' # <<>>
                PROVE  hooks'[Len(hooks')].passed \/ hooks'[Len(hooks')].sets = disk.peer
    BY DEF LastHookFits
  <2>1. Len(hooks') \in DOMAIN hooks'
    BY <1>2, <1>3, EmptySeq
  <2>2. CASE Len(hooks') < i
    BY <1>2, <2>1, <2>2
  <2>3. CASE ~(Len(hooks') < i)
    BY <1>1, <1>2, <1>3, <2>1, <2>3 DEF LastHookFits
  <2>. QED BY <2>2, <2>3
<1>8. SnapshotFollows'
  <2>. SUFFICES ASSUME hooks' = <<>>, ~stale' PROVE snap' = disk.peer
    BY DEF SnapshotFollows
  <2>1. Len(hooks) = 1 /\ i = Len(hooks)
    BY <1>2, <1>3
  <2>. QED BY <1>1, <1>2, <1>3, <2>1 DEF LastHookFits
<1>. QED BY <1>2, <1>6, <1>7, <1>8 DEF HookTypes

\* The delivery loop is busy: there is no undisturbed Block.
LEMMA LoopIsBusy ==
  ASSUME IInv, deliv.pc # "idle", UNCHANGED <<user, settled, alone>>
  PROVE  BlockIsAlone' /\ BlockIsShut'
BY DEF IInv, BlockIsAlone, BlockIsShut

-----------------------------------------------------------------------------
(* The steps                                                               *)

LEMMA InitHolds == Init => IInv
<1>. SUFFICES ASSUME Init PROVE IInv
  OBVIOUS
<1>1. NoPeer \in Disk
  BY DEF NoPeer, Disk, PeerState
<1>2. TableTypes
  BY <1>1 DEF Init, TableTypes, PeerState
<1>3. LoopTypes
  BY DEF Init, LoopTypes, NoFrame, Idle
<1>4. hooks = <<>> /\ DOMAIN hooks = {}
  BY DEF Init
<1>5. HookTypes
  BY <1>4 DEF HookTypes
<1>6. HistoryTypes
  <2>1. restarts \in 0..MaxRestarts
    BY MaxRestartsAssumption DEF Init
  <2>2. stale \in BOOLEAN /\ settled \in BOOLEAN /\ alone \in BOOLEAN
    BY Zenon DEF Init
  <2>. QED BY <2>1, <2>2 DEF HistoryTypes
<1>7. OneHookEach /\ LastHookFits
  BY <1>4 DEF OneHookEach, LastHookFits
<1>8. SnapshotFollows
  BY DEF Init, SnapshotFollows, NoPeer
<1>9. BlockIsAlone /\ BlockIsShut
  BY DEF Init, BlockIsAlone, BlockIsShut, Idle
<1>. QED BY <1>2, <1>3, <1>5, <1>6, <1>7, <1>8, <1>9 DEF IInv

\* A command that begins: only one that a Block allows may overlap it.
LEMMA CheckKeeps ==
  ASSUME IInv, NEW u \in Users, NEW op \in {"add", "block", "unblock", "text"}, Check(u, op)
  PROVE  IInv'
<1>1. /\ user[u].pc = "idle" /\ Allowed(op)
      /\ user' = [user EXCEPT ![u] = [pc |-> "tx", op |-> op]]
      /\ UNCHANGED <<disk, snap, deliv, hooks, stale, restarts>>
  BY DEF Check
<1>2. /\ user'[u].pc = "tx" /\ user'[u].op = op /\ user'[u] = [pc |-> "tx", op |-> op]
      /\ \A v \in Users : v # u => user'[v] = user[v]
  BY <1>1 DEF IInv, LoopTypes
<1>3. TableTypes' /\ HookTypes' /\ LastHookFits' /\ SnapshotFollows'
  BY <1>1 DEF IInv, TableTypes, HookTypes, LastHookFits, SnapshotFollows
<1>4. LoopTypes'
  BY <1>1 DEF IInv, LoopTypes
<1>5. HistoryTypes'
  <2>1. settled' = FALSE \/ settled' = settled
    BY DEF Check
  <2>2. alone' = ~InFlight(u) \/ alone' = (alone /\ ~Blocking)
    BY DEF Check
  <2>3. alone' \in BOOLEAN
    BY <2>2, Zenon
  <2>4. settled' \in BOOLEAN
    BY <2>1 DEF IInv, HistoryTypes
  <2>. QED BY <1>1, <2>3, <2>4 DEF IInv, HistoryTypes
<1>6. OneHookEach'
  <2>1. ASSUME NEW i \in DOMAIN hooks PROVE Waits(hooks[i].owner)'
    <3>1. Waits(hooks[i].owner) /\ hooks[i].owner # u
      BY <1>1, UsersAssumption DEF IInv, OneHookEach, Waits
    <3>2. hooks[i].owner \in Users \cup {"delivery"}
      BY HookAt DEF IInv
    <3>. QED BY <1>1, <1>2, <3>1, <3>2 DEF Waits
  <2>. QED BY <1>1, <2>1 DEF IInv, OneHookEach
<1>7. BlockIsAlone'
  <2>1. CASE op = "block"
    <3>1. alone' => /\ deliv.pc = "idle" /\ \A v \in Users \ {u} : user[v].pc = "idle"
      BY <2>1 DEF Check, InFlight
    <3>2. \A v \in Users \ {u} : user[v].pc = "idle" => user[v].op = "none"
      BY DEF IInv, BlockIsAlone
    <3>. QED BY <1>1, <1>2, <3>1, <3>2 DEF IInv, BlockIsAlone
  <2>2. CASE op # "block"
    <3>1. alone' => ~Blocking
      BY <2>2 DEF Check
    <3>. QED BY <1>1, <1>2, <2>2, <3>1 DEF IInv, BlockIsAlone, Blocking
  <2>. QED BY <2>1, <2>2
<1>8. BlockIsShut'
  <2>1. CASE op = "block"
    BY <2>1 DEF Check, BlockIsShut
  <2>2. CASE op # "block"
    <3>1. settled' = settled /\ (alone' => alone)
      BY <2>2 DEF Check
    <3>2. snap = "blocked" => op = "unblock"
      BY <1>1, <2>2 DEF Allowed
    <3>. QED BY <1>1, <1>2, <3>1, <3>2 DEF IInv, BlockIsShut, Wiped
  <2>. QED BY <2>1, <2>2
<1>. QED BY <1>3, <1>4, <1>5, <1>6, <1>7, <1>8 DEF IInv

\* A transaction of a command that writes the peer's state.
LEMMA PutPeerKeeps ==
  ASSUME IInv, NEW u \in Users, NEW op \in {"add", "unblock", "block"}, NEW d \in Disk,
         PutPeer(u, op, d, d.peer)
  PROVE  /\ TableTypes' /\ LoopTypes' /\ HookTypes'
         /\ OneHookEach' /\ LastHookFits' /\ SnapshotFollows'
         /\ user[u] = [pc |-> "tx", op |-> op] /\ user'[u].pc = "hook" /\ user'[u].op = op
         /\ \A v \in Users : v # u => user'[v] = user[v]
         /\ alone' = alone /\ deliv' = deliv
<1>1. /\ user[u] = [pc |-> "tx", op |-> op] /\ disk' = d /\ Register(u, d.peer)
      /\ user' = [user EXCEPT ![u].pc = "hook"]
      /\ UNCHANGED <<snap, deliv, stale, alone, restarts>>
  BY DEF PutPeer
<1>2. /\ user'[u].pc = "hook" /\ user'[u].op = op /\ user[u].pc = "tx"
      /\ \A v \in Users : v # u => user'[v] = user[v]
  BY <1>1 DEF IInv, LoopTypes
<1>3. LoopTypes'
  BY <1>1 DEF IInv, LoopTypes
<1>4. d.peer \in PeerState
  BY DEF Disk
<1>5. \A x \in Users \cup {"delivery"} : x = u \/ Waits(x) => Waits(x)'
  BY <1>1, <1>2, UsersAssumption DEF Waits
<1>6. ~Waits(u)
  BY <1>2, UsersAssumption DEF Waits
<1>7. HookTypes' /\ OneHookEach' /\ LastHookFits' /\ SnapshotFollows'
  BY <1>1, <1>4, <1>5, <1>6, HookAdded
<1>8. TableTypes'
  BY <1>1 DEF IInv, TableTypes
<1>. QED BY <1>1, <1>2, <1>3, <1>7, <1>8

\* Add and Unblock end the time after a Block.
LEMMA LiftKeeps ==
  ASSUME IInv, NEW u \in Users, AddByInvite(u) \/ Unblock(u)
  PROVE  IInv'
<1>. DEFINE op == IF AddByInvite(u) THEN "add" ELSE "unblock"
            s == IF AddByInvite(u) THEN "contact" ELSE "none"
            d == [disk EXCEPT !.peer = s]
<1>1. d \in Disk /\ d.peer = s
  BY DEF IInv, TableTypes, Disk, PeerState
<1>2. PutPeer(u, op, d, s) /\ settled' = FALSE
  BY DEF AddByInvite, Unblock
<1>3. op \in {"add", "unblock", "block"} /\ op # "block"
  OBVIOUS
<1>. HIDE DEF op, s, d
<1>4. PutPeer(u, op, d, d.peer)
  BY <1>1, <1>2
<1>5. /\ TableTypes' /\ LoopTypes' /\ HookTypes'
      /\ OneHookEach' /\ LastHookFits' /\ SnapshotFollows'
      /\ user[u] = [pc |-> "tx", op |-> op] /\ user'[u].pc = "hook" /\ user'[u].op = op
      /\ \A v \in Users : v # u => user'[v] = user[v]
      /\ alone' = alone /\ deliv' = deliv
  BY <1>1, <1>3, <1>4, PutPeerKeeps
<1>6. HistoryTypes'
  BY <1>2, <1>5 DEF PutPeer, IInv, HistoryTypes
<1>7. BlockIsAlone'
  <2>1. user[u].pc = "tx" /\ user[u].op # "block"
    BY <1>3, <1>5
  <2>2. \A v \in Users : alone => user[v].op # "block"
    BY <2>1 DEF IInv, BlockIsAlone
  <2>. QED BY <1>3, <1>5, <2>2 DEF IInv, BlockIsAlone
<1>8. BlockIsShut'
  BY <1>2 DEF BlockIsShut
<1>. QED BY <1>5, <1>6, <1>7, <1>8 DEF IInv

LEMMA BlockKeeps ==
  ASSUME IInv, NEW u \in Users, Block(u)
  PROVE  IInv'
<1>1. Wipe(disk) \in Disk /\ Wipe(disk).peer = "blocked"
      /\ Wipe(disk).outbox = {} /\ ~Wipe(disk).pending
      /\ Wipe(disk).session = "none" /\ ~Wipe(disk).handshake
  BY WipeWipes DEF IInv, TableTypes
<1>2. PutPeer(u, "block", Wipe(disk), "blocked") /\ settled' = settled
  BY DEF Block
<1>3. PutPeer(u, "block", Wipe(disk), Wipe(disk).peer)
  BY <1>1, <1>2
<1>4. /\ TableTypes' /\ LoopTypes' /\ HookTypes'
      /\ OneHookEach' /\ LastHookFits' /\ SnapshotFollows'
      /\ user[u] = [pc |-> "tx", op |-> "block"] /\ user'[u].pc = "hook" /\ user'[u].op = "block"
      /\ \A v \in Users : v # u => user'[v] = user[v]
      /\ alone' = alone /\ deliv' = deliv
  BY <1>1, <1>3, PutPeerKeeps
<1>5. HistoryTypes'
  BY <1>2, <1>4 DEF PutPeer, IInv, HistoryTypes
<1>6. ~(settled /\ alone)
  BY <1>4 DEF IInv, BlockIsShut
<1>7. BlockIsAlone'
  <2>1. ASSUME alone
        PROVE  /\ deliv.pc = "idle"
               /\ \A v \in Users \ {u} : user[v].pc = "idle" /\ user[v].op = "none"
               /\ DOMAIN hooks = {}
    <3>1. deliv.pc = "idle" /\ \A v \in Users \ {u} : user[v].pc = "idle" /\ user[v].op = "none"
      BY <1>4, <2>1 DEF IInv, BlockIsAlone
    <3>2. \A x \in Users \cup {"delivery"} : ~Waits(x)
      BY <1>4, <3>1, UsersAssumption DEF Waits
    <3>3. DOMAIN hooks = {}
      BY <3>2, HookAt DEF IInv, OneHookEach
    <3>. QED BY <3>1, <3>3
  <2>2. Wiped'
    BY <1>1, <1>2 DEF PutPeer, Wiped
  <2>3. alone => \A i \in DOMAIN hooks' : hooks'[i].sets = "blocked"
    <3>. SUFFICES ASSUME alone, NEW i \in DOMAIN hooks' PROVE hooks'[i].sets = "blocked"
      OBVIOUS
    <3>1. Register(u, "blocked") /\ "blocked" \in PeerState
      BY <1>2 DEF PutPeer, PeerState
    <3>2. /\ hooks'[Len(hooks')] = [owner |-> u, sets |-> "blocked", passed |-> FALSE]
          /\ i \in DOMAIN hooks \/ i = Len(hooks')
      BY <3>1, Registered DEF IInv
    <3>. QED BY <2>1, <3>2
  <2>. QED BY <1>4, <2>1, <2>2, <2>3 DEF IInv, BlockIsAlone
<1>8. BlockIsShut'
  BY <1>2, <1>4, <1>6 DEF BlockIsShut
<1>. QED BY <1>4, <1>5, <1>7, <1>8 DEF IInv

LEMMA ReturnKeeps ==
  ASSUME IInv, NEW u \in Users, Return(u)
  PROVE  IInv'
<1>1. /\ user[u].pc = "hook" /\ RunHook(u)
      /\ user' = [user EXCEPT ![u] = Idle]
      /\ settled' = IF user[u].op = "block" THEN disk.peer = "blocked" ELSE settled
      /\ UNCHANGED <<disk, deliv, alone, restarts>>
  BY DEF Return
<1>2. user'[u] = Idle /\ \A v \in Users : v # u => user'[v] = user[v]
  BY <1>1 DEF IInv, LoopTypes
<1>3. \A x \in Users \cup {"delivery"} : x # u /\ Waits(x) => Waits(x)'
  BY <1>1, <1>2 DEF Waits
<1>4. /\ HookTypes' /\ OneHookEach' /\ LastHookFits' /\ SnapshotFollows'
      /\ snap' \in PeerState /\ stale' \in BOOLEAN
  BY <1>1, <1>3, HookTaken
<1>5. TableTypes'
  BY <1>1, <1>4 DEF IInv, TableTypes
<1>6. LoopTypes'
  BY <1>1 DEF IInv, LoopTypes, Idle
<1>7. HistoryTypes'
  <2>1. settled' = (disk.peer = "blocked") \/ settled' = settled
    BY <1>1
  <2>2. settled' \in BOOLEAN
    BY <2>1 DEF IInv, HistoryTypes
  <2>. QED BY <1>1, <1>4, <2>2 DEF IInv, HistoryTypes
<1>8. BlockIsAlone'
  <2>1. \A v \in Users : v # u /\ alone => user[v].op # "block"
    BY <1>1 DEF IInv, BlockIsAlone
  <2>. QED BY <1>1, <1>2, <2>1 DEF IInv, BlockIsAlone, Idle
<1>9. BlockIsShut'
  <2>. SUFFICES ASSUME settled', alone
                PROVE  /\ snap' = "blocked" /\ Wiped'
                       /\ hooks' = <<>> /\ deliv'.pc = "idle"
                       /\ \A v \in Users :
                            \/ user'[v].pc = "idle"
                            \/ user'[v] = [pc |-> "tx", op |-> "unblock"]
    BY <1>1 DEF BlockIsShut
  <2>1. user[u].op = "block"
    <3>. SUFFICES ASSUME user[u].op # "block" PROVE FALSE
      OBVIOUS
    <3>1. settled
      BY <1>1
    <3>2. user[u].pc = "idle" \/ user[u] = [pc |-> "tx", op |-> "unblock"]
      BY <3>1 DEF IInv, BlockIsShut
    <3>. QED BY <1>1, <3>2
  <2>2. /\ deliv.pc = "idle" /\ \A v \in Users \ {u} : user[v].pc = "idle"
        /\ Wiped /\ \A i \in DOMAIN hooks : hooks[i].sets = "blocked"
    BY <1>1, <2>1 DEF IInv, BlockIsAlone
  <2>3. Wiped'
    BY <1>1, <2>2 DEF Wiped
  <2>4. snap' = "blocked"
    BY <1>1, <2>2 DEF RunHook
  <2>5. hooks' = <<>>
    <3>1. \A x \in Users \cup {"delivery"} : ~Waits(x)'
      BY <1>1, <1>2, <2>2, UsersAssumption DEF Waits, Idle
    <3>2. DOMAIN hooks' = {}
      <4>1. ASSUME NEW i \in DOMAIN hooks' PROVE hooks'[i].owner \in Users \cup {"delivery"}
        <5>1. hooks' \in Seq(Hook)
          BY <1>4 DEF HookTypes
        <5>2. hooks'[i] \in Hook
          BY <4>1, <5>1, ElementOfSeq, LenProperties
        <5>. QED BY <5>2 DEF Hook
      <4>. QED BY <1>4, <3>1, <4>1 DEF OneHookEach
    <3>. QED BY <1>4, <3>2, LenProperties, EmptySeq DEF HookTypes
  <2>6. \A v \in Users : user'[v].pc = "idle"
    BY <1>2, <2>2 DEF Idle
  <2>. QED BY <1>1, <2>2, <2>3, <2>4, <2>5, <2>6
<1>. QED BY <1>4, <1>5, <1>6, <1>7, <1>8, <1>9 DEF IInv

LEMMA SendTextKeeps ==
  ASSUME IInv, NEW u \in Users, SendText(u)
  PROVE  IInv'
<1>1. /\ user[u] = [pc |-> "tx", op |-> "text"] /\ disk' = Text(disk)
      /\ user' = [user EXCEPT ![u] = Idle]
      /\ UNCHANGED <<snap, deliv, hooks, stale, settled, alone, restarts>>
  BY DEF SendText
<1>2. user'[u] = Idle /\ \A v \in Users : v # u => user'[v] = user[v]
  BY <1>1 DEF IInv, LoopTypes
<1>3. disk' \in Disk /\ disk'.peer = disk.peer
  BY <1>1, TextKeeps DEF IInv, TableTypes
<1>4. TableTypes' /\ HookTypes' /\ LastHookFits' /\ SnapshotFollows' /\ HistoryTypes'
  BY <1>1, <1>3 DEF IInv, TableTypes, HookTypes, LastHookFits, SnapshotFollows, HistoryTypes
<1>5. LoopTypes'
  BY <1>1 DEF IInv, LoopTypes, Idle
<1>6. OneHookEach'
  <2>1. \A x \in Users \cup {"delivery"} : Waits(x) => Waits(x)'
    BY <1>1, <1>2 DEF Waits
  <2>. QED BY <1>1, <2>1, HooksStay
<1>7. BlockIsAlone'
  <2>1. \A v \in Users : alone => user[v].op # "block"
    BY <1>1 DEF IInv, BlockIsAlone
  <2>. QED BY <1>1, <1>2, <2>1 DEF IInv, BlockIsAlone, Idle
<1>8. BlockIsShut'
  BY <1>1 DEF IInv, BlockIsShut
<1>. QED BY <1>4, <1>5, <1>6, <1>7, <1>8 DEF IInv

LEMMA GroupTextKeeps == ASSUME IInv, GroupText PROVE IInv'
<1>1. /\ disk' = Enqueue(disk, "group") /\ disk \in Disk
      /\ UNCHANGED <<snap, deliv, user, hooks, stale, settled, alone, restarts>>
  BY DEF GroupText, IInv, TableTypes
<1>2. disk' \in Disk /\ disk'.peer = disk.peer
  BY <1>1, TableOps DEF Rows
<1>3. Wiped => Wiped'
  BY <1>1 DEF Wiped, Enqueue, Disk
<1>4. TableTypes' /\ LoopTypes' /\ HookTypes' /\ LastHookFits' /\ SnapshotFollows' /\ HistoryTypes'
  BY <1>1, <1>2 DEF IInv, TableTypes, LoopTypes, HookTypes, LastHookFits, SnapshotFollows,
                     HistoryTypes
<1>5. OneHookEach'
  BY <1>1 DEF IInv, OneHookEach, Waits
<1>6. BlockIsAlone' /\ BlockIsShut'
  BY <1>1, <1>3 DEF IInv, BlockIsAlone, BlockIsShut
<1>. QED BY <1>4, <1>5, <1>6 DEF IInv

\* A frame passes the gate, which a Block that is over has shut.
LEMMA GateKeeps ==
  ASSUME IInv, NEW f \in Reliable \cup {"ack"}, Gate(f)
  PROVE  IInv'
<1>1. /\ deliv.pc = "idle" /\ snap # "blocked"
      /\ deliv' = [pc |-> "tx", frame |-> f, late |-> settled]
      /\ alone' = (alone /\ ~Blocking)
      /\ UNCHANGED <<disk, snap, user, hooks, stale, settled, restarts>>
  BY DEF Gate
<1>2. alone' \in BOOLEAN /\ (alone' => alone /\ ~Blocking)
  BY <1>1, Zenon
<1>3. TableTypes' /\ HookTypes' /\ LastHookFits' /\ SnapshotFollows'
  BY <1>1 DEF IInv, TableTypes, HookTypes, LastHookFits, SnapshotFollows
<1>4. HistoryTypes'
  BY <1>1, <1>2 DEF IInv, HistoryTypes
<1>5. LoopTypes'
  <2>1. settled \in BOOLEAN
    BY DEF IInv, HistoryTypes
  <2>. QED BY <1>1, <2>1 DEF IInv, LoopTypes
<1>6. OneHookEach'
  <2>1. \A x \in Users \cup {"delivery"} : Waits(x) => Waits(x)'
    BY <1>1 DEF Waits
  <2>. QED BY <1>1, <2>1, HooksStay
<1>7. BlockIsAlone'
  BY <1>1, <1>2 DEF IInv, BlockIsAlone, Blocking
<1>8. BlockIsShut'
  BY <1>1, <1>2 DEF IInv, BlockIsShut
<1>. QED BY <1>3, <1>4, <1>5, <1>6, <1>7, <1>8 DEF IInv

\* The handler of a fresh envelope: a stranger becomes a contact, nobody else changes.
LEMMA DeliverFreshKeeps == ASSUME IInv, DeliverFresh PROVE IInv'
<1>1. /\ deliv.pc = "tx" /\ deliv.frame \in Reliable
      /\ disk' \in Handle(deliv.frame, EnsureKnown(disk))
      /\ UNCHANGED <<snap, user, stale, settled, alone, restarts>>
  BY DEF DeliverFresh
<1>2. /\ EnsureKnown(disk) \in Disk
      /\ EnsureKnown(disk).peer = IF disk.peer = "none" THEN "contact" ELSE disk.peer
  BY KnownKeeps DEF IInv, TableTypes
<1>3. disk' \in Disk /\ disk'.peer = IF disk.peer = "none" THEN "contact" ELSE disk.peer
  BY <1>1, <1>2, HandleKeeps
<1>4. TableTypes' /\ HistoryTypes'
  BY <1>1, <1>3 DEF IInv, TableTypes, HistoryTypes
<1>5. BlockIsAlone' /\ BlockIsShut'
  BY <1>1, LoopIsBusy
<1>6. CASE disk.peer = "none"
  <2>1. Register("delivery", "contact") /\ deliv' = [deliv EXCEPT !.pc = "hook"]
    BY <1>6 DEF DeliverFresh
  <2>2. LoopTypes' /\ deliv'.pc = "hook"
    BY <1>1, <2>1 DEF IInv, LoopTypes
  <2>3. \A x \in Users \cup {"delivery"} : x = "delivery" \/ Waits(x) => Waits(x)'
    BY <1>1, <2>2 DEF Waits
  <2>4. ~Waits("delivery") /\ "contact" \in PeerState /\ disk'.peer = "contact"
    BY <1>1, <1>3, <1>6 DEF Waits, PeerState
  <2>5. HookTypes' /\ OneHookEach' /\ LastHookFits' /\ SnapshotFollows'
    BY <2>1, <2>3, <2>4, HookAdded
  <2>. QED BY <1>4, <1>5, <2>2, <2>5 DEF IInv
<1>7. CASE disk.peer # "none"
  <2>1. hooks' = hooks /\ deliv' = [deliv EXCEPT !.pc = "ack"]
    BY <1>7 DEF DeliverFresh
  <2>2. LoopTypes'
    BY <1>1, <2>1 DEF IInv, LoopTypes
  <2>3. \A x \in Users \cup {"delivery"} : Waits(x) => Waits(x)'
    BY <1>1 DEF Waits
  <2>4. OneHookEach'
    BY <2>1, <2>3, HooksStay
  <2>5. HookTypes' /\ LastHookFits' /\ SnapshotFollows'
    BY <1>1, <1>3, <1>7, <2>1 DEF IInv, HookTypes, LastHookFits, SnapshotFollows
  <2>. QED BY <1>4, <1>5, <2>2, <2>4, <2>5 DEF IInv
<1>. QED BY <1>6, <1>7

LEMMA DeliverHookKeeps == ASSUME IInv, DeliverHook PROVE IInv'
<1>1. /\ deliv.pc = "hook" /\ RunHook("delivery")
      /\ deliv' = [deliv EXCEPT !.pc = "ack"]
      /\ UNCHANGED <<disk, user, settled, alone, restarts>>
  BY DEF DeliverHook
<1>2. \A x \in Users \cup {"delivery"} : x # "delivery" /\ Waits(x) => Waits(x)'
  BY <1>1 DEF Waits
<1>3. /\ HookTypes' /\ OneHookEach' /\ LastHookFits' /\ SnapshotFollows'
      /\ snap' \in PeerState /\ stale' \in BOOLEAN
  BY <1>1, <1>2, HookTaken
<1>4. TableTypes' /\ HistoryTypes'
  BY <1>1, <1>3 DEF IInv, TableTypes, HistoryTypes
<1>5. LoopTypes'
  BY <1>1 DEF IInv, LoopTypes
<1>6. BlockIsAlone' /\ BlockIsShut'
  BY <1>1, LoopIsBusy
<1>. QED BY <1>3, <1>4, <1>5, <1>6 DEF IInv

\* The other steps of the delivery loop leave the peer's state and the hooks alone.
LEMMA LoopKeeps == ASSUME IInv, DeliverDup \/ SendAck \/ HandleAck PROVE IInv'
<1>1. /\ deliv.pc \in {"tx", "ack"} /\ deliv'.pc \in {"ack", "idle"}
      /\ UNCHANGED <<snap, user, hooks, stale, settled, alone, restarts>>
  BY DEF DeliverDup, SendAck, HandleAck, NoFrame, IInv, LoopTypes
<1>2. disk' \in Disk /\ disk'.peer = disk.peer
  <2>1. disk \in Disk
    BY DEF IInv, TableTypes
  <2>2. CASE HandleAck
    <3>1. PICK S \in SUBSET disk.outbox : disk' = [disk EXCEPT !.outbox = S]
      BY <2>2 DEF HandleAck
    <3>. QED BY <2>1, <3>1 DEF Disk
  <2>3. CASE DeliverDup \/ SendAck
    BY <2>1, <2>3 DEF DeliverDup, SendAck
  <2>. QED BY <2>2, <2>3
<1>3. TableTypes' /\ HookTypes' /\ LastHookFits' /\ SnapshotFollows' /\ HistoryTypes'
  BY <1>1, <1>2 DEF IInv, TableTypes, HookTypes, LastHookFits, SnapshotFollows, HistoryTypes
<1>4. LoopTypes'
  <2>1. CASE DeliverDup
    BY <2>1 DEF IInv, LoopTypes, DeliverDup
  <2>2. CASE SendAck \/ HandleAck
    <3>1. deliv' = NoFrame /\ user' = user
      BY <2>2 DEF SendAck, HandleAck
    <3>. QED BY <3>1 DEF IInv, LoopTypes, NoFrame
  <2>. QED BY <2>1, <2>2
<1>5. OneHookEach'
  <2>1. \A x \in Users \cup {"delivery"} : Waits(x) => Waits(x)'
    BY <1>1 DEF Waits
  <2>. QED BY <1>1, <2>1, HooksStay
<1>6. BlockIsAlone' /\ BlockIsShut'
  BY <1>1, LoopIsBusy
<1>. QED BY <1>3, <1>4, <1>5, <1>6 DEF IInv

\* A restart forgets the hooks and loads the snapshot from the table.
LEMMA RestartKeeps == ASSUME IInv, Restart PROVE IInv'
<1>1. /\ restarts < MaxRestarts /\ restarts' = restarts + 1
      /\ deliv' = NoFrame /\ user' = [u \in Users |-> Idle] /\ hooks' = <<>>
      /\ snap' = disk.peer /\ stale' = FALSE
      /\ UNCHANGED <<disk, settled, alone>>
  BY DEF Restart, PeerList
<1>2. disk \in Disk /\ disk.peer \in PeerState
  BY DEF IInv, TableTypes, Disk
<1>3. TableTypes'
  BY <1>1, <1>2 DEF TableTypes
<1>4. LoopTypes'
  BY <1>1 DEF LoopTypes, NoFrame, Idle
<1>5. HookTypes' /\ OneHookEach' /\ LastHookFits' /\ SnapshotFollows'
  <2>1. DOMAIN hooks' = {}
    BY <1>1
  <2>. QED BY <1>1, <2>1 DEF HookTypes, OneHookEach, LastHookFits, SnapshotFollows
<1>6. HistoryTypes'
  <2>1. restarts' \in 0..MaxRestarts
    BY <1>1, MaxRestartsAssumption DEF IInv, HistoryTypes
  <2>2. stale' \in BOOLEAN
    BY <1>1, Zenon
  <2>. QED BY <1>1, <2>1, <2>2 DEF IInv, HistoryTypes
<1>7. BlockIsAlone'
  BY <1>1 DEF BlockIsAlone, Idle
<1>8. BlockIsShut'
  BY <1>1 DEF IInv, BlockIsShut, Wiped, NoFrame, Idle
<1>. QED BY <1>3, <1>4, <1>5, <1>6, <1>7, <1>8 DEF IInv

LEMMA StutterKeeps == ASSUME IInv, UNCHANGED vars PROVE IInv'
<1>1. UNCHANGED <<disk, snap, deliv, user, hooks, stale, settled, alone, restarts>>
  BY DEF vars
<1>2. TableTypes' /\ LoopTypes' /\ HookTypes' /\ HistoryTypes'
  BY <1>1 DEF IInv, TableTypes, LoopTypes, HookTypes, HistoryTypes
<1>3. OneHookEach' /\ LastHookFits' /\ SnapshotFollows'
  BY <1>1 DEF IInv, OneHookEach, Waits, LastHookFits, SnapshotFollows
<1>4. BlockIsAlone' /\ BlockIsShut'
  BY <1>1 DEF IInv, BlockIsAlone, BlockIsShut, Wiped
<1>. QED BY <1>2, <1>3, <1>4 DEF IInv

-----------------------------------------------------------------------------
(* The theorems                                                            *)

\* The invariant holds of every interleaving of commands, hooks, the delivery loop and
\* restarts.
THEOREM ContactsInvariant == Spec => []IInv
<1>1. IInv /\ [Next]_vars => IInv'
  <2>. SUFFICES ASSUME IInv, [Next]_vars PROVE IInv'
    OBVIOUS
  <2>1. ASSUME NEW u \in Users, NEW op \in {"add", "block", "unblock", "text"}, Check(u, op)
        PROVE  IInv'
    BY <2>1, CheckKeeps
  <2>2. ASSUME NEW u \in Users, AddByInvite(u) \/ Unblock(u) \/ Block(u) \/ Return(u) \/ SendText(u)
        PROVE  IInv'
    BY <2>2, LiftKeeps, BlockKeeps, ReturnKeeps, SendTextKeeps
  <2>3. CASE GroupText
    BY <2>3, GroupTextKeeps
  <2>4. CASE \E f \in Reliable \cup {"ack"} : Gate(f)
    BY <2>4, GateKeeps
  <2>5. CASE DeliverFresh \/ DeliverDup \/ DeliverHook \/ SendAck \/ HandleAck
    BY <2>5, DeliverFreshKeeps, DeliverHookKeeps, LoopKeeps
  <2>6. CASE Restart
    BY <2>6, RestartKeeps
  <2>7. CASE UNCHANGED vars
    BY <2>7, StutterKeeps
  <2>. QED BY <2>1, <2>2, <2>3, <2>4, <2>5, <2>6, <2>7 DEF Next
<1>. QED BY InitHolds, <1>1, PTL DEF Spec

\* Every variable has its type, for any number of clients and restarts (tables peers,
\* outbox, sessions, handshakes; Manager.states).
THEOREM ContactsTypes == Spec => []TypeOK
BY ContactsInvariant, IInvTypes, PTL

\* At rest the snapshot that gates frames and commands is the table, unless the hooks of
\* two transactions ran in the other order (AfterCommit in store/db.go).
THEOREM ContactsSnapshot == Spec => []SnapshotFollows
<1>1. IInv => SnapshotFollows
  BY DEF IInv
<1>. QED BY ContactsInvariant, <1>1, PTL

\* A Block that nothing overlapped wipes everything and stays whole until it is undone
\* (comment of Block).
THEOREM ContactsBlockTotal == Spec => []UndisturbedBlockIsTotal
<1>1. IInv => UndisturbedBlockIsTotal
  BY DEF IInv, BlockIsShut, Wiped, UndisturbedBlockIsTotal
<1>. QED BY ContactsInvariant, <1>1, PTL

\* No frame, restart or other command lifts a block: only the transaction of an AddByInvite
\* or an Unblock does (comment of EnsureKnownTx).
THEOREM ContactsOnlyUser == Spec => OnlyUserLiftsBlock
<1>. DEFINE Lifts == disk.peer = "blocked" /\ disk'.peer # "blocked" =>
              \E u \in Users : user[u].pc = "tx" /\ user[u].op \in {"add", "unblock"}
<1>1. IInv /\ [Next]_vars => [Lifts]_vars
  <2>. SUFFICES ASSUME IInv, Next, disk.peer = "blocked", disk'.peer # "blocked"
                PROVE  \E u \in Users : user[u].pc = "tx" /\ user[u].op \in {"add", "unblock"}
    OBVIOUS
  <2>0. disk \in Disk
    BY DEF IInv, TableTypes
  <2>1. ASSUME NEW u \in Users, AddByInvite(u) \/ Unblock(u)
        PROVE  user[u].pc = "tx" /\ user[u].op \in {"add", "unblock"}
    BY <2>1 DEF AddByInvite, Unblock, PutPeer
  <2>2. ASSUME NEW u \in Users, Block(u) PROVE FALSE
    BY <2>0, <2>2, WipeWipes DEF Block, PutPeer
  <2>3. ASSUME NEW u \in Users, SendText(u) PROVE FALSE
    BY <2>0, <2>3, TextKeeps DEF SendText
  <2>4. CASE GroupText
    <3>1. "group" \in Rows
      BY DEF Rows
    <3>. QED BY <2>0, <2>4, <3>1, TableOps DEF GroupText
  <2>5. CASE DeliverFresh
    <3>1. /\ EnsureKnown(disk) \in Disk /\ EnsureKnown(disk).peer = "blocked"
          /\ deliv.frame \in Reliable /\ disk' \in Handle(deliv.frame, EnsureKnown(disk))
      BY <2>0, <2>5, KnownKeeps DEF DeliverFresh
    <3>. QED BY <3>1, HandleKeeps
  <2>6. CASE HandleAck
    BY <2>0, <2>6 DEF HandleAck, Disk
  <2>7. ASSUME NEW u \in Users,
               \/ Return(u)
               \/ \E op \in {"add", "block", "unblock", "text"} : Check(u, op)
        PROVE  FALSE
    BY <2>7 DEF Return, Check
  <2>8. CASE \/ \E f \in Reliable \cup {"ack"} : Gate(f)
             \/ DeliverDup \/ DeliverHook \/ SendAck \/ Restart
    BY <2>8 DEF Gate, DeliverDup, DeliverHook, SendAck, Restart
  <2>. QED BY <2>1, <2>2, <2>3, <2>4, <2>5, <2>6, <2>7, <2>8 DEF Next
<1>. QED BY ContactsInvariant, <1>1, PTL DEF Spec, OnlyUserLiftsBlock

=============================================================================
