------------------------------ MODULE Session ------------------------------
(***************************************************************************)
(* How two nodes agree on a Double Ratchet session (chat/manager.go):      *)
(* handshakes that may collide, texts that wait for a session, envelopes   *)
(* of a replaced session, and the healing handshake that answers them.     *)
(*                                                                         *)
(* The transport below is module Outbox: every envelope is handled exactly *)
(* once, in any order.  A handler is one database transaction with all of  *)
(* its effects (new envelopes included), so it is one action, and a crash  *)
(* between actions loses nothing: both nodes' states are on disk.          *)
(*                                                                         *)
(* Abstractions.  A session is known by the sid of the handshake that made *)
(* it, and decrypts whatever was encrypted under the same sid (up to       *)
(* ratchet.MaxSkip messages out of order).  Node 1 has the smaller NodeID. *)
(* Malformed payloads, which are eaten, and texts deleted while they wait  *)
(* are left out.                                                           *)
(***************************************************************************)
EXTENDS Naturals, FiniteSets

CONSTANTS
  Texts,      \* chat texts: they wait for a session (SendText)
  Sealed,     \* service payloads: refused without one (SendSealed)
  Author,     \* Author[i]: the node that sends i
  MaxResets   \* bound: times a node blocks and unblocks the other

Nodes == {1, 2}
Items == Texts \cup Sealed
Other(n) == 3 - n

ASSUME AuthorAssumption == Author \in [Items -> Nodes] /\ Texts \cap Sealed = {}
ASSUME MaxResetsAssumption == MaxResets \in Nat

Sid == Nat            \* 0: no session, no handshake
State == [sid : Sid, ready : BOOLEAN, hs : Sid, pend : SUBSET Texts]
Blank == [sid |-> 0, ready |-> FALSE, hs |-> 0, pend |-> {}]
Envelope ==
  [kind : {"init", "ack"}, from : Nodes, sid : Sid]
    \cup [kind : {"item"}, from : Nodes, sid : Sid, item : Items]

VARIABLES
  node,      \* tables sessions, handshakes and pending_chat of each node
  net,       \* envelopes in an outbox or on the wire, not yet handled
  nextSid,   \* the next fresh sid
  offered,   \* items given to SendText or SendSealed
  got,       \* items in the recipient's history
  eaten,     \* items acknowledged, and dropped, by a recipient that cannot decrypt
  wiped,     \* items removed by a block, or refused by SendSealed
  resets

vars == <<node, net, nextSid, offered, got, eaten, wiped, resets>>

TypeOK ==
  /\ node \in [Nodes -> State]
  /\ net \subseteq Envelope
  /\ nextSid \in Nat \ {0}
  /\ offered \subseteq Items /\ got \subseteq Items
  /\ eaten \subseteq Items /\ wiped \subseteq Items
  /\ resets \in 0..MaxResets

Init ==
  /\ node = [n \in Nodes |-> Blank]
  /\ net = {} /\ nextSid = 1
  /\ offered = {} /\ got = {} /\ eaten = {} /\ wiped = {}
  /\ resets = 0

-----------------------------------------------------------------------------
(* Parts of handlers.  s is the state of node n, E the envelopes in flight *)
(* once the handler has consumed its own.                                  *)

CanSend(s) == s.sid # 0 /\ s.ready

\* encryptEnqueue of the items of I under the session of s.
Encrypted(n, s, I) == {[kind |-> "item", from |-> n, sid |-> s.sid, item |-> i] : i \in I}

\* Operators named Bug... are what their neighbour would be after a plausible
\* mistake; nothing uses them, each breaks a property of this module.
BugHandshakeAnew(n, s, E) ==
  /\ node' = [node EXCEPT ![n] = [s EXCEPT !.hs = nextSid]]
  /\ net' = E \cup {[kind |-> "init", from |-> n, sid |-> nextSid]}
  /\ nextSid' = nextSid + 1

\* ensureHandshake: start one unless one is under way.
EnsureHandshake(n, s, E) ==
  IF s.hs # 0
  THEN /\ node' = [node EXCEPT ![n] = s]
       /\ net' = E
       /\ UNCHANGED nextSid
  ELSE /\ node' = [node EXCEPT ![n] = [s EXCEPT !.hs = nextSid]]
       /\ net' = E \cup {[kind |-> "init", from |-> n, sid |-> nextSid]}
       /\ nextSid' = nextSid + 1

BugKeepWaiting(n, s, E) ==
  /\ node' = [node EXCEPT ![n] = s]
  /\ net' = E \cup (IF CanSend(s) THEN Encrypted(n, s, s.pend) ELSE {})
  /\ UNCHANGED nextSid

\* drainPending and saveSession: a session that can send takes what waited.
DrainAndSave(n, s, E) ==
  /\ node' = [node EXCEPT ![n] = IF CanSend(s) THEN [s EXCEPT !.pend = {}] ELSE s]
  /\ net' = E \cup (IF CanSend(s) THEN Encrypted(n, s, s.pend) ELSE {})
  /\ UNCHANGED nextSid

-----------------------------------------------------------------------------
\* SendText: encrypted at once, or waiting for a handshake.
SendText(t) ==
  LET n == Author[t]  s == node[n] IN
  /\ t \in Texts \ offered
  /\ offered' = offered \cup {t}
  /\ IF CanSend(s)
     THEN /\ net' = net \cup Encrypted(n, s, {t})
          /\ UNCHANGED <<node, nextSid>>
     ELSE EnsureHandshake(n, [s EXCEPT !.pend = @ \cup {t}], net)
  /\ UNCHANGED <<got, eaten, wiped, resets>>

BugSealedWaits(i) ==
  LET n == Author[i]  s == node[n] IN
  /\ i \in Sealed \ offered
  /\ offered' = offered \cup {i}
  /\ EnsureHandshake(n, [s EXCEPT !.pend = @ \cup {i}], net)
  /\ UNCHANGED <<got, eaten, wiped, resets>>

\* SendSealed: ErrNoSession leaves a handshake behind, and no payload.
SendSealed(i) ==
  LET n == Author[i]  s == node[n] IN
  /\ i \in Sealed \ offered
  /\ offered' = offered \cup {i}
  /\ IF CanSend(s)
     THEN /\ net' = net \cup Encrypted(n, s, {i})
          /\ UNCHANGED <<node, nextSid, wiped>>
     ELSE EnsureHandshake(n, s, net) /\ wiped' = wiped \cup {i}
  /\ UNCHANGED <<got, eaten, resets>>

\* onChat and RegisterSealed over decryptIncoming.
ReceiveItem(e) ==
  LET n == Other(e.from)  s == node[n]  rest == net \ {e} IN
  /\ e.kind = "item"
  /\ IF s.sid = e.sid
     THEN /\ got' = got \cup {e.item} /\ UNCHANGED eaten
          /\ DrainAndSave(n, [s EXCEPT !.ready = TRUE], rest)
     ELSE /\ eaten' = eaten \cup {e.item} /\ UNCHANGED got
          /\ EnsureHandshake(n, s, rest)
  /\ UNCHANGED <<offered, wiped, resets>>

BugNoTieBreak(n) == node[n].hs # 0

\* onSessionInit: in a collision the smaller NodeID stays the initiator.
WeWin(n) == node[n].hs # 0 /\ n < Other(n)

OnSessionInit(e) ==
  LET n == Other(e.from)  rest == net \ {e} IN
  /\ e.kind = "init"
  /\ IF WeWin(n)
     THEN net' = rest /\ UNCHANGED node
     ELSE /\ node' = [node EXCEPT ![n] =
                        [node[n] EXCEPT !.sid = e.sid, !.ready = FALSE, !.hs = 0]]
          /\ net' = rest \cup {[kind |-> "ack", from |-> n, sid |-> e.sid]}
  /\ UNCHANGED <<nextSid, offered, got, eaten, wiped, resets>>

\* onSessionInitAck: only the answer to the handshake under way counts.
OnSessionInitAck(e) ==
  LET n == Other(e.from)  rest == net \ {e} IN
  /\ e.kind = "ack"
  /\ IF node[n].hs = e.sid
     THEN DrainAndSave(n, [node[n] EXCEPT !.sid = e.sid, !.ready = TRUE, !.hs = 0], rest)
     ELSE net' = rest /\ UNCHANGED <<node, nextSid>>
  /\ UNCHANGED <<offered, got, eaten, wiped, resets>>

\* n blocks the other node and unblocks it later: its session, handshake and
\* waiting texts are gone, and of its envelopes those not yet on the wire.
Reset(n) ==
  /\ resets < MaxResets /\ resets' = resets + 1
  /\ node' = [node EXCEPT ![n] = Blank]
  /\ \E S \in SUBSET {e \in net : e.from = n} :
       /\ net' = net \ S
       /\ wiped' = wiped \cup node[n].pend \cup {e.item : e \in {x \in S : x.kind = "item"}}
  /\ UNCHANGED <<nextSid, offered, got, eaten>>

Handle(e) == ReceiveItem(e) \/ OnSessionInit(e) \/ OnSessionInitAck(e)

Next ==
  \/ \E t \in Texts : SendText(t)
  \/ \E i \in Sealed : SendSealed(i)
  \/ \E e \in net : Handle(e)
  \/ \E n \in Nodes : Reset(n)

Spec == Init /\ [][Next]_vars

\* Assumed of the delivery layer: every envelope is handled in the end, those too that a
\* handler enqueues, which need a kick from elsewhere (module Outbox, Quiet).  Nobody has
\* to write.
FairSpec == Spec /\ WF_vars(\E e \in net : Handle(e))

-----------------------------------------------------------------------------
(* Properties.                                                             *)

Undisturbed == resets = 0

\* The handshake of the smaller NodeID, the one that silences the other side's
\* (onSessionInit), is always on its way to an answer: its init or the answer
\* is in flight, however inits, answers and healing handshakes overtake each
\* other.
WinnerIsAnswered ==
  Undisturbed /\ node[1].hs # 0 =>
    \/ [kind |-> "init", from |-> 1, sid |-> node[1].hs] \in net
    \/ [kind |-> "ack", from |-> 2, sid |-> node[1].hs] \in net

\* Whatever sessions come and go, an item accepted for sending is at exactly
\* one place, in one copy: waiting, in flight, read, eaten or wiped.
Waiting(t) == \E n \in Nodes : t \in node[n].pend
One(b) == IF b THEN 1 ELSE 0
Copies(i) ==
  Cardinality({e \in net : e.kind = "item" /\ e.item = i}) + One(Waiting(i))
    + One(i \in got) + One(i \in eaten) + One(i \in wiped)
ItemInOneCopy == \A i \in Items : Copies(i) = One(i \in offered)

\* As long as only one node writes, each of its texts is read in the end: no
\* order of handshake and texts loses or strands one.
OneWay == Undisturbed /\ \E n \in Nodes : \A i \in offered : Author[i] = n
OneWayIsRead == \A t \in Texts : t \in offered ~> t \in got \/ ~OneWay

\* A collision ends in one session in which the talk goes on (apptest,
\* TestSimultaneousInitCollision): with nothing in flight, both nodes hold it.
CollisionEndsInOneSession ==
  Undisturbed /\ net = {} => node[1].sid = node[2].sid

===========================================================================
