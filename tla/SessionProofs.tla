--------------------------- MODULE SessionProofs ---------------------------
(***************************************************************************)
(* Theorems about Session: its types, that the handshake of the node with  *)
(* the smaller NodeID is never left without an answer on its way, and that *)
(* every item is at one place, in one copy.                                *)
(*                                                                         *)
(* WinnerIsAnswered is inductive together with TypeOK: an init of node 1   *)
(* leaves the net only by being answered (node 2 never wins a collision),  *)
(* and the answer only by finishing the handshake.                         *)
(*                                                                         *)
(* ItemInOneCopy counts; its invariant says that the items offered are     *)
(* divided among five places (Divided), no two envelopes carry the same    *)
(* (NoTwice), and an item waits at its author only (WaitsAtAuthor).        *)
(***************************************************************************)
EXTENDS Session, FiniteSetTheorems, TLAPS

\* A handler that ends in ensureHandshake or in drainPending: its state, what
\* it puts in flight and the next sid have their types.
LEMMA HandshakeType ==
  ASSUME TypeOK, NEW n \in Nodes, NEW s \in State, NEW E \in SUBSET Envelope,
         EnsureHandshake(n, s, E)
  PROVE  /\ node' \in [Nodes -> State] /\ net' \subseteq Envelope
         /\ nextSid' \in Nat \ {0}
<1> USE DEF TypeOK, Sid
<1>1. CASE s.hs # 0
  BY <1>1 DEF EnsureHandshake
<1>2. CASE s.hs = 0
  <2>1. [s EXCEPT !.hs = nextSid] \in State
    BY DEF State
  <2>2. [kind |-> "init", from |-> n, sid |-> nextSid] \in Envelope
    BY DEF Envelope
  <2>3. nextSid + 1 \in Nat \ {0}
    OBVIOUS
  <2> QED BY <1>2, <2>1, <2>2, <2>3 DEF EnsureHandshake
<1> QED BY <1>1, <1>2

LEMMA DrainType ==
  ASSUME TypeOK, NEW n \in Nodes, NEW s \in State, NEW E \in SUBSET Envelope,
         DrainAndSave(n, s, E)
  PROVE  /\ node' \in [Nodes -> State] /\ net' \subseteq Envelope
         /\ nextSid' \in Nat \ {0}
<1>1. [s EXCEPT !.pend = {}] \in State
  BY DEF State
<1>2. Encrypted(n, s, s.pend) \subseteq Envelope
  BY DEF Encrypted, Envelope, State, Items
<1> QED BY <1>1, <1>2 DEF TypeOK, DrainAndSave

\* What an envelope in flight carries.
LEMMA EnvelopeFields ==
  ASSUME TypeOK, NEW e \in net
  PROVE  /\ e.from \in Nodes /\ Other(e.from) \in Nodes /\ e.sid \in Nat
         /\ e.kind = "item" => e.item \in Items
         /\ net \ {e} \in SUBSET Envelope
<1>1. e \in Envelope
  BY DEF TypeOK
<1>2. CASE e \in [kind : {"init", "ack"}, from : Nodes, sid : Sid]
  BY <1>2 DEF Nodes, Other, Sid, TypeOK
<1>3. CASE e \in [kind : {"item"}, from : Nodes, sid : Sid, item : Items]
  BY <1>3 DEF Nodes, Other, Sid, TypeOK
<1> QED BY <1>1, <1>2, <1>3 DEF Envelope

LEMMA SessionTypeInit == Init => TypeOK
<1>1. ASSUME Init  PROVE node \in [Nodes -> State]
  BY <1>1 DEF Init, Blank, State, Sid
<1> QED BY <1>1, MaxResetsAssumption DEF Init, TypeOK

\* Every action keeps the types, one step per action.
LEMMA SessionTypeStep == TypeOK /\ [Next]_vars => TypeOK'
<1> SUFFICES ASSUME TypeOK, [Next]_vars  PROVE TypeOK'
  OBVIOUS
<1> DEFINE Book == /\ offered' \subseteq Items /\ got' \subseteq Items
                   /\ eaten' \subseteq Items /\ wiped' \subseteq Items
                   /\ resets' \in 0..MaxResets
           Core == /\ node' \in [Nodes -> State] /\ net' \subseteq Envelope
                   /\ nextSid' \in Nat \ {0}
<1>1. ASSUME NEW t \in Texts, SendText(t)  PROVE TypeOK'
  <2>1. t \in Items /\ Author[t] \in Nodes /\ node[Author[t]] \in State
    BY AuthorAssumption DEF Items, TypeOK
  <2>2. Book
    BY <1>1, <2>1 DEF SendText, TypeOK
  <2>3. CASE CanSend(node[Author[t]])
    <3>1. Encrypted(Author[t], node[Author[t]], {t}) \subseteq Envelope
      BY <2>1 DEF Encrypted, Envelope, State
    <3> QED BY <1>1, <2>2, <2>3, <3>1 DEF SendText, TypeOK
  <2>4. CASE ~CanSend(node[Author[t]])
    <3> DEFINE s == [node[Author[t]] EXCEPT !.pend = @ \cup {t}]
    <3>1. s \in State
      BY <2>1 DEF State
    <3>2. EnsureHandshake(Author[t], s, net)
      BY <1>1, <2>4 DEF SendText
    <3>3. Core
      BY <2>1, <3>1, <3>2, HandshakeType DEF TypeOK
    <3> QED BY <2>2, <3>3 DEF TypeOK
  <2> QED BY <2>3, <2>4
<1>2. ASSUME NEW i \in Sealed, SendSealed(i)  PROVE TypeOK'
  <2>1. i \in Items /\ Author[i] \in Nodes /\ node[Author[i]] \in State
    BY AuthorAssumption DEF Items, TypeOK
  <2>2. Book
    BY <1>2, <2>1 DEF SendSealed, TypeOK
  <2>3. CASE CanSend(node[Author[i]])
    <3>1. Encrypted(Author[i], node[Author[i]], {i}) \subseteq Envelope
      BY <2>1 DEF Encrypted, Envelope, State
    <3> QED BY <1>2, <2>2, <2>3, <3>1 DEF SendSealed, TypeOK
  <2>4. CASE ~CanSend(node[Author[i]])
    <3>1. EnsureHandshake(Author[i], node[Author[i]], net)
      BY <1>2, <2>4 DEF SendSealed
    <3>2. Core
      BY <2>1, <3>1, HandshakeType DEF TypeOK
    <3> QED BY <2>2, <3>2 DEF TypeOK
  <2> QED BY <2>3, <2>4
<1>3. ASSUME NEW e \in net, ReceiveItem(e)  PROVE TypeOK'
  <2> DEFINE n == Other(e.from)
  <2>1. /\ n \in Nodes /\ node[n] \in State /\ e.item \in Items
        /\ net \ {e} \in SUBSET Envelope
    BY <1>3, EnvelopeFields DEF TypeOK, ReceiveItem
  <2>2. Book
    BY <1>3, <2>1 DEF ReceiveItem, TypeOK
  <2>3. [node[n] EXCEPT !.ready = TRUE] \in State
    BY <2>1 DEF State
  <2>4. \/ DrainAndSave(n, [node[n] EXCEPT !.ready = TRUE], net \ {e})
        \/ EnsureHandshake(n, node[n], net \ {e})
    BY <1>3 DEF ReceiveItem
  <2>5. Core
    BY <2>1, <2>3, <2>4, HandshakeType, DrainType
  <2> QED BY <2>2, <2>5 DEF TypeOK
<1>4. ASSUME NEW e \in net, OnSessionInit(e)  PROVE TypeOK'
  <2> DEFINE n == Other(e.from)
  <2>1. /\ n \in Nodes /\ node[n] \in State /\ e.sid \in Nat
        /\ net \ {e} \in SUBSET Envelope
    BY <1>4, EnvelopeFields DEF TypeOK
  <2>2. [node[n] EXCEPT !.sid = e.sid, !.ready = FALSE, !.hs = 0] \in State
    BY <2>1 DEF State, Sid
  <2>3. [kind |-> "ack", from |-> n, sid |-> e.sid] \in Envelope
    BY <2>1 DEF Envelope, Sid
  <2>4. node' \in [Nodes -> State] /\ net' \subseteq Envelope
    BY <1>4, <2>1, <2>2, <2>3 DEF OnSessionInit, TypeOK
  <2> QED BY <1>4, <2>4 DEF OnSessionInit, TypeOK
<1>5. ASSUME NEW e \in net, OnSessionInitAck(e)  PROVE TypeOK'
  <2> DEFINE n == Other(e.from)
             s == [node[n] EXCEPT !.sid = e.sid, !.ready = TRUE, !.hs = 0]
  <2>1. /\ n \in Nodes /\ node[n] \in State /\ e.sid \in Nat
        /\ net \ {e} \in SUBSET Envelope
    BY <1>5, EnvelopeFields DEF TypeOK
  <2>2. s \in State
    BY <2>1 DEF State, Sid
  <2>3. Core
    <3>1. CASE DrainAndSave(n, s, net \ {e})
      BY <3>1, <2>1, <2>2, DrainType
    <3>2. CASE net' = net \ {e} /\ UNCHANGED <<node, nextSid>>
      BY <3>2, <2>1 DEF TypeOK
    <3> QED BY <1>5, <3>1, <3>2 DEF OnSessionInitAck
  <2> QED BY <1>5, <2>3 DEF OnSessionInitAck, TypeOK
<1>6. ASSUME NEW n \in Nodes, Reset(n)  PROVE TypeOK'
  <2>1. Blank \in State
    BY DEF Blank, State, Sid
  <2>2. \A x \in net : x.kind = "item" => x.item \in Items
    BY EnvelopeFields
  <2>3. wiped' \subseteq Items
    BY <1>6, <2>2 DEF Reset, TypeOK, State, Items
  <2>4. resets' \in 0..MaxResets
    BY <1>6, MaxResetsAssumption DEF Reset, TypeOK
  <2> QED BY <1>6, <2>1, <2>3, <2>4 DEF Reset, TypeOK
<1>7. CASE UNCHANGED vars
  BY <1>7 DEF vars, TypeOK
<1> QED BY <1>1, <1>2, <1>3, <1>4, <1>5, <1>6, <1>7 DEF Next, Handle

\* The tables and envelopes of the handshake code stay in their domains, for
\* any texts, authors and number of resets.
THEOREM SessionTypeCorrect == Spec => []TypeOK
  BY SessionTypeInit, SessionTypeStep, PTL DEF Spec

-----------------------------------------------------------------------------
\* An answer to the handshake h of node 1 is on its way among the envelopes E.
OnItsWay(E, h) ==
  \/ [kind |-> "init", from |-> 1, sid |-> h] \in E
  \/ [kind |-> "ack", from |-> 2, sid |-> h] \in E

\* ensureHandshake and drainPending of either node leave the handshake of
\* node 1 on its way, when the handler they end has done so.
LEMMA PartsKeepAnswer ==
  ASSUME TypeOK, NEW n \in Nodes, NEW s \in State, NEW E \in SUBSET Envelope,
         EnsureHandshake(n, s, E) \/ DrainAndSave(n, s, E),
         n = 1 /\ s.hs # 0 => OnItsWay(E, s.hs),
         n = 2 /\ node[1].hs # 0 => OnItsWay(E, node[1].hs)
  PROVE  node'[1].hs # 0 => OnItsWay(net', node'[1].hs)
<1>1. E \subseteq net'
  BY DEF EnsureHandshake, DrainAndSave
<1>2. CASE n = 2
  <2>1. node'[1] = node[1]
    BY <1>2 DEF EnsureHandshake, DrainAndSave, TypeOK, Nodes
  <2> QED BY <1>1, <1>2, <2>1 DEF OnItsWay
<1>3. CASE n = 1
  <2>1. CASE DrainAndSave(n, s, E)
    <3>1. node'[1].hs = s.hs
      BY <1>3, <2>1 DEF DrainAndSave, TypeOK, Nodes, State
    <3> QED BY <1>1, <1>3, <3>1 DEF OnItsWay
  <2>2. CASE EnsureHandshake(n, s, E) /\ s.hs # 0
    <3>1. node'[1].hs = s.hs
      BY <1>3, <2>2 DEF EnsureHandshake, TypeOK, Nodes, State
    <3> QED BY <1>1, <1>3, <3>1 DEF OnItsWay
  <2>3. CASE EnsureHandshake(n, s, E) /\ s.hs = 0
    <3>1. node'[1].hs = nextSid
      BY <1>3, <2>3 DEF EnsureHandshake, TypeOK, Nodes, State
    <3>2. [kind |-> "init", from |-> 1, sid |-> nextSid] \in net'
      BY <1>3, <2>3 DEF EnsureHandshake
    <3> QED BY <3>1, <3>2 DEF OnItsWay
  <2> QED BY <2>1, <2>2, <2>3
<1> QED BY <1>2, <1>3 DEF Nodes

\* Consuming an envelope that is neither the init nor the answer of h leaves
\* h on its way.
LEMMA OthersConsumed ==
  ASSUME NEW E, NEW e, NEW h, OnItsWay(E, h),
         e # [kind |-> "init", from |-> 1, sid |-> h],
         e # [kind |-> "ack", from |-> 2, sid |-> h]
  PROVE  OnItsWay(E \ {e}, h)
BY DEF OnItsWay

LEMMA WinnerStep ==
  TypeOK /\ WinnerIsAnswered /\ [Next]_vars => WinnerIsAnswered'
<1> SUFFICES ASSUME TypeOK, WinnerIsAnswered, [Next]_vars, Undisturbed',
                    node'[1].hs # 0
             PROVE  OnItsWay(net', node'[1].hs)
  BY DEF WinnerIsAnswered, OnItsWay
<1>0. ASSUME resets = 0, node[1].hs # 0  PROVE OnItsWay(net, node[1].hs)
  BY <1>0 DEF WinnerIsAnswered, Undisturbed, OnItsWay
<1>1. ASSUME NEW t \in Texts, SendText(t)  PROVE OnItsWay(net', node'[1].hs)
  <2>1. Author[t] \in Nodes /\ node[Author[t]] \in State /\ resets = 0
    BY <1>1, AuthorAssumption DEF Items, TypeOK, SendText, Undisturbed
  <2>2. CASE CanSend(node[Author[t]])
    BY <1>0, <1>1, <2>1, <2>2 DEF SendText, OnItsWay
  <2>3. CASE ~CanSend(node[Author[t]])
    <3> DEFINE s == [node[Author[t]] EXCEPT !.pend = @ \cup {t}]
    <3>1. s \in State /\ s.hs = node[Author[t]].hs
      BY <2>1 DEF State
    <3>2. EnsureHandshake(Author[t], s, net)
      BY <1>1, <2>3 DEF SendText
    <3>3. Author[t] = 1 /\ s.hs # 0 => OnItsWay(net, s.hs)
      BY <1>0, <2>1, <3>1
    <3>4. net \in SUBSET Envelope
      BY DEF TypeOK
    <3> HIDE DEF s
    <3> QED BY <1>0, <2>1, <3>1, <3>2, <3>3, <3>4, PartsKeepAnswer
  <2> QED BY <2>2, <2>3
<1>2. ASSUME NEW i \in Sealed, SendSealed(i)  PROVE OnItsWay(net', node'[1].hs)
  <2>1. Author[i] \in Nodes /\ node[Author[i]] \in State /\ resets = 0
    BY <1>2, AuthorAssumption DEF Items, TypeOK, SendSealed, Undisturbed
  <2>2. CASE CanSend(node[Author[i]])
    BY <1>0, <1>2, <2>1, <2>2 DEF SendSealed, OnItsWay
  <2>3. CASE ~CanSend(node[Author[i]])
    <3>1. EnsureHandshake(Author[i], node[Author[i]], net)
      BY <1>2, <2>3 DEF SendSealed
    <3> QED BY <1>0, <2>1, <3>1, PartsKeepAnswer DEF TypeOK
  <2> QED BY <2>2, <2>3
<1>3. ASSUME NEW e \in net, ReceiveItem(e)  PROVE OnItsWay(net', node'[1].hs)
  <2> DEFINE n == Other(e.from)
             s == [node[n] EXCEPT !.ready = TRUE]
  <2>1. n \in Nodes /\ node[n] \in State /\ net \ {e} \in SUBSET Envelope /\ resets = 0
    BY <1>3, EnvelopeFields DEF TypeOK, ReceiveItem, Undisturbed
  <2>2. s \in State /\ s.hs = node[n].hs
    BY <2>1 DEF State
  <2>3. node[1].hs # 0 => OnItsWay(net \ {e}, node[1].hs)
    BY <1>0, <1>3, <2>1, OthersConsumed DEF ReceiveItem
  <2>4. DrainAndSave(n, s, net \ {e}) \/ EnsureHandshake(n, node[n], net \ {e})
    BY <1>3 DEF ReceiveItem
  <2>5. n = 1 /\ s.hs # 0 => OnItsWay(net \ {e}, s.hs)
    BY <2>2, <2>3
  <2> HIDE DEF n, s
  <2>6. CASE DrainAndSave(n, s, net \ {e})
    BY <2>1, <2>2, <2>3, <2>5, <2>6, PartsKeepAnswer
  <2>7. CASE EnsureHandshake(n, node[n], net \ {e})
    BY <2>1, <2>3, <2>7, PartsKeepAnswer
  <2> QED BY <2>4, <2>6, <2>7
<1>4. ASSUME NEW e \in net, OnSessionInit(e)  PROVE OnItsWay(net', node'[1].hs)
  <2> DEFINE n == Other(e.from)
  <2>1. /\ n \in Nodes /\ e.from \in Nodes /\ e.sid \in Nat /\ node[n] \in State
        /\ resets = 0
    BY <1>4, EnvelopeFields DEF TypeOK, OnSessionInit, Undisturbed
  <2>2. CASE n = 1
    <3>1. WeWin(n) \/ node'[1].hs = 0
      <4> DEFINE s == [node[n] EXCEPT !.sid = e.sid, !.ready = FALSE, !.hs = 0]
      <4>1. s.hs = 0
        BY <2>1 DEF State
      <4>2. WeWin(n) \/ node' = [node EXCEPT ![n] = s]
        BY <1>4 DEF OnSessionInit
      <4> HIDE DEF s
      <4>3. WeWin(n) \/ node'[1] = s
        BY <2>2, <4>2 DEF TypeOK, Nodes
      <4> QED BY <4>1, <4>3
    <3>2. node' = node /\ net' = net \ {e}
      BY <1>4, <3>1 DEF OnSessionInit
    <3>3. e.from = 2 /\ e.kind = "init"
      BY <1>4, <2>1, <2>2 DEF OnSessionInit, Nodes, Other
    <3> QED BY <1>0, <2>1, <3>2, <3>3, OthersConsumed
  <2>3. CASE n = 2
    <3>1. ~WeWin(n)
      BY <2>3 DEF WeWin, Other
    <3>2. /\ node'[1] = node[1]
          /\ net' = (net \ {e}) \cup {[kind |-> "ack", from |-> 2, sid |-> e.sid]}
      BY <1>4, <2>3, <3>1 DEF OnSessionInit, TypeOK, Nodes
    <3>3. CASE e = [kind |-> "init", from |-> 1, sid |-> node[1].hs]
      BY <3>2, <3>3 DEF OnItsWay
    <3>4. CASE e # [kind |-> "init", from |-> 1, sid |-> node[1].hs]
      <4>1. OnItsWay(net \ {e}, node[1].hs)
        BY <1>0, <1>4, <2>1, <3>2, <3>4, OthersConsumed DEF OnSessionInit
      <4> QED BY <3>2, <4>1 DEF OnItsWay
    <3> QED BY <3>3, <3>4
  <2> QED BY <2>1, <2>2, <2>3 DEF Nodes
<1>5. ASSUME NEW e \in net, OnSessionInitAck(e)  PROVE OnItsWay(net', node'[1].hs)
  <2> DEFINE n == Other(e.from)
             s == [node[n] EXCEPT !.sid = e.sid, !.ready = TRUE, !.hs = 0]
  <2>1. /\ n \in Nodes /\ e.from \in Nodes /\ e.sid \in Nat /\ node[n] \in State
        /\ net \ {e} \in SUBSET Envelope /\ resets = 0
    BY <1>5, EnvelopeFields DEF TypeOK, OnSessionInitAck, Undisturbed
  <2>2. s \in State /\ s.hs = 0
    BY <2>1 DEF State, Sid
  <2>3. ASSUME node[1].hs # 0, n = 2 \/ node[n].hs # e.sid
        PROVE  OnItsWay(net \ {e}, node[1].hs)
    <3>1. e.kind = "ack" /\ OnItsWay(net, node[1].hs)
      BY <1>0, <1>5, <2>1, <2>3 DEF OnSessionInitAck
    <3>2. n = 2 => e.from = 1
      BY <2>1 DEF Nodes, Other
    <3>3. n = 1 \/ n = 2
      BY <2>1 DEF Nodes
    <3>4. e.from # 2 \/ e.sid # node[1].hs
      BY <2>3, <3>2, <3>3
    <3> QED BY <3>1, <3>4, OthersConsumed
  <2>4. CASE node[n].hs = e.sid
    <3>1. DrainAndSave(n, s, net \ {e})
      BY <1>5, <2>4 DEF OnSessionInitAck
    <3> QED BY <2>1, <2>2, <2>3, <3>1, PartsKeepAnswer
  <2>5. CASE node[n].hs # e.sid
    <3>1. net' = net \ {e} /\ node' = node
      BY <1>5, <2>5 DEF OnSessionInitAck
    <3> QED BY <2>3, <2>5, <3>1
  <2> QED BY <2>4, <2>5
<1>6. ASSUME NEW n \in Nodes, Reset(n)  PROVE FALSE
  BY <1>6 DEF Reset, Undisturbed, TypeOK
<1>7. CASE UNCHANGED vars
  BY <1>0, <1>7 DEF vars, Undisturbed
<1> QED BY <1>1, <1>2, <1>3, <1>4, <1>5, <1>6, <1>7 DEF Next, Handle

\* The handshake of the node with the smaller NodeID, the only one that
\* onSessionInit lets silence the other side's, never dangles.
THEOREM WinnerAnswered == Spec => []WinnerIsAnswered
<1>1. Init => WinnerIsAnswered
  BY DEF Init, WinnerIsAnswered, Blank, Nodes
<1> QED BY <1>1, WinnerStep, SessionTypeInit, SessionTypeStep, PTL DEF Spec

-----------------------------------------------------------------------------
(* Every item in one copy                                                  *)

\* The items some envelopes carry, and the items that wait.
Carried(E) == {e.item : e \in {x \in E : x.kind = "item"}}
InPend == UNION {node[n].pend : n \in Nodes}

\* No item is in two envelopes, and each waits at its author only.
NoTwice(E) == \A e, f \in E : e.kind = "item" /\ f.kind = "item" /\ e.item = f.item => e = f
WaitsAtAuthor == \A n \in Nodes : \A t \in node[n].pend : Author[t] = n

\* The items of o, divided among five places.
Divided(o, a, b, c, d, e) ==
  /\ o = a \cup b \cup c \cup d \cup e
  /\ a \cap (b \cup c \cup d \cup e) = {} /\ b \cap (c \cup d \cup e) = {}
  /\ c \cap (d \cup e) = {} /\ d \cap e = {}

OneInv ==
  /\ NoTwice(net) /\ WaitsAtAuthor
  /\ Divided(offered, Carried(net), InPend, got, eaten, wiped)

\* Counting: an item is carried by one envelope at most.
LEMMA OneInvCounts == TypeOK /\ OneInv => ItemInOneCopy
<1> SUFFICES ASSUME TypeOK, OneInv, NEW i \in Items  PROVE Copies(i) = One(i \in offered)
  BY DEF ItemInOneCopy
<1> DEFINE F == {e \in net : e.kind = "item" /\ e.item = i}
<1>1. Cardinality(F) = One(i \in Carried(net))
  <2>1. CASE F = {}
    <3>1. i \notin Carried(net)
      BY <2>1 DEF Carried
    <3> QED BY <2>1, <3>1, FS_EmptySet DEF One
  <2>2. CASE F # {}
    <3>1. PICK e : e \in F
      BY <2>2
    <3>2. F = {e}
      BY <3>1 DEF OneInv, NoTwice
    <3>3. i \in Carried(net)
      BY <3>1 DEF Carried
    <3> QED BY <3>2, <3>3, FS_Singleton DEF One
  <2> QED BY <2>1, <2>2
<1>2. Waiting(i) <=> i \in InPend
  BY DEF Waiting, InPend
<1>3. Copies(i) = One(i \in Carried(net)) + One(i \in InPend)
                    + One(i \in got) + One(i \in eaten) + One(i \in wiped)
  BY <1>1, <1>2 DEF Copies, One
<1> HIDE DEF F
<1>4. /\ i \in offered <=>
           i \in Carried(net) \/ i \in InPend \/ i \in got \/ i \in eaten \/ i \in wiped
      /\ i \in Carried(net) => i \notin InPend /\ i \notin got /\ i \notin eaten /\ i \notin wiped
      /\ i \in InPend => i \notin got /\ i \notin eaten /\ i \notin wiped
      /\ i \in got => i \notin eaten /\ i \notin wiped
      /\ i \in eaten => i \notin wiped
  BY DEF OneInv, Divided
<1> QED BY <1>3, <1>4 DEF One

LEMMA OneInit == Init => OneInv
BY DEF Init, OneInv, NoTwice, WaitsAtAuthor, Divided, Carried, InPend, Blank

LEMMA CarriedEncrypted == \A n, s, I : Carried(Encrypted(n, s, I)) = I
<1> SUFFICES ASSUME NEW n, NEW s, NEW I  PROVE Carried(Encrypted(n, s, I)) = I
  OBVIOUS
<1> DEFINE env(i) == [kind |-> "item", from |-> n, sid |-> s.sid, item |-> i]
<1>1. Encrypted(n, s, I) = {env(i) : i \in I}
  BY DEF Encrypted
<1>2. \A i : env(i).kind = "item" /\ env(i).item = i
  OBVIOUS
<1> HIDE DEF env
<1>3. {x \in {env(i) : i \in I} : x.kind = "item"} = {env(i) : i \in I}
  BY <1>2
<1>4. {e.item : e \in {env(i) : i \in I}} = I
  BY <1>2
<1> QED BY <1>1, <1>3, <1>4 DEF Carried

\* One node changes: what waits afterwards.
LEMMA PendAfter ==
  ASSUME TypeOK, WaitsAtAuthor, NEW n \in Nodes, NEW s \in State, node' = [node EXCEPT ![n] = s],
         \A t \in s.pend : Author[t] = n
  PROVE  InPend' = (InPend \ node[n].pend) \cup s.pend /\ WaitsAtAuthor'
<1>1. node'[n] = s /\ \A m \in Nodes : m # n => node'[m] = node[m]
  BY DEF TypeOK
<1>2. WaitsAtAuthor'
  BY <1>1 DEF WaitsAtAuthor
<1>3. \A t : t \in InPend' <=> (t \in InPend /\ t \notin node[n].pend) \/ t \in s.pend
  BY <1>1 DEF InPend, WaitsAtAuthor
<1> QED BY <1>2, <1>3

\* ensureHandshake moves no item; drainPending puts what waits in flight, or leaves it.
LEMMA HandshakeMoves ==
  ASSUME TypeOK, WaitsAtAuthor, NEW n \in Nodes, NEW s \in State, NEW E \in SUBSET Envelope,
         EnsureHandshake(n, s, E), NoTwice(E), \A t \in s.pend : Author[t] = n
  PROVE  /\ Carried(net') = Carried(E) /\ NoTwice(net')
         /\ InPend' = (InPend \ node[n].pend) \cup s.pend /\ WaitsAtAuthor'
<1>1. /\ Carried(net') = Carried(E)
      /\ NoTwice(net')
  BY DEF EnsureHandshake, Carried, NoTwice
<1>2. PICK z \in State : node' = [node EXCEPT ![n] = z] /\ z.pend = s.pend
  <2>1. [s EXCEPT !.hs = nextSid] \in State /\ [s EXCEPT !.hs = nextSid].pend = s.pend
    BY DEF State, TypeOK, Sid
  <2> QED BY <2>1 DEF EnsureHandshake
<1> QED BY <1>1, <1>2, PendAfter

LEMMA DrainMoves ==
  ASSUME TypeOK, WaitsAtAuthor, NEW n \in Nodes, NEW s \in State, NEW E \in SUBSET Envelope,
         DrainAndSave(n, s, E), NoTwice(E), \A t \in s.pend : Author[t] = n,
         Carried(E) \cap s.pend = {}
  PROVE  \E D \in SUBSET s.pend :
           /\ Carried(net') = Carried(E) \cup D /\ NoTwice(net')
           /\ InPend' = (InPend \ node[n].pend) \cup (s.pend \ D) /\ WaitsAtAuthor'
<1>1. CASE CanSend(s)
  <2> DEFINE z == [s EXCEPT !.pend = {}]
  <2>1. z \in State /\ z.pend = {}
    BY DEF State
  <2>2. node' = [node EXCEPT ![n] = z] /\ net' = E \cup Encrypted(n, s, s.pend)
    BY <1>1 DEF DrainAndSave
  <2>3. Carried(net') = Carried(E) \cup s.pend
    <3>1. Carried(net') = Carried(E) \cup Carried(Encrypted(n, s, s.pend))
      BY <2>2 DEF Carried
    <3>2. Carried(Encrypted(n, s, s.pend)) = s.pend
      BY CarriedEncrypted
    <3> QED BY <3>1, <3>2
  <2>4. NoTwice(net')
    <3> SUFFICES ASSUME NEW e \in net', NEW f \in net', e.kind = "item", f.kind = "item",
                        e.item = f.item
                 PROVE  e = f
      BY DEF NoTwice
    <3>1. \A x \in E : x.kind = "item" => x.item \notin s.pend
      BY DEF Carried
    <3>2. \A x \in net' : x \in E \/ \E i \in s.pend :
            x = [kind |-> "item", from |-> n, sid |-> s.sid, item |-> i]
      BY <2>2 DEF Encrypted
    <3> QED BY <3>1, <3>2 DEF NoTwice
  <2> HIDE DEF z
  <2>5. InPend' = (InPend \ node[n].pend) \cup {} /\ WaitsAtAuthor'
    BY <2>1, <2>2, PendAfter
  <2> QED BY <2>3, <2>4, <2>5
<1>2. CASE ~CanSend(s)
  <2>1. node' = [node EXCEPT ![n] = s] /\ net' = E
    BY <1>2 DEF DrainAndSave
  <2>2. InPend' = (InPend \ node[n].pend) \cup s.pend /\ WaitsAtAuthor'
    BY <2>1, PendAfter
  <2> QED BY <2>1, <2>2
<1> QED BY <1>1, <1>2

\* A new item in flight.
LEMMA OneMore ==
  ASSUME NEW E, NoTwice(E), NEW n, NEW s, NEW i, i \notin Carried(E)
  PROVE  /\ Carried(E \cup Encrypted(n, s, {i})) = Carried(E) \cup {i}
         /\ NoTwice(E \cup Encrypted(n, s, {i}))
<1>1. Carried(E \cup Encrypted(n, s, {i})) = Carried(E) \cup Carried(Encrypted(n, s, {i}))
  BY DEF Carried
<1>2. \A x \in E : x.kind = "item" => x.item # i
  BY DEF Carried
<1>3. \A x \in Encrypted(n, s, {i}) : x = [kind |-> "item", from |-> n, sid |-> s.sid, item |-> i]
  BY DEF Encrypted
<1>4. NoTwice(E \cup Encrypted(n, s, {i}))
  BY <1>2, <1>3 DEF NoTwice
<1> QED BY <1>1, <1>4, CarriedEncrypted

\* Consuming an envelope takes its item out of flight.
LEMMA Consumed ==
  ASSUME NEW E, NEW e \in E, NoTwice(E)
  PROVE  /\ NoTwice(E \ {e})
         /\ Carried(E \ {e}) = Carried(E) \ (IF e.kind = "item" THEN {e.item} ELSE {})
BY DEF NoTwice, Carried

LEMMA PendFacts ==
  ASSUME TypeOK, OneInv, NEW n \in Nodes
  PROVE  /\ node[n] \in State /\ node[n].pend \subseteq InPend
         /\ \A t \in node[n].pend : Author[t] = n
         /\ Carried(net) \cap node[n].pend = {}
<1>1. node[n].pend \subseteq InPend
  BY DEF InPend
<1> QED BY <1>1 DEF TypeOK, OneInv, WaitsAtAuthor, Divided

LEMMA OneStep == TypeOK /\ OneInv /\ [Next]_vars => OneInv'
<1> SUFFICES ASSUME TypeOK, OneInv, [Next]_vars  PROVE OneInv'
  OBVIOUS
<1>0. NoTwice(net) /\ WaitsAtAuthor /\ net \in SUBSET Envelope
  BY DEF OneInv, TypeOK
<1>d. Divided(offered, Carried(net), InPend, got, eaten, wiped)
  BY DEF OneInv
<1>1. ASSUME NEW t \in Texts, SendText(t)  PROVE OneInv'
  <2> DEFINE n == Author[t]
  <2>1. /\ n \in Nodes /\ node[n] \in State /\ t \notin offered
        /\ node[n].pend \subseteq InPend /\ \A u \in node[n].pend : Author[u] = n
    BY <1>1, PendFacts, AuthorAssumption DEF Items, TypeOK, SendText
  <2>2. t \notin Carried(net) /\ offered' = offered \cup {t} /\ UNCHANGED <<got, eaten, wiped>>
    BY <1>1, <2>1 DEF OneInv, Divided, SendText
  <2>3. CASE CanSend(node[n])
    <3>1. net' = net \cup Encrypted(n, node[n], {t}) /\ node' = node
      BY <1>1, <2>3 DEF SendText
    <3>2. InPend' = InPend /\ WaitsAtAuthor'
      BY <1>0, <3>1 DEF InPend, WaitsAtAuthor
    <3>3. Carried(net') = Carried(net) \cup {t} /\ NoTwice(net')
      BY <1>0, <2>2, <3>1, OneMore
    <3>4. Divided(offered', Carried(net'), InPend', got', eaten', wiped')
      BY <2>2, <3>2, <3>3, <2>1, <1>d DEF Divided
    <3> QED BY <2>2, <3>2, <3>3, <2>1, <3>4 DEF OneInv
  <2>4. CASE ~CanSend(node[n])
    <3> DEFINE s == [node[n] EXCEPT !.pend = @ \cup {t}]
    <3>1. s \in State /\ s.pend = node[n].pend \cup {t}
      BY <2>1 DEF State
    <3>2. EnsureHandshake(n, s, net)
      BY <1>1, <2>4 DEF SendText
    <3> HIDE DEF s
    <3>3. \A u \in s.pend : Author[u] = n
      BY <2>1, <3>1
    <3> HIDE DEF n
    <3>4. /\ Carried(net') = Carried(net) /\ NoTwice(net') /\ WaitsAtAuthor'
          /\ InPend' = (InPend \ node[n].pend) \cup s.pend
      BY <1>0, <2>1, <3>1, <3>2, <3>3, HandshakeMoves
    <3>5. InPend' = InPend \cup {t}
      BY <2>1, <3>1, <3>4
    <3>6. Divided(offered', Carried(net'), InPend', got', eaten', wiped')
      BY <2>1, <2>2, <3>4, <3>5, <1>d DEF Divided
    <3> QED BY <2>1, <2>2, <3>4, <3>5, <3>6 DEF OneInv
  <2> QED BY <2>3, <2>4
<1>2. ASSUME NEW i \in Sealed, SendSealed(i)  PROVE OneInv'
  <2> DEFINE n == Author[i]
  <2>1. /\ n \in Nodes /\ node[n] \in State /\ i \notin offered
        /\ node[n].pend \subseteq InPend /\ \A u \in node[n].pend : Author[u] = n
    BY <1>2, PendFacts, AuthorAssumption DEF Items, TypeOK, SendSealed
  <2>2. i \notin Carried(net) /\ offered' = offered \cup {i} /\ UNCHANGED <<got, eaten>>
    BY <1>2, <2>1 DEF OneInv, Divided, SendSealed
  <2>3. CASE CanSend(node[n])
    <3>1. net' = net \cup Encrypted(n, node[n], {i}) /\ node' = node /\ wiped' = wiped
      BY <1>2, <2>3 DEF SendSealed
    <3>2. InPend' = InPend /\ WaitsAtAuthor'
      BY <1>0, <3>1 DEF InPend, WaitsAtAuthor
    <3>3. Carried(net') = Carried(net) \cup {i} /\ NoTwice(net')
      BY <1>0, <2>2, <3>1, OneMore
    <3>4. i \notin offered /\ wiped' = wiped
      BY <2>1, <3>1
    <3> HIDE DEF n
    <3>5. Divided(offered', Carried(net'), InPend', got', eaten', wiped')
      BY <1>d, <2>2, <3>2, <3>3, <3>4 DEF Divided
    <3> QED BY <3>2, <3>3, <3>5 DEF OneInv
  <2>4. CASE ~CanSend(node[n])
    <3>1. EnsureHandshake(n, node[n], net) /\ wiped' = wiped \cup {i}
      BY <1>2, <2>4 DEF SendSealed
    <3> HIDE DEF n
    <3>2. /\ Carried(net') = Carried(net) /\ NoTwice(net') /\ WaitsAtAuthor'
          /\ InPend' = (InPend \ node[n].pend) \cup node[n].pend
      BY <1>0, <2>1, <3>1, HandshakeMoves
    <3>3. InPend' = InPend
      BY <2>1, <3>2
    <3>4. Divided(offered', Carried(net'), InPend', got', eaten', wiped')
      BY <2>1, <2>2, <3>1, <3>2, <3>3, <1>d DEF Divided
    <3> QED BY <2>1, <2>2, <3>1, <3>2, <3>3, <3>4 DEF OneInv
  <2> QED BY <2>3, <2>4
<1>3. ASSUME NEW e \in net, ReceiveItem(e)  PROVE OneInv'
  <2>1. PICK n \in Nodes : n = Other(e.from)
    BY EnvelopeFields
  <2>2. /\ node[n] \in State /\ node[n].pend \subseteq InPend /\ Carried(net) \cap node[n].pend = {}
        /\ \A u \in node[n].pend : Author[u] = n
        /\ net \ {e} \in SUBSET Envelope
    BY PendFacts, EnvelopeFields
  <2>3. /\ NoTwice(net \ {e}) /\ Carried(net \ {e}) = Carried(net) \ {e.item}
        /\ e.item \in Carried(net)
    BY <1>0, <1>3, Consumed DEF ReceiveItem, Carried
  <2>4. offered' = offered /\ wiped' = wiped
    BY <1>3 DEF ReceiveItem
  <2>5. CASE node[n].sid = e.sid
    <3> DEFINE s == [node[n] EXCEPT !.ready = TRUE]
    <3>1. s \in State /\ s.pend = node[n].pend
      BY <2>2 DEF State
    <3>2. DrainAndSave(n, s, net \ {e}) /\ got' = got \cup {e.item} /\ eaten' = eaten
      BY <1>3, <2>1, <2>5 DEF ReceiveItem
    <3> HIDE DEF s
    <3>3. (\A u \in s.pend : Author[u] = n) /\ Carried(net \ {e}) \cap s.pend = {}
      BY <2>2, <2>3, <3>1
    <3>4. PICK D \in SUBSET s.pend :
             /\ Carried(net') = Carried(net \ {e}) \cup D /\ NoTwice(net')
             /\ InPend' = (InPend \ node[n].pend) \cup (s.pend \ D) /\ WaitsAtAuthor'
      BY <1>0, <2>2, <2>3, <3>1, <3>2, <3>3, DrainMoves
    <3>5. InPend' = InPend \ D /\ D \subseteq InPend
      BY <2>2, <3>1, <3>4
    <3>6. Divided(offered', Carried(net'), InPend', got', eaten', wiped')
      BY <2>3, <2>4, <3>2, <3>4, <3>5, <1>d DEF Divided
    <3> QED BY <2>3, <2>4, <3>2, <3>4, <3>5, <3>6 DEF OneInv
  <2>6. CASE node[n].sid # e.sid
    <3>1. EnsureHandshake(n, node[n], net \ {e}) /\ got' = got /\ eaten' = eaten \cup {e.item}
      BY <1>3, <2>1, <2>6 DEF ReceiveItem
    <3>2. /\ Carried(net') = Carried(net \ {e}) /\ NoTwice(net') /\ WaitsAtAuthor'
          /\ InPend' = (InPend \ node[n].pend) \cup node[n].pend
      BY <1>0, <2>2, <2>3, <3>1, HandshakeMoves
    <3>3. InPend' = InPend
      BY <2>2, <3>2
    <3>4. Carried(net') = Carried(net) \ {e.item} /\ e.item \in Carried(net)
      BY <2>3, <3>2
    <3>5. got' = got /\ eaten' = eaten \cup {e.item}
      BY <3>1
    <3>6. Divided(offered', Carried(net'), InPend', got', eaten', wiped')
      BY <1>d, <2>4, <3>3, <3>4, <3>5 DEF Divided
    <3> QED BY <3>2, <3>6 DEF OneInv
  <2> QED BY <2>5, <2>6
<1>4. ASSUME NEW e \in net, OnSessionInit(e)  PROVE OneInv'
  <2>1. PICK n \in Nodes : n = Other(e.from)
    BY EnvelopeFields
  <2>2. /\ node[n] \in State /\ node[n].pend \subseteq InPend /\ e.sid \in Sid
        /\ \A u \in node[n].pend : Author[u] = n
    BY PendFacts, EnvelopeFields DEF Sid
  <2>3. NoTwice(net \ {e}) /\ Carried(net \ {e}) = Carried(net) /\ e.kind = "init"
    BY <1>0, <1>4, Consumed DEF OnSessionInit
  <2>4. UNCHANGED <<offered, got, eaten, wiped>>
    BY <1>4 DEF OnSessionInit
  <2>5. CASE WeWin(n)
    <3>1. node' = node /\ net' = net \ {e}
      BY <1>4, <2>1, <2>5 DEF OnSessionInit
    <3>2. InPend' = InPend /\ WaitsAtAuthor'
      BY <1>0, <3>1 DEF InPend, WaitsAtAuthor
    <3> QED BY <2>3, <2>4, <3>1, <3>2 DEF OneInv
  <2>6. CASE ~WeWin(n)
    <3> DEFINE s == [node[n] EXCEPT !.sid = e.sid, !.ready = FALSE, !.hs = 0]
               a == [kind |-> "ack", from |-> n, sid |-> e.sid]
    <3>1. s \in State /\ s.pend = node[n].pend
      BY <2>2 DEF State, Sid
    <3>2. node' = [node EXCEPT ![n] = s] /\ net' = (net \ {e}) \cup {a}
      BY <1>4, <2>1, <2>6 DEF OnSessionInit
    <3>3. a.kind = "ack"
      OBVIOUS
    <3> HIDE DEF s, a
    <3>4. Carried(net') = Carried(net) /\ NoTwice(net')
      BY <2>3, <3>2, <3>3 DEF Carried, NoTwice
    <3>5. InPend' = (InPend \ node[n].pend) \cup node[n].pend /\ WaitsAtAuthor'
      BY <1>0, <2>2, <3>1, <3>2, PendAfter
    <3>6. InPend' = InPend
      BY <2>2, <3>5
    <3> QED BY <2>4, <3>4, <3>5, <3>6 DEF OneInv
  <2> QED BY <2>5, <2>6
<1>5. ASSUME NEW e \in net, OnSessionInitAck(e)  PROVE OneInv'
  <2>1. PICK n \in Nodes : n = Other(e.from)
    BY EnvelopeFields
  <2>2. /\ node[n] \in State /\ node[n].pend \subseteq InPend /\ Carried(net) \cap node[n].pend = {}
        /\ \A u \in node[n].pend : Author[u] = n
        /\ net \ {e} \in SUBSET Envelope /\ e.sid \in Sid
    BY PendFacts, EnvelopeFields DEF Sid
  <2>3. NoTwice(net \ {e}) /\ Carried(net \ {e}) = Carried(net)
    BY <1>0, <1>5, Consumed DEF OnSessionInitAck
  <2>4. UNCHANGED <<offered, got, eaten, wiped>>
    BY <1>5 DEF OnSessionInitAck
  <2>5. CASE node[n].hs = e.sid
    <3> DEFINE s == [node[n] EXCEPT !.sid = e.sid, !.ready = TRUE, !.hs = 0]
    <3>1. s \in State /\ s.pend = node[n].pend
      BY <2>2 DEF State, Sid
    <3>2. DrainAndSave(n, s, net \ {e})
      BY <1>5, <2>1, <2>5 DEF OnSessionInitAck
    <3> HIDE DEF s
    <3>3. (\A u \in s.pend : Author[u] = n) /\ Carried(net \ {e}) \cap s.pend = {}
      BY <2>2, <2>3, <3>1
    <3>4. PICK D \in SUBSET s.pend :
             /\ Carried(net') = Carried(net \ {e}) \cup D /\ NoTwice(net')
             /\ InPend' = (InPend \ node[n].pend) \cup (s.pend \ D) /\ WaitsAtAuthor'
      BY <1>0, <2>2, <2>3, <3>1, <3>2, <3>3, DrainMoves
    <3>5. InPend' = InPend \ D /\ D \subseteq InPend
      BY <2>2, <3>1, <3>4
    <3>6. Divided(offered', Carried(net'), InPend', got', eaten', wiped')
      BY <2>3, <2>4, <3>4, <3>5, <1>d DEF Divided
    <3> QED BY <2>3, <2>4, <3>4, <3>5, <3>6 DEF OneInv
  <2>6. CASE node[n].hs # e.sid
    <3>1. node' = node /\ net' = net \ {e}
      BY <1>5, <2>1, <2>6 DEF OnSessionInitAck
    <3>2. InPend' = InPend /\ WaitsAtAuthor'
      BY <1>0, <3>1 DEF InPend, WaitsAtAuthor
    <3> QED BY <2>3, <2>4, <3>1, <3>2 DEF OneInv
  <2> QED BY <2>5, <2>6
<1>6. ASSUME NEW n \in Nodes, Reset(n)  PROVE OneInv'
  <2>1. PICK S \in SUBSET {e \in net : e.from = n} :
          /\ net' = net \ S
          /\ wiped' = wiped \cup node[n].pend \cup Carried(S)
    BY <1>6 DEF Reset, Carried
  <2>2. /\ node' = [node EXCEPT ![n] = Blank] /\ UNCHANGED <<offered, got, eaten>>
        /\ Blank \in State /\ Blank.pend = {}
    BY <1>6 DEF Reset, Blank, State, Sid
  <2>3. InPend' = InPend \ node[n].pend /\ WaitsAtAuthor' /\ node[n].pend \subseteq InPend
    BY <1>0, <2>2, PendAfter, PendFacts
  <2>4. /\ NoTwice(net') /\ Carried(net') = Carried(net) \ Carried(S)
        /\ Carried(S) \subseteq Carried(net)
    BY <1>0, <2>1 DEF NoTwice, Carried
  <2>5. Divided(offered', Carried(net'), InPend', got', eaten', wiped')
    BY <2>1, <2>2, <2>3, <2>4, <1>d DEF Divided
  <2> QED BY <2>1, <2>2, <2>3, <2>4, <2>5 DEF OneInv
<1>7. CASE UNCHANGED vars
  BY <1>7 DEF vars, OneInv, WaitsAtAuthor, InPend
<1> QED BY <1>1, <1>2, <1>3, <1>4, <1>5, <1>6, <1>7 DEF Next, Handle

\* Whatever sessions come and go, and whatever order the handshakes take, an item accepted
\* for sending waits, flies, was read, eaten or wiped: one of these, in one copy.
THEOREM OneCopy == Spec => []ItemInOneCopy
  BY OneInit, OneStep, OneInvCounts, SessionTypeInit, SessionTypeStep, PTL DEF Spec

============================================================================
