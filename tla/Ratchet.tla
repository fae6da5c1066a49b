------------------------------ MODULE Ratchet ------------------------------
(***************************************************************************)
(* One session of the Double Ratchet (ratchet): the handshake that makes   *)
(* it, and two nodes that write to each other through a network which      *)
(* delivers every message once, in any order.                              *)
(*                                                                         *)
(* Keys are symbolic.  A key pair is a number; DH(a, b) is what either     *)
(* owner computes; a root key is the sequence of all that went into it; a  *)
(* chain key is the root step that opened the chain and how many times it  *)
(* was hashed since, and so is the message key it gives.  A ciphertext is  *)
(* the message key that opens it.  The state is loaded, moved and saved in *)
(* one transaction (module Session); after an error it is thrown away.     *)
(* The transcript, malformed and forged input are left out, and of several *)
(* handshakes that collide module Session tells which one is finished.     *)
(***************************************************************************)
EXTENDS Naturals, Sequences, FiniteSets

CONSTANTS
  Initiator, Responder,
  MaxSkip,    \* ratchet.MaxSkip
  MaxSent     \* bound: messages

ASSUME RolesAssumption == Initiator # Responder
ASSUME RatchetBoundsAssumption == MaxSkip \in Nat /\ MaxSent \in Nat

Nodes == {Initiator, Responder}
Other(x) == IF x = Initiator THEN Responder ELSE Initiator

VARIABLES
  eph,      \* the private key of the unfinished Handshake, 0 when there is none
  st,       \* st[x]: State, NoState before the handshake
  net,      \* Init, InitAck and messages in flight
  made,     \* how many key pairs there are
  sent,     \* history: the messages
  read,     \* history: those that were decrypted
  eaten,    \* history: those that could not be
  crowded   \* history: nodes for which more than MaxSkip + 1 messages were in flight

vars == <<eph, st, net, made, sent, read, eaten, crowded>>

DH(a, b) == {a, b}
KdfRoot(rk, dhs) == Append(rk, dhs)

Root == Seq(Seq(SUBSET Nat))
Chain == [root : Root, i : Nat]
Skipped == [dh : Nat, n : Nat, mk : Chain]
State == [rk : Root, dhs : Nat, dhr : Nat, cks : Chain, ckr : Chain,
          ns : Nat, nr : Nat, pn : Nat, skipped : SUBSET Skipped]

NoChain == [root |-> <<>>, i |-> 0]
NoState == [rk |-> <<>>, dhs |-> 0, dhr |-> 0, cks |-> NoChain, ckr |-> NoChain,
            ns |-> 0, nr |-> 0, pn |-> 0, skipped |-> {}]

Message == [kind : {"msg"}, from : Nodes, to : Nodes, dh : Nat, pn : Nat, n : Nat, mk : Chain]
Half == [kind : {"init", "ack"}, eph : Nat]

\* Besides: the numbers of a state go in step with its chains.
TypeOK ==
  /\ eph \in Nat /\ made \in Nat
  /\ st \in [Nodes -> State]
  /\ \A x \in Nodes : st[x].ns = st[x].cks.i /\ st[x].nr = st[x].ckr.i
  /\ sent \subseteq Message /\ \A m \in sent : m.to = Other(m.from)
  /\ net \subseteq Half \cup sent
  /\ read \subseteq sent /\ eaten \subseteq sent
  /\ crowded \subseteq Nodes

\* Identity keys are the first two key pairs.
IK(x) == IF x = Initiator THEN 1 ELSE 2

Init ==
  /\ eph = 0 /\ made = 2
  /\ st = [x \in Nodes |-> NoState]
  /\ net = {} /\ sent = {} /\ read = {} /\ eaten = {} /\ crowded = {}

-----------------------------------------------------------------------------
(* The handshake                                                           *)

NewHandshake ==
  /\ made = 2
  /\ made' = 3 /\ eph' = 3
  /\ net' = net \cup {[kind |-> "init", eph |-> 3]}
  /\ UNCHANGED <<st, sent, read, eaten, crowded>>

DeriveSK(dh1, dh2, dh3) == KdfRoot(<<>>, <<dh1, dh2, dh3>>)

\* The responder's ephemeral pair is its first ratchet pair; it has no chain yet.
AcceptHandshake(init) ==
  LET new == made + 1
      sk == DeriveSK(DH(new, IK(Initiator)), DH(IK(Responder), init.eph), DH(new, init.eph))
  IN
  /\ init \in net /\ init.kind = "init"
  /\ made' = new
  /\ st' = [st EXCEPT ![Responder] = [NoState EXCEPT !.rk = sk, !.dhs = new]]
  /\ net' = (net \ {init}) \cup {[kind |-> "ack", eph |-> new]}
  /\ UNCHANGED <<eph, sent, read, eaten, crowded>>

\* The initiator steps at once, with a fresh pair, and can write.
Finish(ack) ==
  LET new == made + 1
      sk == DeriveSK(DH(IK(Initiator), ack.eph), DH(eph, IK(Responder)), DH(eph, ack.eph))
      rk == KdfRoot(sk, <<DH(new, ack.eph)>>)
  IN
  /\ ack \in net /\ ack.kind = "ack"
  /\ made' = new /\ eph' = 0
  /\ st' = [st EXCEPT ![Initiator] =
              [NoState EXCEPT !.rk = rk, !.dhs = new, !.dhr = ack.eph, !.cks = [root |-> rk, i |-> 0]]]
  /\ net' = net \ {ack}
  /\ UNCHANGED <<sent, read, eaten, crowded>>

-----------------------------------------------------------------------------
(* Messages                                                                *)

CanSend(s) == s.cks # NoChain
CanReceive(s) == s.ckr # NoChain

\* Unmarshal takes back what Marshal has written, unless it holds too many skipped keys.
Loads(s) == Cardinality(s.skipped) <= MaxSkip

\* kdfChain: the chain after k message keys.
Link(c, k) == [root |-> c.root, i |-> c.i + k]

Encrypt(x) ==
  LET s == st[x]
      m == [kind |-> "msg", from |-> x, to |-> Other(x),
            dh |-> s.dhs, pn |-> s.pn, n |-> s.ns, mk |-> s.cks]
  IN
  /\ Loads(s) /\ CanSend(s) /\ Cardinality(sent) < MaxSent
  /\ st' = [st EXCEPT ![x] = [s EXCEPT !.cks = Link(s.cks, 1), !.ns = s.ns + 1]]
  /\ sent' = sent \cup {m}
  /\ net' = net \cup {m}
  /\ crowded' = IF Cardinality({e \in net' : e.kind = "msg" /\ e.to = Other(x)}) > MaxSkip + 1
                THEN crowded \cup {Other(x)} ELSE crowded
  /\ UNCHANGED <<eph, made, read, eaten>>

\* e was put aside after f.
Later(e, f) ==
  \/ Len(e.mk.root) > Len(f.mk.root)
  \/ Len(e.mk.root) = Len(f.mk.root) /\ e.mk.i > f.mk.i

BugOneMore(s) == {f \in s : Cardinality({e \in s : Later(e, f)}) <= MaxSkip}

\* At most MaxSkip keys are kept: the oldest go.
Newest(s) == {f \in s : Cardinality({e \in s : Later(e, f)}) < MaxSkip}

\* skipTo does not refuse.
Fits(s, until) == CanReceive(s) => until <= s.nr + MaxSkip

\* The receiving chain moves on to number until; the keys it passes are put aside.
SkipTo(s, until) ==
  IF ~CanReceive(s) \/ until <= s.nr
  THEN s
  ELSE [s EXCEPT
          !.skipped = Newest(s.skipped \cup
            {[dh |-> s.dhr, n |-> s.nr + j, mk |-> Link(s.ckr, j)] :
               j \in 0 .. until - s.nr - 1}),
          !.ckr = Link(s.ckr, until - s.nr),
          !.nr = until]

BugNumbersGoOn(s, dh, new) ==
  LET rk1 == KdfRoot(s.rk, <<DH(s.dhs, dh)>>)
      rk2 == KdfRoot(rk1, <<DH(new, dh)>>)
  IN [rk |-> rk2, dhs |-> new, dhr |-> dh,
      cks |-> [root |-> rk2, i |-> 0], ckr |-> [root |-> rk1, i |-> 0],
      ns |-> s.ns, nr |-> 0, pn |-> s.ns, skipped |-> s.skipped]

BugOneRoot(s, dh, new) ==
  LET rk1 == KdfRoot(s.rk, <<DH(s.dhs, dh)>>)
  IN [rk |-> rk1, dhs |-> new, dhr |-> dh,
      cks |-> [root |-> rk1, i |-> 0], ckr |-> [root |-> rk1, i |-> 0],
      ns |-> 0, nr |-> 0, pn |-> s.ns, skipped |-> s.skipped]

\* dhRatchet with the fresh pair new: the chains of both directions begin anew.
DhRatchet(s, dh, new) ==
  LET rk1 == KdfRoot(s.rk, <<DH(s.dhs, dh)>>)
      rk2 == KdfRoot(rk1, <<DH(new, dh)>>)
  IN [rk |-> rk2, dhs |-> new, dhr |-> dh,
      cks |-> [root |-> rk2, i |-> 0], ckr |-> [root |-> rk1, i |-> 0],
      ns |-> 0, nr |-> 0, pn |-> s.ns, skipped |-> s.skipped]

PutAside(s, m) == {e \in s.skipped : e.dh = m.dh /\ e.n = m.n}

BugForgetOldChain(s, m, new) == IF m.dh = s.dhr THEN s ELSE DhRatchet(s, m.dh, new)

\* A new ratchet key of the peer closes the old receiving chain at its full length.
Turned(s, m, new) ==
  IF m.dh = s.dhr THEN s ELSE DhRatchet(SkipTo(s, m.pn), m.dh, new)

Arrived(s, m, new) == SkipTo(Turned(s, m, new), m.n)

\* open with the message key k.
KeyOpens(k, m) == k = m.mk

\* What Decrypt finds among the keys put aside is the key of m.
OpensAside(s, m) == \E e \in PutAside(s, m) : KeyOpens(e.mk, m)

\* No limit is in the way, and the chain at m's number gives m's key.
OpensAhead(s, m, new) ==
  /\ PutAside(s, m) = {}
  /\ m.dh # s.dhr => Fits(s, m.pn)
  /\ Fits(Turned(s, m, new), m.n)
  /\ KeyOpens(Arrived(s, m, new).ckr, m)

Opens(s, m, new) == OpensAside(s, m) \/ OpensAhead(s, m, new)

BugKeepKey(s, m) == s

TakeSkipped(s, m) == [s EXCEPT !.skipped = s.skipped \ PutAside(s, m)]

Advance(s, m, new) ==
  LET a == Arrived(s, m, new) IN [a EXCEPT !.ckr = Link(a.ckr, 1), !.nr = a.nr + 1]

Decrypt(m) ==
  LET x == m.to
      s == st[x]
      new == made + 1
  IN
  /\ m \in net /\ m.kind = "msg" /\ Loads(s)
  /\ \/ /\ OpensAside(s, m)
        /\ st' = [st EXCEPT ![x] = TakeSkipped(s, m)]
        /\ UNCHANGED made
     \/ /\ OpensAhead(s, m, new)
        /\ st' = [st EXCEPT ![x] = Advance(s, m, new)]
        /\ made' = IF m.dh = s.dhr THEN made ELSE new
  /\ read' = read \cup {m}
  /\ net' = net \ {m}
  /\ UNCHANGED <<eph, sent, eaten, crowded>>

\* The message is eaten and the state not saved.
DecryptFails(m) ==
  /\ m \in net /\ m.kind = "msg" /\ Loads(st[m.to])
  /\ ~Opens(st[m.to], m, made + 1)
  /\ eaten' = eaten \cup {m}
  /\ net' = net \ {m}
  /\ UNCHANGED <<eph, st, made, sent, read, crowded>>

Next ==
  \/ NewHandshake
  \/ \E h \in net : AcceptHandshake(h) \/ Finish(h)
  \/ \E x \in Nodes : Encrypt(x)
  \/ \E m \in net : Decrypt(m) \/ DecryptFails(m)

Spec == Init /\ [][Next]_vars

-----------------------------------------------------------------------------
(* Properties                                                              *)

\* Every message is decrypted, in whatever order they come and whoever has turned the
\* ratchet meanwhile, unless more than MaxSkip others were under way to the same node
\* (skipTo with PN and N, takeSkipped).
InWindowIsRead == \A m \in eaten : m.to \in crowded

\* The state gives the message key mk, now or later.
Gives(s, mk) ==
  \/ \E e \in s.skipped : e.mk = mk
  \/ \E c \in {s.cks, s.ckr} : c.root = mk.root /\ c.i <= mk.i

\* A message that was sent can no longer be opened from the state of its sender, nor one
\* that was read from the state of its reader: keys are used once and forgotten, so a
\* repeated message is not decrypted again (Encrypt, takeSkipped, Decrypt).
UsedIsForgotten ==
  /\ \A m \in sent : ~Gives(st[m.from], m.mk)
  /\ \A m \in read : ~Gives(st[m.to], m.mk)

\* No two messages of a session are sealed with the same key, whichever direction they
\* go in: seal has a nonce of zeros, since "the key does not outlive one message"
\* (keys.go; kdfChain, kdfRoot, dhRatchet).
KeyOnce == \A k, m \in sent : k.mk = m.mk => k = m

\* A saved state can be loaded again, whatever was skipped: with one that Unmarshal refuses
\* the node could neither write nor read until its peer began another handshake.
SkippedFits == \A x \in Nodes : Loads(st[x])

=============================================================================
