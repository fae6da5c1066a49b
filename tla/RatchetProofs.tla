--------------------------- MODULE RatchetProofs ---------------------------
(***************************************************************************)
(* Theorems about module Ratchet: its types, that a message key is used    *)
(* once and then forgotten, that the keys put aside stay within what a     *)
(* saved state may hold, and that every message within the window is read, *)
(* for any MaxSkip and any number of messages.                             *)
(***************************************************************************)
EXTENDS Ratchet, FiniteSetTheorems, TLAPS

\* The two nodes open their sending chains in turns: the initiator with an even number
\* of root steps behind it, the responder with an odd number.
Even == {2 * k : k \in Nat}
Odd == {2 * k + 1 : k \in Nat}
SendTurn(x) == IF x = Initiator THEN Even ELSE Odd
ReadTurn(x) == SendTurn(Other(x))

-----------------------------------------------------------------------------
(* The inductive invariant                                                 *)

\* A state of x: its chains are those of the last two root steps, and the keys put aside
\* lie behind the receiving chain.
Shape(s, x) ==
  /\ CanSend(s) => /\ s.cks.root = s.rk /\ s.rk # <<>>
                   /\ Len(s.rk) \in SendTurn(x)
  /\ CanReceive(s) => /\ CanSend(s) /\ s.ckr.root # <<>>
                      /\ Len(s.ckr.root) + 1 = Len(s.rk)
                      /\ Len(s.ckr.root) \in ReadTurn(x)
  /\ ~CanReceive(s) => s.skipped = {}
  /\ \A e \in s.skipped :
       /\ e.n = e.mk.i
       /\ Len(e.mk.root) <= Len(s.ckr.root) /\ Len(e.mk.root) \in ReadTurn(x)
       /\ e.mk.root = s.ckr.root => e.dh = s.dhr /\ e.mk.i < s.ckr.i
  /\ \A e, f \in s.skipped : e.mk.root = f.mk.root => e.dh = f.dh

\* The sending chain of s has passed m.
Passed(s, m) ==
  /\ CanSend(s)
  /\ Len(m.mk.root) <= Len(s.rk)
  /\ m.mk.root = s.cks.root => m.mk.i < s.cks.i

\* s has read m, and m's key is gone.
Used(s, m) ==
  /\ CanReceive(s)
  /\ Len(m.mk.root) <= Len(s.ckr.root)
  /\ m.mk.root = s.ckr.root => m.mk.i < s.ckr.i
  /\ \A e \in s.skipped : e.mk # m.mk

\* Nothing is sent before the handshake is over, and there is one.
HandshakeFirst ==
  /\ made = 2 => net = {}
  /\ made >= 2
  /\ \A h \in net : h.kind # "msg" => net = {h}
  /\ (made = 2 \/ \E h \in net : h.kind # "msg") =>
       /\ sent = {}
       /\ \A x \in Nodes : ~CanSend(st[x]) /\ ~CanReceive(st[x])

SentShape ==
  \A m \in sent :
    /\ m.mk.root # <<>> /\ Len(m.mk.root) \in SendTurn(m.from)
    /\ m.n = m.mk.i
    /\ Passed(st[m.from], m)

IInv ==
  /\ TypeOK /\ HandshakeFirst
  /\ \A x \in Nodes : Shape(st[x], x)
  /\ SentShape
  /\ \A m \in read : Used(st[m.to], m)

-----------------------------------------------------------------------------
(* Turns and roots                                                         *)

LEMMA Turns ==
  /\ Even \cap Odd = {}
  /\ \A x \in Nodes : SendTurn(x) \cap ReadTurn(x) = {}
  /\ \A x \in Nodes, k \in Nat : k \in ReadTurn(x) => k + 1 \in SendTurn(x)
<1>1. Even \cap Odd = {}
  BY DEF Even, Odd
<1>2. \A k \in Nat : k \in Even => k + 1 \in Odd
  BY DEF Even, Odd
<1>3. \A k \in Nat : k \in Odd => k + 1 \in Even
  <2>. SUFFICES ASSUME NEW j \in Nat PROVE (2 * j + 1) + 1 \in Even
    BY DEF Odd
  <2>1. (2 * j + 1) + 1 = 2 * (j + 1) /\ j + 1 \in Nat
    OBVIOUS
  <2>. QED BY <2>1 DEF Even
<1>. QED BY <1>1, <1>2, <1>3, RolesAssumption DEF SendTurn, ReadTurn, Other, Nodes

LEMMA Others == \A x \in Nodes : Other(x) \in Nodes /\ Other(x) # x /\ Other(Other(x)) = x
BY RolesAssumption DEF Other, Nodes

LEMMA Roots ==
  /\ \A r \in Root : Len(r) \in Nat /\ (Len(r) = 0 <=> r = <<>>)
  /\ \A r \in Root, d \in Seq(SUBSET Nat) :
       /\ KdfRoot(r, d) \in Root /\ Len(KdfRoot(r, d)) = Len(r) + 1 /\ KdfRoot(r, d) # <<>>
  /\ \A a, b \in Nat : <<DH(a, b)>> \in Seq(SUBSET Nat)
  /\ <<>> \in Root /\ Len(<<>>) = 0
<1>. DEFINE D == Seq(SUBSET Nat)
<1>1. \A a, b \in Nat : DH(a, b) \in SUBSET Nat
  BY DEF DH
<1>2. \A a, b \in Nat : <<DH(a, b)>> \in D
  BY <1>1
<1>. HIDE DEF D
<1>3. /\ \A r \in Seq(D) : Len(r) \in Nat /\ (Len(r) = 0 <=> r = <<>>)
      /\ \A r \in Seq(D), d \in D :
           Append(r, d) \in Seq(D) /\ Len(Append(r, d)) = Len(r) + 1 /\ Append(r, d) # <<>>
      /\ <<>> \in Seq(D) /\ Len(<<>>) = 0
  OBVIOUS
<1>. QED BY <1>2, <1>3 DEF Root, KdfRoot, D

LEMMA NoStateType == NoState \in State /\ NoChain \in Chain /\ NoChain.root = <<>> /\ NoChain.i = 0
BY Roots DEF NoState, NoChain, State, Chain

LEMMA NoStateFields ==
  /\ NoState.cks = NoChain /\ NoState.ckr = NoChain /\ NoState.ns = 0 /\ NoState.nr = 0
  /\ NoState.skipped = {}
BY DEF NoState

WithChain(s, c, j) == [[s EXCEPT !.ckr = c] EXCEPT !.nr = j]

LEMMA ChainSet ==
  ASSUME NEW s \in State, NEW c \in Chain, NEW j \in Nat
  PROVE  /\ WithChain(s, c, j) \in State
         /\ WithChain(s, c, j).ckr = c /\ WithChain(s, c, j).nr = j
         /\ WithChain(s, c, j).rk = s.rk /\ WithChain(s, c, j).dhs = s.dhs
         /\ WithChain(s, c, j).dhr = s.dhr /\ WithChain(s, c, j).cks = s.cks
         /\ WithChain(s, c, j).ns = s.ns /\ WithChain(s, c, j).skipped = s.skipped
<1>1. [s EXCEPT !.ckr = c] \in State
  BY DEF State
<1>. QED BY <1>1 DEF State, WithChain

WithSent(s, c, j) == [[s EXCEPT !.cks = c] EXCEPT !.ns = j]

LEMMA SentSet ==
  ASSUME NEW s \in State, NEW c \in Chain, NEW j \in Nat
  PROVE  /\ WithSent(s, c, j) \in State
         /\ WithSent(s, c, j).cks = c /\ WithSent(s, c, j).ns = j
         /\ WithSent(s, c, j).rk = s.rk /\ WithSent(s, c, j).dhr = s.dhr
         /\ WithSent(s, c, j).ckr = s.ckr /\ WithSent(s, c, j).nr = s.nr
         /\ WithSent(s, c, j).skipped = s.skipped
<1>1. [s EXCEPT !.cks = c] \in State
  BY DEF State
<1>. QED BY <1>1 DEF State, WithSent

-----------------------------------------------------------------------------
(* What the parts of Decrypt keep                                          *)

InStep(s) == s.ns = s.cks.i /\ s.nr = s.ckr.i

LEMMA SkipToKeeps ==
  ASSUME NEW x \in Nodes, NEW s \in State, NEW until \in Nat, InStep(s), Shape(s, x)
  PROVE  LET t == SkipTo(s, until) IN
         /\ t \in State /\ InStep(t) /\ Shape(t, x)
         /\ t.rk = s.rk /\ t.dhs = s.dhs /\ t.dhr = s.dhr /\ t.cks = s.cks /\ t.ns = s.ns
         /\ t.ckr.root = s.ckr.root /\ s.ckr.i <= t.ckr.i
         /\ \A e \in t.skipped :
              \/ e \in s.skipped
              \/ CanReceive(s) /\ e.mk.root = s.ckr.root /\ s.ckr.i <= e.mk.i
<1>. DEFINE t == SkipTo(s, until)
<1>0. /\ s.ckr \in Chain /\ s.ckr.root \in Root /\ s.ckr.i \in Nat
      /\ s.nr \in Nat /\ s.dhr \in Nat /\ s.skipped \in SUBSET Skipped
  BY DEF State, Chain
<1>1. CASE ~CanReceive(s) \/ until <= s.nr
  BY <1>0, <1>1 DEF SkipTo
<1>2. CASE CanReceive(s) /\ ~(until <= s.nr)
  <2>. DEFINE fresh == {[dh |-> s.dhr, n |-> s.nr + j, mk |-> Link(s.ckr, j)] :
                          j \in 0 .. until - s.nr - 1}
              aside == Newest(s.skipped \cup fresh)
              end == Link(s.ckr, until - s.nr)
  <2>1. ASSUME NEW e \in fresh
        PROVE  /\ e \in Skipped /\ e.n = e.mk.i /\ e.dh = s.dhr
               /\ e.mk.root = s.ckr.root /\ s.ckr.i <= e.mk.i /\ e.mk.i < until
    <3>1. PICK j \in 0 .. until - s.nr - 1 :
            e = [dh |-> s.dhr, n |-> s.nr + j, mk |-> Link(s.ckr, j)]
      OBVIOUS
    <3>2. j \in Nat /\ s.nr + j < until
      BY <1>0, <1>2
    <3>. QED BY <1>0, <3>1, <3>2 DEF Link, Skipped, Chain, InStep
  <2>2. aside \subseteq s.skipped \cup fresh
    BY DEF Newest
  <2>3. end \in Chain /\ end.root = s.ckr.root /\ end.i = until /\ s.ckr.i <= until
    BY <1>0, <1>2 DEF Link, Chain, InStep
  <2>. HIDE DEF fresh
  <2>4. aside \in SUBSET Skipped
    BY <1>0, <2>1, <2>2
  <2>. HIDE DEF aside, end
  <2>5. /\ t \in State /\ t.skipped = aside /\ t.ckr = end /\ t.nr = until
        /\ t.rk = s.rk /\ t.dhs = s.dhs /\ t.dhr = s.dhr /\ t.cks = s.cks /\ t.ns = s.ns
    <3>1. t = [[[s EXCEPT !.skipped = aside] EXCEPT !.ckr = end] EXCEPT !.nr = until]
      BY <1>2 DEF SkipTo, aside, end, fresh
    <3>2. [s EXCEPT !.skipped = aside] \in State
      BY <2>4 DEF State
    <3>. HIDE DEF t
    <3>. QED BY <2>3, <2>4, <3>1 DEF State
  <2>. HIDE DEF t
  <2>6. \A e \in t.skipped :
          \/ e \in s.skipped
          \/ e \in fresh /\ e.mk.root = s.ckr.root /\ s.ckr.i <= e.mk.i
    BY <2>1, <2>2, <2>5
  <2>7. s.ckr.root # <<>> /\ end # NoChain
    BY <1>2, <2>3, NoStateType DEF Shape
  <2>8. CanReceive(t) /\ CanSend(t)
    BY <1>2, <2>5, <2>7 DEF CanReceive, CanSend, Shape
  <2>9. Shape(t, x)
    <3>1. ASSUME NEW e \in t.skipped
          PROVE  /\ e.n = e.mk.i
                 /\ Len(e.mk.root) <= Len(t.ckr.root) /\ Len(e.mk.root) \in ReadTurn(x)
                 /\ e.mk.root = t.ckr.root => e.dh = t.dhr /\ e.mk.i < t.ckr.i
      <4>1. CASE e \in s.skipped
        <5>1. e.mk.i \in Nat
          BY <1>0, <4>1 DEF Skipped, Chain
        <5>. QED BY <1>0, <2>3, <2>5, <4>1, <5>1 DEF Shape
      <4>2. CASE e \in fresh
        BY <1>0, <1>2, <2>1, <2>3, <2>5, <4>2, Roots DEF Shape
      <4>. QED BY <2>6, <4>1, <4>2
    <3>2. ASSUME NEW e \in t.skipped, NEW f \in t.skipped, e.mk.root = f.mk.root
          PROVE  e.dh = f.dh
      <4>1. \A g \in t.skipped : g \in s.skipped \/ (g.mk.root = s.ckr.root /\ g.dh = s.dhr)
        BY <2>1, <2>6
      <4>. QED BY <3>2, <4>1 DEF Shape
    <3>. QED BY <1>2, <2>3, <2>5, <2>8, <3>1, <3>2 DEF Shape
  <2>. QED BY <1>2, <2>3, <2>5, <2>6, <2>9 DEF InStep, t
<1>. QED BY <1>1, <1>2

LEMMA RatchetKeeps ==
  ASSUME NEW x \in Nodes, NEW s \in State, NEW dh \in Nat, NEW new \in Nat,
         InStep(s), Shape(s, x), Len(s.rk) + 1 \in ReadTurn(x)
  PROVE  LET t == DhRatchet(s, dh, new) IN
         /\ t \in State /\ InStep(t) /\ Shape(t, x)
         /\ CanSend(t) /\ CanReceive(t)
         /\ Len(t.rk) = Len(s.rk) + 2 /\ Len(t.ckr.root) = Len(s.rk) + 1
         /\ t.cks.root = t.rk /\ t.cks.i = 0 /\ t.ckr.i = 0
         /\ t.skipped = s.skipped
<1>. DEFINE rk1 == KdfRoot(s.rk, <<DH(s.dhs, dh)>>)
            rk2 == KdfRoot(rk1, <<DH(new, dh)>>)
            t == DhRatchet(s, dh, new)
<1>0. s.rk \in Root /\ s.dhs \in Nat /\ s.ns \in Nat /\ s.skipped \in SUBSET Skipped
      /\ Len(s.rk) \in Nat /\ s.ckr.root \in Root
  BY Roots DEF State, Chain
<1>1. /\ rk1 \in Root /\ rk1 # <<>> /\ Len(rk1) = Len(s.rk) + 1
      /\ rk2 \in Root /\ rk2 # <<>> /\ Len(rk2) = Len(s.rk) + 2
  <2>1. rk1 \in Root /\ rk1 # <<>> /\ Len(rk1) = Len(s.rk) + 1
    BY <1>0, Roots
  <2>. HIDE DEF rk1
  <2>2. rk2 \in Root /\ rk2 # <<>> /\ Len(rk2) = Len(rk1) + 1
    BY <2>1, Roots
  <2>. QED BY <1>0, <2>1, <2>2
<1>2. t = [rk |-> rk2, dhs |-> new, dhr |-> dh,
           cks |-> [root |-> rk2, i |-> 0], ckr |-> [root |-> rk1, i |-> 0],
           ns |-> 0, nr |-> 0, pn |-> s.ns, skipped |-> s.skipped]
  BY DEF DhRatchet
<1>. HIDE DEF rk1, rk2, t
<1>3. t \in State /\ InStep(t)
  BY <1>0, <1>1, <1>2 DEF State, Chain, InStep
<1>4. CanSend(t) /\ CanReceive(t)
  BY <1>1, <1>2, NoStateType DEF CanSend, CanReceive
<1>5. Len(rk2) \in SendTurn(x)
  BY <1>0, <1>1, Turns
<1>6. ASSUME NEW e \in s.skipped
      PROVE  Len(e.mk.root) <= Len(rk1) /\ e.mk.root # rk1
  <2>1. Len(e.mk.root) <= Len(s.ckr.root) /\ Len(s.ckr.root) + 1 = Len(s.rk)
    BY DEF Shape
  <2>2. Len(e.mk.root) \in Nat /\ Len(s.ckr.root) \in Nat
    BY <1>0, Roots DEF Skipped, Chain
  <2>. QED BY <1>1, <2>1, <2>2
<1>7. Shape(t, x)
  BY <1>1, <1>2, <1>4, <1>5, <1>6 DEF Shape
<1>. QED BY <1>1, <1>2, <1>3, <1>4, <1>7 DEF t

\* What a state has passed or used, it has after a step too.
Forward(s, t) ==
  \A k \in Message : (Passed(s, k) => Passed(t, k)) /\ (Used(s, k) => Used(t, k))

LEMMA SkipToForward ==
  ASSUME NEW x \in Nodes, NEW s \in State, NEW until \in Nat, InStep(s), Shape(s, x)
  PROVE  Forward(s, SkipTo(s, until))
<1>. DEFINE t == SkipTo(s, until)
<1>1. /\ t \in State
      /\ t.rk = s.rk /\ t.cks = s.cks
      /\ t.ckr.root = s.ckr.root /\ s.ckr.i <= t.ckr.i
      /\ \A e \in t.skipped :
           \/ e \in s.skipped
           \/ CanReceive(s) /\ e.mk.root = s.ckr.root /\ s.ckr.i <= e.mk.i
  BY SkipToKeeps
<1>. HIDE DEF t
<1>2. s.ckr.i \in Nat /\ t.ckr.i \in Nat
  BY <1>1 DEF State, Chain
<1>3. \A e \in t.skipped : e.mk.i \in Nat
  BY <1>1 DEF State, Skipped, Chain
<1>4. ASSUME NEW k \in Message, Passed(s, k) PROVE Passed(t, k)
  BY <1>1, <1>4 DEF Passed, CanSend
<1>5. ASSUME NEW k \in Message, Used(s, k) PROVE Used(t, k)
  <2>0. k.mk.i \in Nat
    BY DEF Message, Chain
  <2>1. \A e \in t.skipped : e.mk # k.mk
    BY <1>1, <1>2, <1>3, <1>5, <2>0 DEF Used
  <2>2. t.ckr.root # <<>> /\ CanReceive(t)
    <3>1. s.ckr.root # <<>>
      BY <1>5 DEF Used, Shape
    <3>. QED BY <1>1, <3>1, NoStateType DEF CanReceive
  <2>. QED BY <1>1, <1>2, <1>5, <2>0, <2>1, <2>2 DEF Used
<1>. QED BY <1>4, <1>5 DEF Forward, t

LEMMA RatchetForward ==
  ASSUME NEW x \in Nodes, NEW s \in State, NEW dh \in Nat, NEW new \in Nat,
         InStep(s), Shape(s, x), Len(s.rk) + 1 \in ReadTurn(x)
  PROVE  Forward(s, DhRatchet(s, dh, new))
<1>. DEFINE t == DhRatchet(s, dh, new)
<1>1. /\ t \in State /\ CanSend(t) /\ CanReceive(t)
      /\ Len(t.rk) = Len(s.rk) + 2 /\ Len(t.ckr.root) = Len(s.rk) + 1
      /\ t.cks.root = t.rk /\ t.skipped = s.skipped
  BY RatchetKeeps, ZenonT(30)
<1>. HIDE DEF t
<1>2. s.rk \in Root /\ Len(s.rk) \in Nat /\ s.ckr.root \in Root /\ Len(s.ckr.root) \in Nat
  BY Roots DEF State, Chain
<1>3. ASSUME NEW k \in Message
      PROVE  Len(k.mk.root) \in Nat
  BY Roots DEF Message, Chain
<1>4. ASSUME NEW k \in Message, Passed(s, k) PROVE Passed(t, k)
  <2>1. Len(k.mk.root) < Len(t.rk)
    BY <1>1, <1>2, <1>3, <1>4 DEF Passed
  <2>2. Len(k.mk.root) <= Len(t.rk) /\ k.mk.root # t.rk
    BY <1>1, <1>2, <1>3, <2>1
  <2>. QED BY <1>1, <2>2 DEF Passed
<1>5. ASSUME NEW k \in Message, Used(s, k) PROVE Used(t, k)
  <2>1. Len(s.ckr.root) + 1 = Len(s.rk) /\ Len(k.mk.root) <= Len(s.ckr.root)
    BY <1>5 DEF Used, Shape
  <2>2. Len(k.mk.root) <= Len(t.ckr.root) /\ k.mk.root # t.ckr.root
    <3>1. Len(t.ckr.root) = Len(s.rk) + 1 /\ Len(k.mk.root) \in Nat
      BY <1>1, <1>3
    <3>2. Len(k.mk.root) < Len(t.ckr.root) /\ Len(t.ckr.root) \in Nat
      <4>. DEFINE a == Len(k.mk.root)
                  b == Len(s.ckr.root)
                  c == Len(s.rk)
                  d == Len(t.ckr.root)
      <4>1. a \in Nat /\ b \in Nat /\ c \in Nat /\ b + 1 = c /\ a <= b /\ d = c + 1
        BY <1>2, <2>1, <3>1
      <4>. HIDE DEF a, b, c, d
      <4>2. a < d /\ d \in Nat
        BY <4>1
      <4>. QED BY <4>2 DEF a, d
    <3>3. k.mk.root # t.ckr.root
      BY <3>1, <3>2
    <3>. QED BY <3>1, <3>2, <3>3
  <2>. QED BY <1>1, <1>5, <2>2 DEF Used
<1>. QED BY <1>4, <1>5 DEF Forward, t

\* Whatever the shape, SkipTo stays in its chain, and DhRatchet opens the next one.
LEMMA RootsOnly ==
  ASSUME NEW s \in State
  PROVE  /\ \A until \in Nat : SkipTo(s, until).ckr.root = s.ckr.root
         /\ \A dh, new \in Nat :
              /\ DhRatchet(s, dh, new) \in State
              /\ Len(DhRatchet(s, dh, new).ckr.root) = Len(s.rk) + 1
<1>1. ASSUME NEW until \in Nat PROVE SkipTo(s, until).ckr.root = s.ckr.root
  <2>. DEFINE fresh == {[dh |-> s.dhr, n |-> s.nr + j, mk |-> Link(s.ckr, j)] :
                          j \in 0 .. until - s.nr - 1}
              aside == Newest(s.skipped \cup fresh)
              end == Link(s.ckr, until - s.nr)
  <2>1. end.root = s.ckr.root
    BY DEF Link
  <2>. HIDE DEF aside, end
  <2>2. [s EXCEPT !.skipped = aside, !.ckr = end, !.nr = until].ckr = end
    BY DEF State
  <2>3. \/ SkipTo(s, until) = s
        \/ SkipTo(s, until) = [s EXCEPT !.skipped = aside, !.ckr = end, !.nr = until]
    BY DEF SkipTo, aside, end
  <2>. QED BY <2>1, <2>2, <2>3
<1>2. ASSUME NEW dh \in Nat, NEW new \in Nat
      PROVE  /\ DhRatchet(s, dh, new) \in State
             /\ Len(DhRatchet(s, dh, new).ckr.root) = Len(s.rk) + 1
  <2>. DEFINE rk1 == KdfRoot(s.rk, <<DH(s.dhs, dh)>>)
              rk2 == KdfRoot(rk1, <<DH(new, dh)>>)
  <2>0. s.rk \in Root /\ s.dhs \in Nat /\ s.ns \in Nat /\ s.skipped \in SUBSET Skipped
    BY DEF State
  <2>1. rk1 \in Root /\ Len(rk1) = Len(s.rk) + 1
    BY <2>0, Roots
  <2>2. rk2 \in Root
    <3>. HIDE DEF rk1
    <3>. QED BY <2>1, Roots
  <2>3. DhRatchet(s, dh, new) =
          [rk |-> rk2, dhs |-> new, dhr |-> dh,
           cks |-> [root |-> rk2, i |-> 0], ckr |-> [root |-> rk1, i |-> 0],
           ns |-> 0, nr |-> 0, pn |-> s.ns, skipped |-> s.skipped]
    BY DEF DhRatchet
  <2>. HIDE DEF rk1, rk2
  <2>. QED BY <2>0, <2>1, <2>2, <2>3 DEF State, Chain
<1>. QED BY <1>1, <1>2

LEMMA TurnedKeeps ==
  ASSUME NEW x \in Nodes, NEW s \in State, NEW m \in Message, NEW new \in Nat,
         InStep(s), Shape(s, x), OpensAhead(s, m, new),
         m.mk.root # <<>>, Len(m.mk.root) \in ReadTurn(x)
  PROVE  LET u == Turned(s, m, new) IN
         /\ u \in State /\ InStep(u) /\ Shape(u, x) /\ Forward(s, u)
<1>. DEFINE v == SkipTo(s, m.pn)
            u == Turned(s, m, new)
            a == Arrived(s, m, new)
<1>0. m.n \in Nat /\ m.pn \in Nat /\ m.dh \in Nat /\ m.mk \in Chain /\ a.ckr = m.mk
  BY DEF Message, OpensAhead, KeyOpens
<1>1. a = SkipTo(u, m.n)
  BY DEF Arrived
<1>2. CASE m.dh = s.dhr
  BY <1>2 DEF Turned, Forward
<1>3. CASE m.dh # s.dhr
  <2>1. u = DhRatchet(v, m.dh, new)
    BY <1>3 DEF Turned
  <2>2. v \in State /\ InStep(v) /\ Shape(v, x)
    BY <1>0, SkipToKeeps
  <2>3. Forward(s, v)
    BY <1>0, SkipToForward
  <2>. HIDE DEF v, u, a
  <2>4. u \in State /\ Len(u.ckr.root) = Len(v.rk) + 1
    BY <1>0, <2>1, <2>2, RootsOnly
  <2>5. a.ckr.root = u.ckr.root
    BY <1>0, <1>1, <2>4, RootsOnly
  <2>6. Len(v.rk) + 1 \in ReadTurn(x)
    BY <1>0, <2>4, <2>5
  <2>7. InStep(u) /\ Shape(u, x)
    BY <1>0, <2>1, <2>2, <2>6, RatchetKeeps
  <2>8. Forward(v, u)
    BY <1>0, <2>1, <2>2, <2>6, RatchetForward
  <2>9. Forward(s, u)
    BY <2>3, <2>8 DEF Forward
  <2>. QED BY <2>4, <2>7, <2>9 DEF u
<1>. QED BY <1>2, <1>3

LEMMA AdvanceKeeps ==
  ASSUME NEW x \in Nodes, NEW s \in State, NEW m \in Message, NEW new \in Nat,
         InStep(s), Shape(s, x), OpensAhead(s, m, new),
         m.mk.root # <<>>, Len(m.mk.root) \in ReadTurn(x)
  PROVE  LET t == Advance(s, m, new) IN
         t \in State /\ InStep(t) /\ Shape(t, x) /\ Forward(s, t) /\ Used(t, m)
<1>. DEFINE u == Turned(s, m, new)
            a == Arrived(s, m, new)
            t == Advance(s, m, new)
<1>0. m.n \in Nat /\ m.pn \in Nat /\ m.dh \in Nat /\ m.mk \in Chain /\ a.ckr = m.mk
  BY DEF Message, OpensAhead, KeyOpens
<1>1. a = SkipTo(u, m.n)
  BY DEF Arrived
<1>2. u \in State /\ InStep(u) /\ Shape(u, x) /\ Forward(s, u)
  BY TurnedKeeps
<1>. HIDE DEF u
<1>3. a \in State /\ InStep(a) /\ Shape(a, x)
  BY <1>0, <1>1, <1>2, SkipToKeeps, ZenonT(30)
<1>4. Forward(s, a)
  <2>1. Forward(u, a)
    BY <1>0, <1>1, <1>2, SkipToForward
  <2>. QED BY <1>2, <2>1 DEF Forward
<1>5. t = [a EXCEPT !.ckr = Link(a.ckr, 1), !.nr = a.nr + 1]
  BY DEF Advance
<1>. HIDE DEF a, t
<1>. DEFINE c == Link(a.ckr, 1)
<1>6. c \in Chain /\ c.root = a.ckr.root /\ c.i = a.ckr.i + 1 /\ a.ckr.i \in Nat /\ a.nr \in Nat
  <2>1. a.ckr \in Chain /\ a.nr \in Nat
    BY <1>3 DEF State
  <2>2. a.ckr.root \in Root /\ a.ckr.i \in Nat
    BY <2>1 DEF Chain
  <2>. QED BY <2>1, <2>2 DEF Chain, Link
<1>. HIDE DEF c
<1>7. /\ t \in State /\ t.ckr = c /\ t.nr = a.nr + 1
      /\ t.rk = a.rk /\ t.dhs = a.dhs /\ t.dhr = a.dhr /\ t.cks = a.cks /\ t.ns = a.ns
      /\ t.skipped = a.skipped
  <2>. DEFINE j == a.nr + 1
              w == WithChain(a, c, j)
  <2>1. t = w
    BY <1>5 DEF c, WithChain
  <2>2. a \in State /\ c \in Chain /\ j \in Nat
    BY <1>3, <1>6
  <2>. HIDE DEF j
  <2>3. /\ w \in State /\ w.ckr = c /\ w.nr = j
        /\ w.rk = a.rk /\ w.dhs = a.dhs /\ w.dhr = a.dhr /\ w.cks = a.cks /\ w.ns = a.ns
        /\ w.skipped = a.skipped
    BY <2>2, ChainSet
  <2>. HIDE DEF w
  <2>. QED BY <2>1, <2>3 DEF j
<1>8. CanReceive(a) /\ CanReceive(t) /\ (CanSend(t) <=> CanSend(a))
  BY <1>0, <1>6, <1>7, NoStateType DEF CanReceive, CanSend
<1>9. \A e \in a.skipped : e.mk.i \in Nat
  BY <1>3 DEF State, Skipped, Chain
<1>10. Shape(t, x)
  <2>1. Shape(a, x)
    BY <1>3
  <2>2. \A e \in a.skipped : e.mk.root = c.root => e.dh = a.dhr /\ e.mk.i < c.i
    <3>1. \A e \in a.skipped : e.mk.root = a.ckr.root => e.dh = a.dhr /\ e.mk.i < a.ckr.i
      BY <2>1 DEF Shape
    <3>. QED BY <1>6, <1>9, <3>1
  <2>. QED BY <1>6, <1>7, <1>8, <2>1, <2>2 DEF Shape
<1>11. ASSUME NEW k \in Message
       PROVE  (Passed(a, k) => Passed(t, k)) /\ (Used(a, k) => Used(t, k))
  <2>1. k.mk.i \in Nat
    BY DEF Message, Chain
  <2>. QED BY <1>6, <1>7, <1>8, <2>1 DEF Passed, Used
<1>12. Forward(s, t)
  BY <1>4, <1>11 DEF Forward
<1>13. Used(t, m)
  <2>1. \A e \in a.skipped : e.mk # m.mk
    <3>1. \A e \in a.skipped : e.mk.root = a.ckr.root => e.mk.i < a.ckr.i
      BY <1>3 DEF Shape
    <3>. QED BY <1>0, <1>6, <1>9, <3>1
  <2>2. Len(m.mk.root) <= Len(t.ckr.root) /\ m.mk.i < t.ckr.i
    BY <1>0, <1>6, <1>7, Roots DEF Chain
  <2>. QED BY <1>7, <1>8, <2>1, <2>2 DEF Used
<1>. QED BY <1>3, <1>6, <1>7, <1>10, <1>12, <1>13 DEF InStep, t

LEMMA TakeSkippedKeeps ==
  ASSUME NEW x \in Nodes, NEW s \in State, NEW m \in Message,
         InStep(s), Shape(s, x), OpensAside(s, m), m.n = m.mk.i
  PROVE  LET t == TakeSkipped(s, m) IN
         t \in State /\ InStep(t) /\ Shape(t, x) /\ Forward(s, t) /\ Used(t, m)
<1>. DEFINE t == TakeSkipped(s, m)
            rest == s.skipped \ PutAside(s, m)
<1>1. t = [s EXCEPT !.skipped = rest] /\ rest \subseteq s.skipped
  BY DEF TakeSkipped
<1>2. PICK e \in PutAside(s, m) : e.mk = m.mk
  BY DEF OpensAside, KeyOpens
<1>3. e \in s.skipped /\ e.dh = m.dh
  BY DEF PutAside
<1>4. ASSUME NEW f \in rest PROVE f.mk # m.mk
  <2>1. f \in s.skipped /\ ~(f.dh = m.dh /\ f.n = m.n)
    BY DEF PutAside
  <2>2. f.mk = m.mk => f.dh = e.dh /\ f.n = m.n
    BY <1>2, <1>3, <2>1 DEF Shape
  <2>. QED BY <1>3, <2>1, <2>2
<1>5. CanReceive(s) /\ Len(m.mk.root) <= Len(s.ckr.root)
      /\ (m.mk.root = s.ckr.root => m.mk.i < s.ckr.i)
  BY <1>2, <1>3 DEF Shape
<1>. HIDE DEF t, rest
<1>6. /\ t \in State /\ t.skipped = rest
      /\ t.rk = s.rk /\ t.dhr = s.dhr /\ t.cks = s.cks /\ t.ckr = s.ckr
      /\ t.ns = s.ns /\ t.nr = s.nr
  BY <1>1 DEF State
<1>7. CanReceive(t) /\ (CanSend(t) <=> CanSend(s))
  BY <1>5, <1>6 DEF CanReceive, CanSend
<1>8. Shape(t, x)
  BY <1>1, <1>5, <1>6, <1>7 DEF Shape
<1>9. Forward(s, t)
  BY <1>1, <1>6, <1>7 DEF Forward, Passed, Used
<1>10. Used(t, m)
  BY <1>4, <1>5, <1>6, <1>7 DEF Used
<1>. QED BY <1>6, <1>8, <1>9, <1>10 DEF InStep, t

-----------------------------------------------------------------------------
(* What the actions keep                                                   *)

\* Of what IInv says, what the states have to keep.
StatesFit ==
  /\ st \in [Nodes -> State]
  /\ \A x \in Nodes : InStep(st[x]) /\ Shape(st[x], x)
  /\ \A k \in sent : Passed(st[k.from], k)
  /\ \A k \in read : Used(st[k.to], k)

LEMMA TypedMessages ==
  ASSUME IInv
  PROVE  /\ \A k \in sent : k \in Message /\ k.from \in Nodes /\ k.to \in Nodes
                            /\ k.from = Other(k.to) /\ Len(k.mk.root) \in ReadTurn(k.to)
         /\ \A k \in net : k.kind = "msg" => k \in sent
         /\ read \subseteq sent
         /\ StatesFit
<1>1. ASSUME NEW k \in sent
      PROVE  k \in Message /\ k.from \in Nodes /\ k.to \in Nodes /\ k.from = Other(k.to)
  BY Others DEF IInv, TypeOK, Message
<1>2. ASSUME NEW k \in net, k.kind = "msg" PROVE k \in sent
  BY <1>2 DEF IInv, TypeOK, Half
<1>3. \A k \in sent : Len(k.mk.root) \in ReadTurn(k.to)
  BY <1>1 DEF IInv, SentShape, ReadTurn
<1>4. StatesFit
  BY DEF IInv, TypeOK, SentShape, StatesFit, InStep
<1>. QED BY <1>1, <1>2, <1>3, <1>4 DEF IInv, TypeOK

LEMMA OneStateMoves ==
  ASSUME IInv, NEW x \in Nodes, NEW t \in State,
         InStep(t), Shape(t, x), Forward(st[x], t),
         st' = [st EXCEPT ![x] = t]
  PROVE  /\ st' \in [Nodes -> State]
         /\ \A y \in Nodes : InStep(st'[y]) /\ Shape(st'[y], y)
         /\ \A k \in sent : Passed(st'[k.from], k)
         /\ \A k \in read : Used(st'[k.to], k)
<1>1. StatesFit
  BY TypedMessages
<1>2. \A y \in Nodes : st'[y] = IF y = x THEN t ELSE st[y]
  BY <1>1 DEF StatesFit
<1>3. st' \in [Nodes -> State]
  BY <1>1 DEF StatesFit
<1>4. \A k \in sent : k \in Message /\ k.from \in Nodes /\ k.to \in Nodes
  BY TypedMessages
<1>5. ASSUME NEW k \in sent PROVE Passed(st'[k.from], k)
  BY <1>1, <1>2, <1>4 DEF StatesFit, Forward
<1>6. ASSUME NEW k \in read PROVE Used(st'[k.to], k)
  BY <1>1, <1>2, <1>4, TypedMessages DEF StatesFit, Forward
<1>7. \A y \in Nodes : InStep(st'[y]) /\ Shape(st'[y], y)
  BY <1>1, <1>2 DEF StatesFit
<1>. QED BY <1>3, <1>5, <1>6, <1>7

\* Once a message was sent the handshake is over.
LEMMA AfterHandshake ==
  ASSUME IInv, (\E k \in net : k.kind = "msg") \/ (\E x \in Nodes : CanSend(st[x]))
  PROVE  made # 2 /\ \A h \in net : h.kind = "msg"
BY TypedMessages DEF IInv, HandshakeFirst

LEMMA DecryptKeeps == ASSUME IInv, NEW m \in net, Decrypt(m) PROVE IInv'
<1>. DEFINE x == m.to
            s == st[x]
            new == made + 1
<1>1. /\ m \in sent /\ m \in Message /\ x \in Nodes /\ m.kind = "msg"
      /\ Len(m.mk.root) \in ReadTurn(x) /\ m.mk.root # <<>> /\ m.n = m.mk.i
  BY TypedMessages DEF Decrypt, IInv, SentShape
<1>2. s \in State /\ InStep(s) /\ Shape(s, x) /\ made \in Nat /\ new \in Nat
  BY <1>1, TypedMessages DEF StatesFit, IInv, TypeOK
<1>3. PICK t \in State : /\ InStep(t) /\ Shape(t, x) /\ Forward(s, t) /\ Used(t, m)
                         /\ st' = [st EXCEPT ![x] = t]
                         /\ made' \in {made, new}
  <2>1. CASE OpensAside(s, m) /\ st' = [st EXCEPT ![x] = TakeSkipped(s, m)] /\ made' = made
    BY <1>1, <1>2, <2>1, TakeSkippedKeeps
  <2>2. CASE /\ OpensAhead(s, m, new) /\ st' = [st EXCEPT ![x] = Advance(s, m, new)]
             /\ made' \in {made, new}
    BY <1>1, <1>2, <2>2, AdvanceKeeps
  <2>. QED BY <2>1, <2>2 DEF Decrypt
<1>4. /\ st' \in [Nodes -> State]
      /\ \A y \in Nodes : InStep(st'[y]) /\ Shape(st'[y], y)
      /\ \A k \in sent : Passed(st'[k.from], k)
      /\ \A k \in read : Used(st'[k.to], k)
  BY <1>1, <1>3, OneStateMoves
<1>5. /\ read' = read \cup {m} /\ net' = net \ {m}
      /\ UNCHANGED <<eph, sent, eaten, crowded>>
  BY DEF Decrypt
<1>6. TypeOK'
  BY <1>1, <1>2, <1>3, <1>4, <1>5 DEF IInv, TypeOK, InStep
<1>7. HandshakeFirst'
  <2>1. made # 2 /\ \A h \in net : h.kind = "msg"
    BY <1>1, AfterHandshake
  <2>2. made >= 2 /\ made' # 2 /\ made' >= 2
    BY <1>2, <1>3, <2>1 DEF IInv, HandshakeFirst
  <2>. QED BY <1>5, <2>1, <2>2 DEF HandshakeFirst
<1>8. SentShape'
  BY <1>4, <1>5 DEF IInv, SentShape
<1>9. \A k \in read' : Used(st'[k.to], k)
  <2>1. st'[m.to] = st'[x] /\ Used(st'[x], m)
    BY <1>1, <1>2, <1>3, TypedMessages DEF StatesFit
  <2>. QED BY <1>4, <1>5, <2>1
<1>. QED BY <1>4, <1>6, <1>7, <1>8, <1>9 DEF IInv

LEMMA DecryptFailsKeeps == ASSUME IInv, NEW m \in net, DecryptFails(m) PROVE IInv'
<1>1. m \in sent
  BY TypedMessages DEF DecryptFails
<1>. QED BY <1>1 DEF DecryptFails, IInv, TypeOK, HandshakeFirst, SentShape

LEMMA EncryptKeeps == ASSUME IInv, NEW x \in Nodes, Encrypt(x) PROVE IInv'
<1>. DEFINE s == st[x]
            t == [s EXCEPT !.cks = Link(s.cks, 1), !.ns = s.ns + 1]
            c == Link(s.cks, 1)
            m == [kind |-> "msg", from |-> x, to |-> Other(x),
                  dh |-> s.dhs, pn |-> s.pn, n |-> s.ns, mk |-> s.cks]
<1>1. s \in State /\ InStep(s) /\ Shape(s, x) /\ CanSend(s)
  BY TypedMessages DEF StatesFit, Encrypt
<1>2. /\ s.cks \in Chain /\ s.cks.root \in Root /\ s.cks.i \in Nat /\ s.ns \in Nat
      /\ s.ns = s.cks.i /\ s.cks.root = s.rk /\ s.rk # <<>> /\ Len(s.rk) \in SendTurn(x)
      /\ Len(s.rk) \in Nat
  BY <1>1, Roots DEF State, Chain, InStep, Shape
<1>3. c \in Chain /\ c.root = s.cks.root /\ c.i = s.cks.i + 1
  BY <1>2 DEF Link, Chain
<1>4. t = [[s EXCEPT !.cks = c] EXCEPT !.ns = s.ns + 1]
  BY DEF c
<1>5. /\ sent' = sent \cup {m} /\ net' = net \cup {m} /\ crowded' \subseteq crowded \cup Nodes
      /\ UNCHANGED <<eph, made, read, eaten>>
      /\ st' = [st EXCEPT ![x] = t]
  BY Others DEF Encrypt
<1>6. /\ m \in Message /\ m.kind = "msg" /\ m.from = x /\ m.to = Other(x) /\ m.n = s.ns
      /\ m.mk = s.cks
  BY <1>1, <1>2, Others DEF Message, State
<1>. HIDE DEF c, m, t
<1>7. /\ t \in State /\ t.cks = c /\ t.ns = s.ns + 1 /\ t.rk = s.rk /\ t.dhr = s.dhr
      /\ t.ckr = s.ckr /\ t.nr = s.nr /\ t.skipped = s.skipped
  <2>. DEFINE j == s.ns + 1
              w == WithSent(s, c, j)
  <2>. HIDE DEF s
  <2>1. t = w
    BY <1>4 DEF WithSent
  <2>2. j \in Nat
    BY <1>2
  <2>. HIDE DEF j
  <2>3. /\ w \in State /\ w.cks = c /\ w.ns = j /\ w.rk = s.rk /\ w.dhr = s.dhr
        /\ w.ckr = s.ckr /\ w.nr = s.nr /\ w.skipped = s.skipped
    BY <1>1, <1>3, <2>2, SentSet
  <2>. HIDE DEF w
  <2>. QED BY <2>1, <2>3 DEF j
<1>8. CanSend(t) /\ (CanReceive(t) <=> CanReceive(s))
  BY <1>2, <1>3, <1>7, NoStateType DEF CanSend, CanReceive
<1>9. InStep(t) /\ Shape(t, x)
  BY <1>1, <1>2, <1>3, <1>7, <1>8 DEF InStep, Shape
<1>10. Forward(s, t)
  <2>1. ASSUME NEW k \in Message, Passed(s, k) PROVE Passed(t, k)
    <3>1. k.mk.i \in Nat
      BY DEF Message, Chain
    <3>. QED BY <1>2, <1>3, <1>7, <1>8, <2>1, <3>1 DEF Passed
  <2>2. ASSUME NEW k \in Message, Used(s, k) PROVE Used(t, k)
    BY <1>7, <1>8, <2>2 DEF Used
  <2>. QED BY <2>1, <2>2 DEF Forward
<1>11. Passed(t, m)
  BY <1>2, <1>3, <1>6, <1>7, <1>8 DEF Passed
<1>12. /\ st' \in [Nodes -> State]
       /\ \A y \in Nodes : InStep(st'[y]) /\ Shape(st'[y], y)
       /\ \A k \in sent : Passed(st'[k.from], k)
       /\ \A k \in read : Used(st'[k.to], k)
  BY <1>5, <1>7, <1>9, <1>10, OneStateMoves
<1>13. TypeOK'
  <2>1. sent' \subseteq Message /\ \A k \in sent' : k.to = Other(k.from)
    BY <1>5, <1>6 DEF IInv, TypeOK
  <2>2. net' \subseteq Half \cup sent' /\ crowded' \subseteq Nodes
    BY <1>5 DEF IInv, TypeOK
  <2>. QED BY <1>5, <1>12, <2>1, <2>2 DEF IInv, TypeOK, InStep
<1>14. HandshakeFirst'
  <2>1. made # 2 /\ \A h \in net : h.kind = "msg"
    BY <1>1, AfterHandshake
  <2>2. \A h \in net' : h.kind = "msg"
    BY <1>5, <1>6, <2>1
  <2>. QED BY <1>5, <2>1, <2>2 DEF IInv, HandshakeFirst
<1>15. SentShape'
  <2>1. st'[x] = t
    BY <1>5, TypedMessages DEF StatesFit
  <2>. QED BY <1>2, <1>5, <1>6, <1>11, <1>12, <2>1 DEF IInv, SentShape
<1>. QED BY <1>5, <1>12, <1>13, <1>14, <1>15 DEF IInv

LEMMA NewHandshakeKeeps == ASSUME IInv, NewHandshake PROVE IInv'
<1>1. sent = {} /\ \A x \in Nodes : ~CanSend(st[x]) /\ ~CanReceive(st[x])
  BY DEF NewHandshake, IInv, HandshakeFirst
<1>2. net' = {[kind |-> "init", eph |-> 3]}
  BY DEF NewHandshake, IInv, HandshakeFirst
<1>3. net' \subseteq Half
  BY <1>2 DEF Half
<1>4. HandshakeFirst'
  BY <1>1, <1>2 DEF NewHandshake, HandshakeFirst
<1>. QED BY <1>3, <1>4 DEF NewHandshake, IInv, TypeOK, SentShape

\* The root key both sides of a handshake begin with.
LEMMA FirstRoot ==
  ASSUME NEW a1 \in Nat, NEW b1 \in Nat, NEW a2 \in Nat, NEW b2 \in Nat,
         NEW a3 \in Nat, NEW b3 \in Nat
  PROVE  /\ DeriveSK(DH(a1, b1), DH(a2, b2), DH(a3, b3)) \in Root
         /\ Len(DeriveSK(DH(a1, b1), DH(a2, b2), DH(a3, b3))) = 1
<1>. DEFINE d == <<DH(a1, b1), DH(a2, b2), DH(a3, b3)>>
<1>1. d \in Seq(SUBSET Nat)
  BY DEF DH
<1>. DEFINE e == <<>>
<1>2. e \in Root /\ Len(e) = 0
  BY Roots
<1>. HIDE DEF d, e
<1>3. KdfRoot(e, d) \in Root /\ Len(KdfRoot(e, d)) = 1
  <2>1. KdfRoot(e, d) \in Root /\ Len(KdfRoot(e, d)) = Len(e) + 1
    BY <1>1, <1>2, Roots
  <2>. QED BY <1>2, <2>1
<1>. QED BY <1>3 DEF DeriveSK, d, e

\* The states of a handshake that both sides have not finished.
LEMMA HalfKeeps ==
  ASSUME IInv, NEW h \in net, h.kind # "msg"
  PROVE  /\ h \in Half /\ net = {h} /\ sent = {} /\ read = {} /\ eaten = {} /\ h.eph \in Nat
         /\ made # 2 /\ made >= 2 /\ made \in Nat
         /\ \A x \in Nodes : ~CanSend(st[x]) /\ ~CanReceive(st[x])
<1>1. h \in Half
  BY DEF IInv, TypeOK, Message
<1>. QED BY <1>1 DEF IInv, TypeOK, HandshakeFirst, Half

LEMMA AcceptHandshakeKeeps ==
  ASSUME IInv, NEW init \in net, AcceptHandshake(init) PROVE IInv'
<1>. DEFINE new == made + 1
            sk == DeriveSK(DH(new, IK(Initiator)), DH(IK(Responder), init.eph), DH(new, init.eph))
            t == [NoState EXCEPT !.rk = sk, !.dhs = new]
            ack == [kind |-> "ack", eph |-> new]
<1>1. /\ net = {init} /\ sent = {} /\ read = {} /\ eaten = {} /\ init.eph \in Nat
      /\ made >= 2 /\ made \in Nat /\ new \in Nat
      /\ \A x \in Nodes : ~CanSend(st[x]) /\ ~CanReceive(st[x])
  BY HalfKeeps DEF AcceptHandshake
<1>2. sk \in Root /\ Len(sk) = 1
  <2>. DEFINE i == IK(Initiator)
              r == IK(Responder)
              e == init.eph
  <2>1. i \in Nat /\ r \in Nat /\ e \in Nat
    BY <1>1 DEF IK
  <2>. HIDE DEF new, i, r, e
  <2>2. /\ DeriveSK(DH(new, i), DH(r, e), DH(new, e)) \in Root
        /\ Len(DeriveSK(DH(new, i), DH(r, e), DH(new, e))) = 1
    BY <1>1, <2>1, FirstRoot
  <2>. QED BY <2>2 DEF i, r, e
<1>3. /\ made' = new /\ net' = {ack} /\ st' = [st EXCEPT ![Responder] = t]
      /\ UNCHANGED <<eph, sent, read, eaten, crowded>>
  BY <1>1 DEF AcceptHandshake
<1>. HIDE DEF sk
<1>4. /\ t \in State /\ t.cks = NoChain /\ t.ckr = NoChain /\ t.ns = 0 /\ t.nr = 0
      /\ t.skipped = {}
  <2>. DEFINE a == [NoState EXCEPT !.rk = sk]
  <2>1. t = [a EXCEPT !.dhs = new]
    OBVIOUS
  <2>2. a \in State /\ a.cks = NoChain /\ a.ckr = NoChain /\ a.ns = 0 /\ a.nr = 0
        /\ a.skipped = {}
    BY <1>2, NoStateType, NoStateFields DEF State
  <2>. HIDE DEF a, t, new
  <2>. QED BY <1>1, <2>1, <2>2 DEF State
<1>5. ~CanSend(t) /\ ~CanReceive(t)
  BY <1>4 DEF CanSend, CanReceive
<1>6. InStep(t) /\ Shape(t, Responder)
  BY <1>4, <1>5, NoStateType DEF InStep, Shape
<1>. HIDE DEF t
<1>7. /\ st' \in [Nodes -> State]
      /\ \A y \in Nodes : InStep(st'[y]) /\ Shape(st'[y], y) /\ ~CanSend(st'[y])
                          /\ ~CanReceive(st'[y])
  BY <1>1, <1>3, <1>4, <1>5, <1>6, TypedMessages DEF StatesFit
<1>8. TypeOK'
  BY <1>1, <1>3, <1>7 DEF IInv, TypeOK, Half, InStep
<1>9. HandshakeFirst'
  BY <1>1, <1>3, <1>7 DEF HandshakeFirst, CanSend, CanReceive
<1>. QED BY <1>1, <1>3, <1>7, <1>8, <1>9 DEF IInv, SentShape

LEMMA FinishKeeps == ASSUME IInv, NEW ack \in net, Finish(ack) PROVE IInv'
<1>. DEFINE new == made + 1
            sk == DeriveSK(DH(IK(Initiator), ack.eph), DH(eph, IK(Responder)), DH(eph, ack.eph))
            rk == KdfRoot(sk, <<DH(new, ack.eph)>>)
            c == [root |-> rk, i |-> 0]
            t == [NoState EXCEPT !.rk = rk, !.dhs = new, !.dhr = ack.eph, !.cks = c]
<1>1. /\ net = {ack} /\ sent = {} /\ read = {} /\ eaten = {} /\ ack.eph \in Nat
      /\ made >= 2 /\ made \in Nat /\ new \in Nat
  BY HalfKeeps DEF Finish
<1>2. sk \in Root /\ Len(sk) = 1
  <2>. DEFINE i == IK(Initiator)
              r == IK(Responder)
              e == ack.eph
  <2>1. i \in Nat /\ r \in Nat /\ e \in Nat /\ eph \in Nat
    BY <1>1 DEF IK, IInv, TypeOK
  <2>. HIDE DEF i, r, e
  <2>2. /\ DeriveSK(DH(i, e), DH(eph, r), DH(eph, e)) \in Root
        /\ Len(DeriveSK(DH(i, e), DH(eph, r), DH(eph, e))) = 1
    BY <2>1, FirstRoot
  <2>. QED BY <2>2 DEF i, r, e
<1>3. /\ made' = new /\ eph' = 0 /\ net' = {} /\ st' = [st EXCEPT ![Initiator] = t]
      /\ UNCHANGED <<sent, read, eaten, crowded>>
  BY <1>1 DEF Finish
<1>4. rk \in Root /\ rk # <<>> /\ Len(rk) = 2
  <2>. DEFINE d == <<DH(new, ack.eph)>>
  <2>. HIDE DEF sk, new
  <2>1. d \in Seq(SUBSET Nat)
    BY <1>1, Roots
  <2>. HIDE DEF d
  <2>2. KdfRoot(sk, d) \in Root /\ KdfRoot(sk, d) # <<>> /\ Len(KdfRoot(sk, d)) = Len(sk) + 1
    BY <1>2, <2>1, Roots
  <2>. QED BY <1>2, <2>2 DEF d
<1>. HIDE DEF rk
<1>5. c \in Chain /\ c.root = rk /\ c.i = 0
  BY <1>4 DEF Chain
<1>. HIDE DEF c
<1>6. /\ t \in State /\ t.rk = rk /\ t.cks = c /\ t.ckr = NoChain /\ t.ns = 0 /\ t.nr = 0
      /\ t.skipped = {}
  <2>. DEFINE a == [NoState EXCEPT !.rk = rk]
              b == [a EXCEPT !.dhs = new]
              e == [b EXCEPT !.dhr = ack.eph]
  <2>1. t = [e EXCEPT !.cks = c]
    OBVIOUS
  <2>2. a \in State /\ a.rk = rk /\ a.ckr = NoChain /\ a.ns = 0 /\ a.nr = 0 /\ a.skipped = {}
    BY <1>4, NoStateType, NoStateFields DEF State
  <2>. HIDE DEF a, new
  <2>3. b \in State /\ b.rk = rk /\ b.ckr = NoChain /\ b.ns = 0 /\ b.nr = 0 /\ b.skipped = {}
    BY <1>1, <2>2 DEF State
  <2>. HIDE DEF b
  <2>4. e \in State /\ e.rk = rk /\ e.ckr = NoChain /\ e.ns = 0 /\ e.nr = 0 /\ e.skipped = {}
    BY <1>1, <2>3 DEF State
  <2>. HIDE DEF e, t
  <2>. QED BY <1>5, <2>1, <2>4 DEF State
<1>7. CanSend(t) /\ ~CanReceive(t)
  BY <1>4, <1>5, <1>6, NoStateType DEF CanSend, CanReceive
<1>8. Len(rk) \in SendTurn(Initiator)
  BY <1>4 DEF SendTurn, Even
<1>9. InStep(t) /\ Shape(t, Initiator)
  BY <1>4, <1>5, <1>6, <1>7, <1>8, NoStateType DEF InStep, Shape
<1>. HIDE DEF t
<1>10. /\ st' \in [Nodes -> State]
       /\ \A y \in Nodes : InStep(st'[y]) /\ Shape(st'[y], y)
  BY <1>1, <1>3, <1>6, <1>9, TypedMessages DEF StatesFit
<1>11. TypeOK'
  BY <1>1, <1>3, <1>10 DEF IInv, TypeOK, InStep
<1>12. HandshakeFirst'
  BY <1>1, <1>3 DEF HandshakeFirst
<1>. QED BY <1>1, <1>3, <1>10, <1>11, <1>12 DEF IInv, SentShape

-----------------------------------------------------------------------------
(* The invariant and what follows                                          *)

LEMMA InitInv == Init => IInv
<1>. SUFFICES ASSUME Init PROVE IInv
  OBVIOUS
<1>1. \A x \in Nodes : st[x] = NoState
  BY DEF Init
<1>2. NoState \in State /\ ~CanSend(NoState) /\ ~CanReceive(NoState) /\ InStep(NoState)
  BY NoStateType DEF CanSend, CanReceive, InStep, NoState, NoChain
<1>3. \A x \in Nodes : Shape(NoState, x)
  BY <1>2 DEF Shape, NoState
<1>4. TypeOK
  BY <1>1, <1>2 DEF Init, TypeOK, InStep
<1>5. HandshakeFirst
  BY <1>1, <1>2 DEF Init, HandshakeFirst
<1>. QED BY <1>1, <1>3, <1>4, <1>5 DEF Init, IInv, SentShape

LEMMA InvariantKept == IInv /\ [Next]_vars => IInv'
<1>. SUFFICES ASSUME IInv, [Next]_vars PROVE IInv'
  OBVIOUS
<1>1. CASE NewHandshake
  BY <1>1, NewHandshakeKeeps
<1>2. CASE \E h \in net : AcceptHandshake(h)
  BY <1>2, AcceptHandshakeKeeps
<1>3. CASE \E h \in net : Finish(h)
  BY <1>3, FinishKeeps
<1>4. CASE \E x \in Nodes : Encrypt(x)
  BY <1>4, EncryptKeeps
<1>5. CASE \E m \in net : Decrypt(m)
  BY <1>5, DecryptKeeps
<1>6. CASE \E m \in net : DecryptFails(m)
  BY <1>6, DecryptFailsKeeps
<1>7. CASE UNCHANGED vars
  BY <1>7 DEF vars, IInv, TypeOK, HandshakeFirst, SentShape
<1>. QED BY <1>1, <1>2, <1>3, <1>4, <1>5, <1>6, <1>7 DEF Next

LEMMA Invariant == Spec => []IInv
BY InitInv, InvariantKept, PTL DEF Spec

\* Every state of the sessions and every message is well formed, and a state's numbers
\* are those of its chains (Encrypt, Decrypt, dhRatchet).
THEOREM RatchetTypeCorrect == Spec => []TypeOK
<1>1. IInv => TypeOK
  BY DEF IInv
<1>. QED BY <1>1, Invariant, PTL

LEMMA IInvForgets == IInv => UsedIsForgotten
<1>. SUFFICES ASSUME IInv PROVE UsedIsForgotten
  OBVIOUS
<1>1. ASSUME NEW m \in sent PROVE ~Gives(st[m.from], m.mk)
  <2>. DEFINE x == m.from
              s == st[x]
  <2>1. /\ x \in Nodes /\ m \in Message /\ m.mk.root # <<>> /\ Len(m.mk.root) \in SendTurn(x)
        /\ Passed(s, m) /\ Shape(s, x) /\ s \in State
    BY TypedMessages DEF IInv, SentShape, StatesFit
  <2>. HIDE DEF s, x
  <2>2. Len(m.mk.root) \notin ReadTurn(x)
    BY <2>1, Turns
  <2>3. \A e \in s.skipped : e.mk # m.mk
    BY <2>1, <2>2 DEF Shape
  <2>4. s.ckr.root # m.mk.root
    BY <2>1, <2>2, NoStateType DEF Shape, CanReceive
  <2>5. m.mk.i \in Nat /\ s.cks.i \in Nat
    BY <2>1 DEF Message, State, Chain
  <2>6. ~(s.cks.root = m.mk.root /\ s.cks.i <= m.mk.i)
    BY <2>1, <2>5 DEF Passed
  <2>. QED BY <2>3, <2>4, <2>6 DEF Gives, s, x
<1>2. ASSUME NEW m \in read PROVE ~Gives(st[m.to], m.mk)
  <2>. DEFINE x == m.to
              s == st[x]
  <2>1. /\ x \in Nodes /\ m \in Message /\ m.mk.root # <<>> /\ Len(m.mk.root) \in ReadTurn(x)
        /\ Used(s, m) /\ Shape(s, x) /\ s \in State
    BY TypedMessages DEF IInv, SentShape, StatesFit
  <2>. HIDE DEF s, x
  <2>2. Len(m.mk.root) \notin SendTurn(x)
    BY <2>1, Turns
  <2>3. s.cks.root # m.mk.root
    BY <2>1, <2>2, NoStateType DEF Shape, CanSend
  <2>4. m.mk.i \in Nat /\ s.ckr.i \in Nat
    BY <2>1 DEF Message, State, Chain
  <2>5. ~(s.ckr.root = m.mk.root /\ s.ckr.i <= m.mk.i)
    BY <2>1, <2>4 DEF Used
  <2>. QED BY <2>1, <2>3, <2>5 DEF Gives, Used, s, x
<1>. QED BY <1>1, <1>2 DEF UsedIsForgotten

\* Whatever the two nodes write and in whatever order it arrives, a key that sealed a
\* message cannot be found again in the state of its sender, nor one that opened a message
\* in that of its reader (Encrypt, takeSkipped, Decrypt).
THEOREM UsedForgotten == Spec => []UsedIsForgotten
BY IInvForgets, Invariant, PTL

LEMMA KeyOnceKept == IInv /\ KeyOnce /\ [Next]_vars => KeyOnce'
<1>. SUFFICES ASSUME IInv, KeyOnce, [Next]_vars PROVE KeyOnce'
  OBVIOUS
<1>1. CASE sent' = sent
  BY <1>1 DEF KeyOnce
<1>2. CASE \E x \in Nodes : Encrypt(x)
  <2>1. PICK x \in Nodes : Encrypt(x)
    BY <1>2
  <2>. DEFINE s == st[x]
              m == [kind |-> "msg", from |-> x, to |-> Other(x),
                    dh |-> s.dhs, pn |-> s.pn, n |-> s.ns, mk |-> s.cks]
  <2>2. sent' = sent \cup {m} /\ m.mk = s.cks
    BY <2>1 DEF Encrypt
  <2>3. s \in State /\ Shape(s, x) /\ CanSend(s)
    BY <2>1, TypedMessages DEF StatesFit, Encrypt
  <2>. HIDE DEF m, s
  <2>4. Len(s.cks.root) \in SendTurn(x) /\ s.cks.i \in Nat
    BY <2>3 DEF Shape, State, Chain
  <2>5. ASSUME NEW k \in sent PROVE k.mk # s.cks
    <3>1. k \in Message /\ k.from \in Nodes /\ Len(k.mk.root) \in SendTurn(k.from)
          /\ Passed(st[k.from], k)
      BY TypedMessages DEF IInv, SentShape
    <3>2. CASE k.from = x
      BY <2>4, <3>1, <3>2 DEF Passed, s
    <3>3. CASE k.from # x
      <4>1. k.from = Other(x)
        BY <3>1, <3>3 DEF Nodes, Other
      <4>. QED BY <2>4, <3>1, <4>1, Turns DEF ReadTurn
    <3>. QED BY <3>2, <3>3
  <2>. QED BY <2>2, <2>5 DEF KeyOnce
<1>. QED BY <1>1, <1>2 DEF Next, vars, NewHandshake, AcceptHandshake, Finish, Decrypt, DecryptFails

\* No message key ever seals two messages, of whichever direction (kdfChain, kdfRoot,
\* dhRatchet).
THEOREM KeysOnce == Spec => []KeyOnce
<1>1. Init => KeyOnce
  BY DEF Init, KeyOnce
<1>. QED BY <1>1, KeyOnceKept, Invariant, PTL DEF Spec

-----------------------------------------------------------------------------
(* How many keys are kept                                                  *)

\* The root steps of the keys put aside are told apart by how far along they are.
Apart(s) ==
  /\ \A e, f \in s.skipped : Len(e.mk.root) = Len(f.mk.root) => e.mk.root = f.mk.root
  /\ \A e \in s.skipped : Len(e.mk.root) = Len(s.ckr.root) => e.mk.root = s.ckr.root

Fit(s) == IsFiniteSet(s.skipped) /\ Apart(s) /\ Loads(s)

SkipInv == \A x \in Nodes : Fit(st[x])

LEMMA LaterOrder ==
  /\ \A e \in Skipped : ~Later(e, e)
  /\ \A e, f, g \in Skipped : Later(e, f) /\ Later(f, g) => Later(e, g)
<1>1. \A e \in Skipped : Len(e.mk.root) \in Nat /\ e.mk.i \in Nat
  BY Roots DEF Skipped, Chain
<1>. DEFINE L(e) == Len(e.mk.root)
            I(e) == e.mk.i
<1>2. \A e, f : Later(e, f) <=> L(e) > L(f) \/ (L(e) = L(f) /\ I(e) > I(f))
  BY DEF Later
<1>3. \A e \in Skipped : L(e) \in Nat /\ I(e) \in Nat
  BY <1>1
<1>. HIDE DEF L, I
<1>4. ASSUME NEW e \in Skipped PROVE ~Later(e, e)
  BY <1>2, <1>3
<1>5. ASSUME NEW e \in Skipped, NEW f \in Skipped, NEW g \in Skipped,
             Later(e, f), Later(f, g)
      PROVE  Later(e, g)
  <2>1. /\ L(e) \in Nat /\ L(f) \in Nat /\ L(g) \in Nat
        /\ I(e) \in Nat /\ I(f) \in Nat /\ I(g) \in Nat
    BY <1>3
  <2>2. /\ L(e) > L(f) \/ (L(e) = L(f) /\ I(e) > I(f))
        /\ L(f) > L(g) \/ (L(f) = L(g) /\ I(f) > I(g))
    BY <1>2, <1>5
  <2>3. L(e) > L(g) \/ (L(e) = L(g) /\ I(e) > I(g))
    BY <2>1, <2>2
  <2>. QED BY <1>2, <2>3
<1>. QED BY <1>4, <1>5

\* Of a finite set of keys in a row, one was put aside before all others.
LEMMA Oldest ==
  ASSUME NEW S \in SUBSET Skipped, IsFiniteSet(S), S # {},
         \A e, f \in S : e = f \/ Later(e, f) \/ Later(f, e)
  PROVE  \E f \in S : \A e \in S \ {f} : Later(e, f)
<1>. DEFINE Before(f) == {e \in S : Later(f, e)}
            All == {Before(f) : f \in S}
<1>1. IsWellFoundedOn(StrictSubsetOrdering(S), FiniteSubsetsOf(S))
  BY FS_StrictSubsetOrderingWellFounded
<1>2. All \subseteq FiniteSubsetsOf(S) /\ All # {}
  <2>1. ASSUME NEW f \in S PROVE Before(f) \in FiniteSubsetsOf(S)
    <3>1. Before(f) \in SUBSET S
      OBVIOUS
    <3>. HIDE DEF Before
    <3>2. IsFiniteSet(Before(f))
      BY <3>1, FS_Subset
    <3>. QED BY <3>1, <3>2 DEF FiniteSubsetsOf
  <2>. QED BY <2>1
<1>3. PICK B \in All : \A C \in All : <<C, B>> \notin StrictSubsetOrdering(S)
  <2>. HIDE DEF All
  <2>. QED BY <1>1, <1>2, WFMin, Zenon
<1>4. PICK f \in S : B = Before(f)
  OBVIOUS
<1>5. ASSUME NEW e \in S, e # f PROVE Later(e, f)
  <2>. SUFFICES ASSUME ~Later(e, f) PROVE FALSE
    OBVIOUS
  <2>1. Later(f, e)
    BY <1>5
  <2>2. Before(e) \subseteq Before(f)
    BY <2>1, LaterOrder
  <2>3. e \in Before(f) /\ e \notin Before(e)
    BY <2>1, LaterOrder
  <2>4. Before(e) \in All /\ Before(e) \in SUBSET S /\ B \in SUBSET S
    BY <1>4
  <2>. HIDE DEF Before, All
  <2>5. <<Before(e), B>> \in StrictSubsetOrdering(S)
    BY <1>4, <2>2, <2>3, <2>4 DEF StrictSubsetOrdering
  <2>. QED BY <1>3, <2>4, <2>5
<1>. QED BY <1>5

LEMMA NewestFits ==
  ASSUME NEW S \in SUBSET Skipped, IsFiniteSet(S),
         \A e, f \in S : e = f \/ Later(e, f) \/ Later(f, e)
  PROVE  IsFiniteSet(Newest(S)) /\ Cardinality(Newest(S)) <= MaxSkip
<1>. DEFINE N == Newest(S)
<1>1. N \subseteq S /\ \A f \in N : Cardinality({e \in S : Later(e, f)}) < MaxSkip
  BY DEF Newest
<1>. HIDE DEF N
<1>2. IsFiniteSet(N) /\ Cardinality(N) \in Nat
  BY <1>1, FS_Subset, FS_CardinalityType
<1>3. CASE N = {}
  BY <1>2, <1>3, FS_EmptySet, RatchetBoundsAssumption DEF N
<1>4. CASE N # {}
  <2>1. PICK f \in N : \A e \in N \ {f} : Later(e, f)
    BY <1>1, <1>2, <1>4, Oldest
  <2>. DEFINE A == {e \in S : Later(e, f)}
  <2>2. N \ {f} \subseteq A /\ A \subseteq S
    BY <1>1, <2>1
  <2>3. Cardinality(A) < MaxSkip
    BY <1>1
  <2>. HIDE DEF A
  <2>4. IsFiniteSet(A) /\ Cardinality(A) \in Nat
    BY <2>2, FS_Subset, FS_CardinalityType
  <2>5. Cardinality(N \ {f}) <= Cardinality(A)
    BY <2>2, <2>4, FS_Subset
  <2>6. Cardinality(N \ {f}) = Cardinality(N) - 1
    BY <1>2, FS_RemoveElement
  <2>. QED BY <1>2, <2>3, <2>4, <2>5, <2>6, RatchetBoundsAssumption DEF N
<1>. QED BY <1>3, <1>4

\* Keys that are told apart by their places stand in a row.
LEMMA InARow ==
  ASSUME NEW S \in SUBSET Skipped, \A e \in S : e.n = e.mk.i,
         \A e, f \in S : Len(e.mk.root) = Len(f.mk.root) => e.mk.root = f.mk.root,
         \A e, f \in S : e.mk.root = f.mk.root => e.dh = f.dh
  PROVE  \A e, f \in S : e = f \/ Later(e, f) \/ Later(f, e)
<1>. SUFFICES ASSUME NEW e \in S, NEW f \in S, e # f PROVE Later(e, f) \/ Later(f, e)
  OBVIOUS
<1>1. /\ e = [dh |-> e.dh, n |-> e.n, mk |-> [root |-> e.mk.root, i |-> e.mk.i]]
      /\ f = [dh |-> f.dh, n |-> f.n, mk |-> [root |-> f.mk.root, i |-> f.mk.i]]
  <2>. SUFFICES ASSUME NEW g \in S
                PROVE g = [dh |-> g.dh, n |-> g.n, mk |-> [root |-> g.mk.root, i |-> g.mk.i]]
    OBVIOUS
  <2>1. g \in Skipped /\ g.mk \in Chain
    BY DEF Skipped
  <2>2. g.mk = [root |-> g.mk.root, i |-> g.mk.i]
    BY <2>1 DEF Chain
  <2>3. g = [dh |-> g.dh, n |-> g.n, mk |-> g.mk]
    BY <2>1 DEF Skipped
  <2>. QED BY <2>2, <2>3
<1>2. CASE Len(e.mk.root) = Len(f.mk.root)
  <2>1. e.mk.root = f.mk.root /\ e.dh = f.dh
    BY <1>2
  <2>2. e.mk.i # f.mk.i
    BY <1>1, <2>1
  <2>3. e.mk.i \in Nat /\ f.mk.i \in Nat
    BY DEF Skipped, Chain
  <2>4. e.mk.i > f.mk.i \/ f.mk.i > e.mk.i
    BY <2>2, <2>3
  <2>. QED BY <1>2, <2>4 DEF Later
<1>3. CASE Len(e.mk.root) # Len(f.mk.root)
  <2>. DEFINE j == Len(e.mk.root)
              k == Len(f.mk.root)
  <2>1. j \in Nat /\ k \in Nat /\ j # k
    BY <1>3, Roots DEF Skipped, Chain
  <2>. HIDE DEF j, k
  <2>2. j > k \/ k > j
    BY <2>1
  <2>. QED BY <2>2 DEF j, k, Later
<1>. QED BY <1>2, <1>3

LEMMA SkipToFits ==
  ASSUME NEW x \in Nodes, NEW s \in State, NEW until \in Nat, InStep(s), Shape(s, x), Fit(s)
  PROVE  Fit(SkipTo(s, until))
<1>. DEFINE t == SkipTo(s, until)
<1>0. /\ s.ckr \in Chain /\ s.ckr.root \in Root /\ s.ckr.i \in Nat
      /\ s.nr \in Nat /\ s.dhr \in Nat /\ s.skipped \in SUBSET Skipped
  BY DEF State, Chain
<1>1. CASE ~CanReceive(s) \/ until <= s.nr
  BY <1>1 DEF SkipTo
<1>2. CASE CanReceive(s) /\ ~(until <= s.nr)
  <2>. DEFINE key(j) == [dh |-> s.dhr, n |-> s.nr + j, mk |-> Link(s.ckr, j)]
              fresh == {key(j) : j \in 0 .. until - s.nr - 1}
              S == s.skipped \cup fresh
              end == Link(s.ckr, until - s.nr)
  <2>1. ASSUME NEW e \in fresh
        PROVE  e \in Skipped /\ e.n = e.mk.i /\ e.dh = s.dhr /\ e.mk.root = s.ckr.root
    <3>1. PICK j \in 0 .. until - s.nr - 1 : e = key(j)
      OBVIOUS
    <3>2. j \in Nat
      BY <1>0, <1>2
    <3>. QED BY <1>0, <3>1, <3>2 DEF Link, Skipped, Chain, InStep
  <2>2. IsFiniteSet(fresh)
    <3>. DEFINE I == 0 .. until - s.nr - 1
                f == [j \in I |-> key(j)]
    <3>1. IsFiniteSet(I)
      <4>. DEFINE k == until - s.nr - 1
      <4>1. k \in Int
        BY <1>0
      <4>. HIDE DEF k
      <4>2. IsFiniteSet(0 .. k)
        BY <4>1, FS_Interval
      <4>. QED BY <4>2 DEF k
    <3>. HIDE DEF I, key
    <3>2. f \in Surjection(I, fresh)
      BY DEF Surjection, I
    <3>. HIDE DEF f, fresh
    <3>. QED BY <3>1, <3>2, FS_Surjection
  <2>3. t.skipped = Newest(S) /\ t.ckr.root = s.ckr.root
    <3>. DEFINE aside == Newest(S)
    <3>. HIDE DEF aside
    <3>1. t = [[[s EXCEPT !.skipped = aside] EXCEPT !.ckr = end] EXCEPT !.nr = until]
      BY <1>2 DEF SkipTo, aside
    <3>2. end.root = s.ckr.root
      BY DEF Link
    <3>. HIDE DEF t, end
    <3>3. t.skipped = aside /\ t.ckr = end
      BY <3>1 DEF State
    <3>. QED BY <3>2, <3>3 DEF aside
  <2>. HIDE DEF fresh, t
  <2>4. S \in SUBSET Skipped /\ \A e \in S : e.n = e.mk.i
    BY <1>0, <2>1 DEF Shape
  <2>5. \A e, f \in S : Len(e.mk.root) = Len(f.mk.root) => e.mk.root = f.mk.root
    BY <2>1 DEF Fit, Apart
  <2>6. \A e, f \in S : e.mk.root = f.mk.root => e.dh = f.dh
    <3>1. \A e \in s.skipped : e.mk.root = s.ckr.root => e.dh = s.dhr
      BY DEF Shape
    <3>. QED BY <2>1, <3>1 DEF Shape
  <2>7. IsFiniteSet(S)
    BY <2>2, FS_Union DEF Fit
  <2>8. \A e \in S : Len(e.mk.root) = Len(s.ckr.root) => e.mk.root = s.ckr.root
    BY <2>1 DEF Fit, Apart
  <2>. HIDE DEF S
  <2>9. IsFiniteSet(Newest(S)) /\ Cardinality(Newest(S)) <= MaxSkip
    BY <2>4, <2>5, <2>6, <2>7, InARow, NewestFits
  <2>10. Newest(S) \subseteq S
    BY DEF Newest
  <2>11. Apart(t)
    BY <2>3, <2>5, <2>8, <2>10 DEF Apart
  <2>. QED BY <2>3, <2>9, <2>11 DEF Fit, Loads, t
<1>. QED BY <1>1, <1>2

LEMMA RatchetFits ==
  ASSUME NEW x \in Nodes, NEW s \in State, NEW dh \in Nat, NEW new \in Nat, Shape(s, x), Fit(s)
  PROVE  Fit(DhRatchet(s, dh, new))
<1>. DEFINE t == DhRatchet(s, dh, new)
<1>1. t.skipped = s.skipped
  BY DEF DhRatchet
<1>2. Len(t.ckr.root) = Len(s.rk) + 1
  BY RootsOnly
<1>3. Len(s.rk) \in Nat /\ Len(s.ckr.root) \in Nat
  BY Roots DEF State, Chain
<1>. HIDE DEF t
<1>4. ASSUME NEW e \in s.skipped PROVE Len(e.mk.root) # Len(t.ckr.root)
  <2>1. Len(e.mk.root) <= Len(s.ckr.root) /\ Len(s.ckr.root) + 1 = Len(s.rk)
    BY DEF Shape
  <2>2. Len(e.mk.root) \in Nat
    BY Roots DEF State, Skipped, Chain
  <2>. QED BY <1>2, <1>3, <2>1, <2>2
<1>5. Apart(t)
  BY <1>1, <1>4 DEF Apart, Fit
<1>. QED BY <1>1, <1>5 DEF Fit, Loads, t

LEMMA AdvanceFits ==
  ASSUME NEW x \in Nodes, NEW s \in State, NEW m \in Message, NEW new \in Nat,
         InStep(s), Shape(s, x), OpensAhead(s, m, new),
         m.mk.root # <<>>, Len(m.mk.root) \in ReadTurn(x), Fit(s)
  PROVE  Fit(Advance(s, m, new))
<1>. DEFINE v == SkipTo(s, m.pn)
            u == Turned(s, m, new)
            a == Arrived(s, m, new)
            t == Advance(s, m, new)
<1>0. m.n \in Nat /\ m.pn \in Nat /\ m.dh \in Nat
  BY DEF Message
<1>1. a = SkipTo(u, m.n) /\ u \in {s, DhRatchet(v, m.dh, new)}
  BY DEF Arrived, Turned
<1>2. u \in State /\ InStep(u) /\ Shape(u, x)
  BY TurnedKeeps
<1>3. v \in State /\ Shape(v, x) /\ Fit(v)
  BY <1>0, SkipToKeeps, SkipToFits
<1>4. t = [a EXCEPT !.ckr = Link(a.ckr, 1), !.nr = a.nr + 1]
  BY DEF Advance
<1>. HIDE DEF v, u, a, t
<1>5. Fit(u)
  BY <1>0, <1>1, <1>3, RatchetFits
<1>6. Fit(a)
  BY <1>0, <1>1, <1>2, <1>5, SkipToFits
<1>7. a \in State
  BY <1>0, <1>1, <1>2, SkipToKeeps, ZenonT(30)
<1>8. t.skipped = a.skipped /\ t.ckr.root = a.ckr.root
  <2>. DEFINE c == Link(a.ckr, 1)
              j == a.nr + 1
  <2>1. c.root = a.ckr.root
    BY DEF Link
  <2>. HIDE DEF c, j
  <2>2. t = [a EXCEPT !.ckr = c, !.nr = j]
    BY <1>4 DEF c, j
  <2>3. t.skipped = a.skipped /\ t.ckr = c
    BY <1>7, <2>2 DEF State
  <2>. QED BY <2>1, <2>3
<1>. QED BY <1>6, <1>8 DEF Fit, Apart, Loads, t

LEMMA TakeSkippedFits ==
  ASSUME NEW s \in State, NEW m \in Message, Fit(s)
  PROVE  Fit(TakeSkipped(s, m))
<1>. DEFINE t == TakeSkipped(s, m)
            rest == s.skipped \ PutAside(s, m)
<1>1. t = [s EXCEPT !.skipped = rest] /\ rest \subseteq s.skipped
  BY DEF TakeSkipped
<1>. HIDE DEF t, rest
<1>2. t.skipped = rest /\ t.ckr = s.ckr
  BY <1>1 DEF State
<1>3. /\ IsFiniteSet(s.skipped) /\ Cardinality(s.skipped) \in Nat
      /\ Cardinality(s.skipped) <= MaxSkip
  BY FS_CardinalityType DEF Fit, Loads
<1>4. /\ IsFiniteSet(rest) /\ Cardinality(rest) \in Nat
      /\ Cardinality(rest) <= Cardinality(s.skipped)
  BY <1>1, <1>3, FS_Subset, FS_CardinalityType
<1>5. Apart(t)
  BY <1>1, <1>2 DEF Apart, Fit
<1>. QED BY <1>2, <1>3, <1>4, <1>5, RatchetBoundsAssumption DEF Fit, Loads, t

LEMMA NothingFits == ASSUME NEW s, s.skipped = {} PROVE Fit(s)
BY FS_EmptySet, RatchetBoundsAssumption DEF Fit, Apart, Loads

LEMMA SkipInvKept == IInv /\ SkipInv /\ [Next]_vars => SkipInv'
<1>. SUFFICES ASSUME IInv, SkipInv, [Next]_vars PROVE SkipInv'
  OBVIOUS
<1>0. st \in [Nodes -> State] /\ \A x \in Nodes : InStep(st[x]) /\ Shape(st[x], x)
  BY TypedMessages DEF StatesFit
<1>a. ASSUME NEW x \in Nodes, NEW t, st' = [st EXCEPT ![x] = t], Fit(t)
      PROVE  SkipInv'
  <2>1. \A y \in Nodes : st'[y] = IF y = x THEN t ELSE st[y]
    BY <1>0, <1>a
  <2>2. \A y \in Nodes : Fit(st'[y])
    BY <1>a, <2>1 DEF SkipInv
  <2>. QED BY <2>2 DEF SkipInv
<1>1. CASE st' = st
  BY <1>1 DEF SkipInv
<1>2. ASSUME NEW h \in net, AcceptHandshake(h) PROVE SkipInv'
  <2>. DEFINE new == made + 1
              sk == DeriveSK(DH(new, IK(Initiator)), DH(IK(Responder), h.eph), DH(new, h.eph))
              t == [NoState EXCEPT !.rk = sk, !.dhs = made + 1]
  <2>1. st' = [st EXCEPT ![Responder] = t]
    BY <1>2 DEF AcceptHandshake
  <2>. HIDE DEF sk
  <2>2. t.skipped = {}
    BY DEF NoState
  <2>. QED BY <1>a, <2>1, <2>2, NothingFits DEF Nodes
<1>3. ASSUME NEW h \in net, Finish(h) PROVE SkipInv'
  <2>. DEFINE sk == DeriveSK(DH(IK(Initiator), h.eph), DH(eph, IK(Responder)), DH(eph, h.eph))
              rk == KdfRoot(sk, <<DH(made + 1, h.eph)>>)
              t == [NoState EXCEPT !.rk = rk, !.dhs = made + 1, !.dhr = h.eph,
                                   !.cks = [root |-> rk, i |-> 0]]
  <2>1. st' = [st EXCEPT ![Initiator] = t]
    BY <1>3 DEF Finish
  <2>. HIDE DEF rk
  <2>2. t.skipped = {}
    BY DEF NoState
  <2>. QED BY <1>a, <2>1, <2>2, NothingFits DEF Nodes
<1>4. ASSUME NEW x \in Nodes, Encrypt(x) PROVE SkipInv'
  <2>. DEFINE s == st[x]
              c == Link(s.cks, 1)
              j == s.ns + 1
              t == [s EXCEPT !.cks = c, !.ns = j]
  <2>1. st' = [st EXCEPT ![x] = t]
    BY <1>4 DEF Encrypt
  <2>2. s \in State /\ Fit(s)
    BY <1>0 DEF SkipInv
  <2>. HIDE DEF s, c, j
  <2>3. t.skipped = s.skipped /\ t.ckr = s.ckr
    BY <2>2 DEF State
  <2>. HIDE DEF t
  <2>4. Fit(t)
    BY <2>2, <2>3 DEF Fit, Apart, Loads
  <2>. QED BY <1>a, <2>1, <2>4
<1>5. ASSUME NEW m \in net, Decrypt(m) PROVE SkipInv'
  <2>. DEFINE x == m.to
              s == st[x]
              new == made + 1
  <2>1. /\ m \in Message /\ x \in Nodes /\ m.mk.root # <<>> /\ Len(m.mk.root) \in ReadTurn(x)
        /\ new \in Nat
    BY <1>5, TypedMessages DEF Decrypt, IInv, SentShape, TypeOK
  <2>2. s \in State /\ InStep(s) /\ Shape(s, x) /\ Fit(s)
    BY <1>0, <2>1 DEF SkipInv
  <2>3. CASE OpensAside(s, m) /\ st' = [st EXCEPT ![x] = TakeSkipped(s, m)]
    BY <1>a, <2>1, <2>2, <2>3, TakeSkippedFits
  <2>4. CASE OpensAhead(s, m, new) /\ st' = [st EXCEPT ![x] = Advance(s, m, new)]
    BY <1>a, <2>1, <2>2, <2>4, AdvanceFits
  <2>. QED BY <1>5, <2>3, <2>4 DEF Decrypt
<1>. QED BY <1>1, <1>2, <1>3, <1>4, <1>5 DEF Next, vars, NewHandshake, DecryptFails

\* Whatever was skipped, and in however many chains of the peer, a node never keeps more
\* than MaxSkip keys, so the state it has saved can be loaded again (skipTo, takeSkipped,
\* Unmarshal).
THEOREM SkippedKeysFit == Spec => []SkippedFits
<1>1. Init => SkipInv
  <2>1. Init => \A x \in Nodes : st[x].skipped = {}
    BY NoStateFields DEF Init
  <2>. QED BY <2>1, NothingFits DEF SkipInv
<1>2. SkipInv => SkippedFits
  BY DEF SkipInv, Fit, SkippedFits
<1>. QED BY <1>1, <1>2, SkipInvKept, Invariant, PTL DEF Spec

-----------------------------------------------------------------------------
(* Which keys a message makes its reader put aside                         *)

\* The keys lo .. hi - 1 of the chain opened by root, under the ratchet key dh.
Row(dh, root, lo, hi) ==
  {e \in Skipped : e.dh = dh /\ e.mk.root = root /\ e.n = e.mk.i /\ lo <= e.n /\ e.n < hi}

Passes(s, until) == IF CanReceive(s) THEN Row(s.dhr, s.ckr.root, s.nr, until) ELSE {}

\* What SkipTo puts aside on the way to m, in the old chain and in the new one.
Gap(s, m) ==
  IF m.dh = s.dhr THEN Passes(s, m.n)
  ELSE Passes(s, m.pn) \cup Row(m.dh, m.mk.root, 0, m.n)

\* There is room for the keys of S.
Room(S) == IsFiniteSet(S) /\ Cardinality(S) <= MaxSkip

LEMMA RoomShrinks ==
  ASSUME NEW S, NEW T, Room(S), T \subseteq S PROVE Room(T)
<1>1. IsFiniteSet(T) /\ Cardinality(T) <= Cardinality(S)
      /\ Cardinality(T) \in Nat /\ Cardinality(S) \in Nat
  BY FS_Subset, FS_CardinalityType DEF Room
<1>. QED BY <1>1, RatchetBoundsAssumption DEF Room

\* Nothing is dropped where there is room.
LEMMA NewestAll ==
  ASSUME NEW S \in SUBSET Skipped, Room(S) PROVE Newest(S) = S
<1>. SUFFICES ASSUME NEW f \in S PROVE Cardinality({e \in S : Later(e, f)}) < MaxSkip
  BY DEF Newest
<1>. DEFINE A == {e \in S : Later(e, f)}
<1>1. A \subseteq S \ {f}
  BY LaterOrder
<1>. HIDE DEF A
<1>2. IsFiniteSet(S) /\ Cardinality(S) \in Nat /\ Cardinality(S) <= MaxSkip
  BY FS_CardinalityType DEF Room
<1>3. IsFiniteSet(S \ {f}) /\ Cardinality(S \ {f}) = Cardinality(S) - 1
  BY <1>2, FS_RemoveElement
<1>4. Cardinality(A) \in Nat /\ Cardinality(A) <= Cardinality(S \ {f})
  BY <1>1, <1>3, FS_Subset, FS_CardinalityType
<1>. QED BY <1>2, <1>3, <1>4, RatchetBoundsAssumption DEF A

LEMMA SkippedFields ==
  /\ \A e \in Skipped : /\ e.dh \in Nat /\ e.n \in Nat /\ e.mk \in Chain
                        /\ e.mk.root \in Root /\ e.mk.i \in Nat
  /\ \A e, f \in Skipped : e.dh = f.dh /\ e.n = f.n /\ e.mk = f.mk => e = f
  /\ \A c, d \in Chain : c.root = d.root /\ c.i = d.i => c = d
  /\ \A dh, n \in Nat, c \in Chain :
       LET e == [dh |-> dh, n |-> n, mk |-> c] IN e \in Skipped /\ e.dh = dh /\ e.n = n /\ e.mk = c
BY DEF Skipped, Chain

LEMMA StateFields ==
  ASSUME NEW s \in State
  PROVE  /\ s.rk \in Root /\ s.dhs \in Nat /\ s.dhr \in Nat /\ s.cks \in Chain /\ s.ckr \in Chain
         /\ s.ns \in Nat /\ s.nr \in Nat /\ s.pn \in Nat /\ s.skipped \in SUBSET Skipped
         /\ s.cks.root \in Root /\ s.cks.i \in Nat /\ s.ckr.root \in Root /\ s.ckr.i \in Nat
         /\ Len(s.rk) \in Nat /\ Len(s.ckr.root) \in Nat
BY Roots DEF State, Chain

LEMMA MessageFields ==
  ASSUME NEW m \in Message
  PROVE  /\ m.dh \in Nat /\ m.pn \in Nat /\ m.n \in Nat /\ m.mk \in Chain
         /\ m.mk.root \in Root /\ m.mk.i \in Nat /\ Len(m.mk.root) \in Nat
BY Roots DEF Message, Chain

\* The keys a chain gives on its way are Passes, and it arrives.
LEMMA SkipToExact ==
  ASSUME NEW s \in State, NEW until \in Nat, InStep(s)
  PROVE  LET t == SkipTo(s, until) IN
         /\ t.pn = s.pn
         /\ t.nr = IF CanReceive(s) /\ s.nr < until THEN until ELSE s.nr
         /\ t.skipped \subseteq s.skipped \cup Passes(s, until)
         /\ Room(s.skipped \cup Passes(s, until)) => t.skipped = s.skipped \cup Passes(s, until)
<1>. DEFINE t == SkipTo(s, until)
<1>0. s.nr \in Nat /\ s.ckr \in Chain /\ s.ckr.root \in Root /\ s.dhr \in Nat
      /\ s.skipped \in SUBSET Skipped /\ s.ckr.i = s.nr
  BY StateFields DEF InStep
<1>1. CASE ~(CanReceive(s) /\ s.nr < until)
  <2>1. t = s
    BY <1>0, <1>1 DEF SkipTo
  <2>2. Passes(s, until) = {}
    <3>1. CASE ~CanReceive(s)
      BY <3>1 DEF Passes
    <3>2. CASE ~(s.nr < until)
      <4>1. Row(s.dhr, s.ckr.root, s.nr, until) = {}
        BY <1>0, <3>2, SkippedFields DEF Row
      <4>. QED BY <4>1 DEF Passes
    <3>. QED BY <1>1, <3>1, <3>2
  <2>. QED BY <1>1, <2>1, <2>2
<1>2. CASE CanReceive(s) /\ s.nr < until
  <2>. DEFINE key(j) == [dh |-> s.dhr, n |-> s.nr + j, mk |-> Link(s.ckr, j)]
              fresh == {key(j) : j \in 0 .. until - s.nr - 1}
              P == Passes(s, until)
              aside == Newest(s.skipped \cup fresh)
              end == Link(s.ckr, until - s.nr)
  <2>1. fresh \subseteq P
    <3>. SUFFICES ASSUME NEW j \in 0 .. until - s.nr - 1 PROVE key(j) \in P
      OBVIOUS
    <3>1. j \in Nat /\ s.nr + j < until /\ s.nr + j \in Nat /\ s.nr <= s.nr + j
      BY <1>0, <1>2
    <3>2. Link(s.ckr, j) \in Chain /\ Link(s.ckr, j).root = s.ckr.root
          /\ Link(s.ckr, j).i = s.nr + j
      BY <1>0, <3>1 DEF Link, Chain
    <3>3. key(j) \in Skipped /\ key(j).dh = s.dhr /\ key(j).n = s.nr + j
          /\ key(j).mk = Link(s.ckr, j)
      BY <1>0, <3>1, <3>2, SkippedFields
    <3>. HIDE DEF key
    <3>. QED BY <1>2, <3>1, <3>2, <3>3 DEF Passes, Row
  <2>2. P \subseteq fresh
    <3>. SUFFICES ASSUME NEW e \in P PROVE e \in fresh
      OBVIOUS
    <3>1. /\ e \in Skipped /\ e.dh = s.dhr /\ e.mk.root = s.ckr.root /\ e.n = e.mk.i
          /\ s.nr <= e.n /\ e.n < until
      BY <1>2 DEF Passes, Row
    <3>. DEFINE j == e.n - s.nr
    <3>2. e.n \in Nat /\ e.mk \in Chain
      BY <3>1, SkippedFields
    <3>3. j \in 0 .. until - s.nr - 1 /\ s.nr + j = e.n /\ j \in Nat
      BY <1>0, <3>1, <3>2
    <3>. HIDE DEF j
    <3>4. Link(s.ckr, j) \in Chain /\ Link(s.ckr, j).root = s.ckr.root
          /\ Link(s.ckr, j).i = s.nr + j
      BY <1>0, <3>3 DEF Link, Chain
    <3>5. Link(s.ckr, j) = e.mk
      BY <3>1, <3>2, <3>3, <3>4, SkippedFields
    <3>6. key(j) \in Skipped /\ key(j).dh = s.dhr /\ key(j).n = e.n /\ key(j).mk = e.mk
      BY <1>0, <3>2, <3>3, <3>4, <3>5, SkippedFields
    <3>. HIDE DEF key
    <3>7. key(j) = e
      BY <3>1, <3>6, SkippedFields
    <3>. QED BY <3>3, <3>7
  <2>3. fresh = P
    BY <2>1, <2>2
  <2>4. t = [[[s EXCEPT !.skipped = aside] EXCEPT !.ckr = end] EXCEPT !.nr = until]
    BY <1>0, <1>2 DEF SkipTo
  <2>. HIDE DEF fresh, P, end, key
  <2>5. t.pn = s.pn /\ t.nr = until /\ t.skipped = aside
    <3>. HIDE DEF aside, t
    <3>. QED BY <2>4 DEF State
  <2>6. aside \subseteq s.skipped \cup P
    BY <2>3 DEF Newest
  <2>7. s.skipped \cup P \in SUBSET Skipped
    BY <1>0 DEF P, Passes, Row
  <2>8. Room(s.skipped \cup P) => aside = s.skipped \cup P
    BY <2>3, <2>7, NewestAll
  <2>. HIDE DEF t, aside
  <2>. QED BY <1>2, <2>5, <2>6, <2>8 DEF P, t
<1>. QED BY <1>1, <1>2

\* A chain whose keys have room does not go too far at once.
LEMMA RowFits ==
  ASSUME NEW s \in State, NEW until \in Nat, InStep(s), Room(Passes(s, until))
  PROVE  Fits(s, until)
<1>. SUFFICES ASSUME CanReceive(s) PROVE until <= s.nr + MaxSkip
  BY DEF Fits
<1>0. s.nr \in Nat /\ s.ckr \in Chain /\ s.ckr.root \in Root /\ s.dhr \in Nat
  BY StateFields
<1>1. CASE until <= s.nr
  BY <1>0, <1>1, RatchetBoundsAssumption
<1>2. CASE s.nr < until
  <2>. DEFINE P == Passes(s, until)
              k == until - 1
              J == s.nr .. k
              f == [e \in P |-> e.n]
  <2>1. k \in Int /\ k \in Nat
    BY <1>0, <1>2
  <2>2. Cardinality(J) = until - s.nr
    <3>. DEFINE a == s.nr
    <3>1. a \in Int /\ a <= k /\ k - a + 1 = until - s.nr
      BY <1>0, <1>2
    <3>. HIDE DEF k, a
    <3>2. Cardinality(a .. k) = until - s.nr
      BY <2>1, <3>1, FS_Interval
    <3>. QED BY <3>2 DEF a
  <2>3. ASSUME NEW e \in P PROVE e.n \in J
    <3>1. e \in Skipped /\ s.nr <= e.n /\ e.n < until
      BY DEF Passes, Row
    <3>2. e.n \in Nat
      BY <3>1, SkippedFields
    <3>. QED BY <1>0, <3>1, <3>2
  <2>4. ASSUME NEW j \in J PROVE \E e \in P : e.n = j
    <3>1. j \in Nat /\ s.nr <= j /\ j < until
      BY <1>0
    <3>. DEFINE c == [root |-> s.ckr.root, i |-> j]
                e == [dh |-> s.dhr, n |-> j, mk |-> c]
    <3>2. c \in Chain /\ c.root = s.ckr.root /\ c.i = j
      BY <1>0, <3>1 DEF Chain
    <3>. HIDE DEF c
    <3>3. e \in Skipped /\ e.dh = s.dhr /\ e.n = j /\ e.mk = c
      BY <1>0, <3>1, <3>2, SkippedFields
    <3>. HIDE DEF e
    <3>4. e \in P
      BY <3>1, <3>2, <3>3 DEF Passes, Row
    <3>. QED BY <3>3, <3>4
  <2>5. f \in Surjection(P, J)
    <3>. HIDE DEF P, J
    <3>. QED BY <2>3, <2>4 DEF Surjection
  <2>. HIDE DEF f, J
  <2>6. Cardinality(J) <= Cardinality(P) /\ Cardinality(P) <= MaxSkip
    BY <2>5, FS_Surjection DEF Room
  <2>7. Cardinality(P) \in Nat
    BY FS_CardinalityType DEF Room
  <2>. HIDE DEF P
  <2>. QED BY <1>0, <2>2, <2>6, <2>7, RatchetBoundsAssumption
<1>. QED BY <1>0, <1>1, <1>2

\* Keys of messages in flight other than m have room, when few enough are in flight.
LEMMA FewInFlight ==
  ASSUME NEW N, IsFiniteSet(N), Cardinality(N) <= MaxSkip + 1, NEW m \in N,
         NEW S \in SUBSET Skipped,
         \A e \in S : \E q \in N \ {m} : q.mk = e.mk,
         \A e, f \in S : e.mk = f.mk => e = f
  PROVE  Room(S)
<1>. DEFINE A == {q \in N \ {m} : \E e \in S : e.mk = q.mk}
            f == [q \in A |-> CHOOSE e \in S : e.mk = q.mk]
<1>1. IsFiniteSet(N \ {m}) /\ Cardinality(N \ {m}) = Cardinality(N) - 1 /\ Cardinality(N) \in Nat
  BY FS_RemoveElement, FS_CardinalityType
<1>2. A \subseteq N \ {m}
  OBVIOUS
<1>3. \A q \in A : f[q] \in S /\ f[q].mk = q.mk
  OBVIOUS
<1>4. ASSUME NEW e \in S PROVE \E q \in A : f[q] = e
  <2>1. PICK q \in N \ {m} : q.mk = e.mk
    OBVIOUS
  <2>2. q \in A
    BY <2>1
  <2>. HIDE DEF A, f
  <2>. QED BY <1>3, <2>1, <2>2
<1>5. f \in Surjection(A, S)
  <2>1. f \in [A -> S]
    BY <1>3
  <2>. HIDE DEF A, f
  <2>. QED BY <1>4, <2>1 DEF Surjection
<1>. HIDE DEF A, f
<1>6. IsFiniteSet(A) /\ Cardinality(A) <= Cardinality(N \ {m}) /\ Cardinality(A) \in Nat
  BY <1>1, <1>2, FS_Subset, FS_CardinalityType
<1>7. IsFiniteSet(S) /\ Cardinality(S) <= Cardinality(A) /\ Cardinality(S) \in Nat
  BY <1>5, <1>6, FS_Surjection, FS_CardinalityType
<1>. QED BY <1>1, <1>6, <1>7, RatchetBoundsAssumption DEF Room

-----------------------------------------------------------------------------
(* What Decrypt makes of a state, field by field                           *)

\* The root key that a turn on dh opens the receiving chain with.
NextRoot(s, dh) == KdfRoot(s.rk, <<DH(s.dhs, dh)>>)

LEMMA TurnExact ==
  ASSUME NEW s \in State, NEW dh \in Nat, NEW new \in Nat
  PROVE  LET t == DhRatchet(s, dh, new) IN
         /\ t.rk = KdfRoot(NextRoot(s, dh), <<DH(new, dh)>>)
         /\ t.dhs = new /\ t.dhr = dh /\ t.cks.root = t.rk /\ t.ckr.root = NextRoot(s, dh)
         /\ t.ns = 0 /\ t.nr = 0 /\ t.pn = s.ns /\ t.skipped = s.skipped
BY DEF DhRatchet, NextRoot

\* u is s after a turn on m's ratchet key, before it moves to m.
TurnFields(s, u, m, new) ==
  /\ u.rk = KdfRoot(NextRoot(s, m.dh), <<DH(new, m.dh)>>)
  /\ u.dhs = new /\ u.dhr = m.dh /\ u.cks.root = u.rk /\ u.ckr.root = NextRoot(s, m.dh)
  /\ u.ns = 0 /\ u.nr = 0 /\ u.pn = s.ns
  /\ u.skipped \subseteq s.skipped \cup Passes(s, m.pn)
  /\ Room(s.skipped \cup Passes(s, m.pn)) => u.skipped = s.skipped \cup Passes(s, m.pn)

LEMMA TurnedExact ==
  ASSUME NEW x \in Nodes, NEW s \in State, NEW m \in Message, NEW new \in Nat,
         InStep(s), Shape(s, x), m.dh # s.dhr, Len(s.rk) + 1 \in ReadTurn(x)
  PROVE  LET u == Turned(s, m, new) IN
         /\ u \in State /\ InStep(u) /\ Shape(u, x) /\ CanReceive(u)
         /\ TurnFields(s, u, m, new)
<1>. DEFINE v == SkipTo(s, m.pn)
            u == Turned(s, m, new)
<1>0. m.pn \in Nat /\ m.dh \in Nat
  BY MessageFields
<1>1. /\ v \in State /\ InStep(v) /\ Shape(v, x)
      /\ v.rk = s.rk /\ v.dhs = s.dhs /\ v.ns = s.ns
  BY <1>0, SkipToKeeps
<1>2. /\ v.skipped \subseteq s.skipped \cup Passes(s, m.pn)
      /\ Room(s.skipped \cup Passes(s, m.pn)) => v.skipped = s.skipped \cup Passes(s, m.pn)
  BY <1>0, SkipToExact
<1>3. u = DhRatchet(v, m.dh, new)
  BY DEF Turned
<1>. HIDE DEF v, u
<1>4. u \in State /\ InStep(u) /\ Shape(u, x) /\ CanReceive(u)
  BY <1>0, <1>1, <1>3, RatchetKeeps
<1>5. /\ u.rk = KdfRoot(NextRoot(v, m.dh), <<DH(new, m.dh)>>)
      /\ u.dhs = new /\ u.dhr = m.dh /\ u.cks.root = u.rk /\ u.ckr.root = NextRoot(v, m.dh)
      /\ u.ns = 0 /\ u.nr = 0 /\ u.pn = v.ns /\ u.skipped = v.skipped
  BY <1>0, <1>1, <1>3, TurnExact
<1>6. NextRoot(v, m.dh) = NextRoot(s, m.dh)
  BY <1>1 DEF NextRoot
<1>. QED BY <1>1, <1>2, <1>4, <1>5, <1>6 DEF u, TurnFields

\* m is of the receiving chain of s, and t stands behind it.
Stayed(s, t, m) ==
  /\ m.dh = s.dhr /\ CanReceive(s) /\ m.mk.root = s.ckr.root /\ s.nr <= m.n
  /\ CanReceive(t) /\ t.ckr.root = s.ckr.root /\ t.nr = m.n + 1
  /\ t.rk = s.rk /\ t.dhs = s.dhs /\ t.dhr = s.dhr /\ t.cks = s.cks /\ t.ns = s.ns /\ t.pn = s.pn

\* m is of the peer's next chain, and t stands behind it, with a new chain of its own.
TurnedBy(s, t, m, new) ==
  /\ m.dh # s.dhr /\ m.mk.root = NextRoot(s, m.dh)
  /\ CanReceive(t) /\ t.ckr.root = m.mk.root /\ t.nr = m.n + 1
  /\ CanSend(t) /\ t.cks.root = t.rk /\ t.rk = KdfRoot(m.mk.root, <<DH(new, m.dh)>>)
  /\ t.dhs = new /\ t.dhr = m.dh /\ t.ns = 0 /\ t.pn = s.ns

LEMMA LinkExact ==
  ASSUME NEW a \in State, InStep(a), CanReceive(a), a.ckr.root # <<>>
  PROVE  LET t == [a EXCEPT !.ckr = Link(a.ckr, 1), !.nr = a.nr + 1] IN
         /\ t.ckr.root = a.ckr.root /\ t.nr = a.nr + 1 /\ CanReceive(t)
         /\ t.rk = a.rk /\ t.dhs = a.dhs /\ t.dhr = a.dhr /\ t.cks = a.cks /\ t.ns = a.ns
         /\ t.pn = a.pn /\ t.skipped = a.skipped
<1>. DEFINE c == Link(a.ckr, 1)
            j == a.nr + 1
            t == [[a EXCEPT !.ckr = c] EXCEPT !.nr = j]
<1>1. c.root = a.ckr.root
  BY DEF Link
<1>. HIDE DEF c, j
<1>2. /\ t.ckr = c /\ t.nr = j /\ t.rk = a.rk /\ t.dhs = a.dhs /\ t.dhr = a.dhr
      /\ t.cks = a.cks /\ t.ns = a.ns /\ t.pn = a.pn /\ t.skipped = a.skipped
  BY DEF State
<1>. HIDE DEF t
<1>3. CanReceive(t)
  BY <1>1, <1>2, NoStateType DEF CanReceive
<1>4. t = [a EXCEPT !.ckr = Link(a.ckr, 1), !.nr = a.nr + 1]
  BY DEF t, c, j
<1>. QED BY <1>1, <1>2, <1>3, <1>4 DEF j

LEMMA AheadSteps ==
  ASSUME NEW x \in Nodes, NEW s \in State, NEW m \in Message, NEW new \in Nat,
         InStep(s), Shape(s, x), OpensAhead(s, m, new),
         m.mk.root # <<>>, Len(m.mk.root) \in ReadTurn(x), m.n = m.mk.i
  PROVE  LET t == Advance(s, m, new) IN
         /\ Stayed(s, t, m) \/ TurnedBy(s, t, m, new)
         /\ t.skipped \subseteq s.skipped \cup Gap(s, m)
         /\ Room(s.skipped \cup Gap(s, m)) => t.skipped = s.skipped \cup Gap(s, m)
<1>. DEFINE u == Turned(s, m, new)
            a == Arrived(s, m, new)
            t == Advance(s, m, new)
<1>0. m.n \in Nat /\ m.pn \in Nat /\ m.dh \in Nat /\ m.mk \in Chain /\ a.ckr = m.mk
  BY MessageFields DEF OpensAhead, KeyOpens
<1>1. a = SkipTo(u, m.n) /\ t = [a EXCEPT !.ckr = Link(a.ckr, 1), !.nr = a.nr + 1]
  BY DEF Arrived, Advance
<1>2. u \in State /\ InStep(u) /\ Shape(u, x)
  BY TurnedKeeps
<1>3. m.dh = s.dhr => u = s
  BY DEF Turned
<1>. HIDE DEF u, a, t
<1>4. /\ a \in State /\ InStep(a) /\ a.ckr.root = u.ckr.root
      /\ a.rk = u.rk /\ a.dhs = u.dhs /\ a.dhr = u.dhr /\ a.cks = u.cks /\ a.ns = u.ns
  BY <1>0, <1>1, <1>2, SkipToKeeps
<1>5. /\ a.pn = u.pn /\ a.skipped \subseteq u.skipped \cup Passes(u, m.n)
      /\ Room(u.skipped \cup Passes(u, m.n)) => a.skipped = u.skipped \cup Passes(u, m.n)
  BY <1>0, <1>1, <1>2, SkipToExact
<1>6. CanReceive(a) /\ CanReceive(u) /\ a.ckr.root = m.mk.root /\ a.nr = m.n
  <2>1. CanReceive(a) /\ a.ckr.root = m.mk.root /\ a.nr = m.n
    BY <1>0, <1>4, NoStateType DEF CanReceive, InStep
  <2>. QED BY <1>4, <2>1, NoStateType DEF CanReceive
<1>7. /\ t.ckr.root = a.ckr.root /\ t.nr = a.nr + 1 /\ CanReceive(t)
      /\ t.rk = a.rk /\ t.dhs = a.dhs /\ t.dhr = a.dhr /\ t.cks = a.cks /\ t.ns = a.ns
      /\ t.pn = a.pn /\ t.skipped = a.skipped
  BY <1>1, <1>4, <1>6, LinkExact
<1>8. CASE m.dh = s.dhr
  <2>0. s.nr <= m.n
    <3>1. a.nr = IF CanReceive(u) /\ u.nr < m.n THEN m.n ELSE u.nr
      BY <1>0, <1>1, <1>2, SkipToExact
    <3>2. s.nr \in Nat
      BY StateFields
    <3>. QED BY <1>0, <1>3, <1>6, <1>8, <3>1, <3>2
  <2>1. Stayed(s, t, m)
    BY <1>3, <1>4, <1>5, <1>6, <1>7, <1>8, <2>0 DEF Stayed
  <2>2. Gap(s, m) = Passes(u, m.n) /\ u = s
    BY <1>3, <1>8 DEF Gap
  <2>. QED BY <1>5, <1>7, <2>1, <2>2 DEF t
<1>9. CASE m.dh # s.dhr
  <2>1. Len(s.rk) + 1 \in ReadTurn(x)
    <3>. DEFINE v == SkipTo(s, m.pn)
    <3>1. v \in State /\ v.rk = s.rk
      BY <1>0, SkipToKeeps
    <3>2. u = DhRatchet(v, m.dh, new)
      BY <1>9 DEF Turned, u
    <3>. HIDE DEF v
    <3>3. Len(u.ckr.root) = Len(v.rk) + 1
      BY <1>0, <3>1, <3>2, RootsOnly
    <3>. QED BY <1>4, <1>6, <3>1, <3>3
  <2>2. TurnFields(s, u, m, new)
    BY <1>9, <2>1, TurnedExact DEF u
  <2>. USE DEF TurnFields
  <2>3. u.rk # <<>>
    <3>1. Len(u.rk) = Len(u.ckr.root) + 1
      BY <1>2, <1>6 DEF Shape
    <3>2. u.ckr.root \in Root /\ u.rk \in Root
      BY <1>2, StateFields
    <3>. QED BY <3>1, <3>2, Roots
  <2>4. CanSend(t)
    BY <1>4, <1>7, <2>2, <2>3, NoStateType DEF CanSend
  <2>5. TurnedBy(s, t, m, new)
    BY <1>4, <1>5, <1>6, <1>7, <1>9, <2>2, <2>4 DEF TurnedBy
  <2>6. Passes(u, m.n) = Row(m.dh, m.mk.root, 0, m.n)
    BY <1>4, <1>6, <2>2 DEF Passes
  <2>. DEFINE P == Passes(s, m.pn)
              R == Row(m.dh, m.mk.root, 0, m.n)
  <2>7. Gap(s, m) = P \cup R
    BY <1>9 DEF Gap
  <2>. HIDE DEF P, R
  <2>8. t.skipped \subseteq s.skipped \cup (P \cup R)
    BY <1>5, <1>7, <2>2, <2>6 DEF P, R
  <2>9. ASSUME Room(s.skipped \cup (P \cup R)) PROVE t.skipped = s.skipped \cup (P \cup R)
    <3>1. Room(s.skipped \cup P)
      BY <2>9, RoomShrinks
    <3>2. u.skipped = s.skipped \cup P
      BY <2>2, <3>1 DEF P
    <3>3. u.skipped \cup R = s.skipped \cup (P \cup R)
      BY <3>2
    <3>. QED BY <1>5, <1>7, <2>6, <2>9, <3>3 DEF R
  <2>. QED BY <2>5, <2>7, <2>8, <2>9 DEF t
<1>. QED BY <1>8, <1>9

LEMMA AheadOpens ==
  ASSUME NEW x \in Nodes, NEW s \in State, NEW m \in Message, NEW new \in Nat,
         InStep(s), Shape(s, x), m.n = m.mk.i, PutAside(s, m) = {},
         Room(s.skipped \cup Gap(s, m)),
         \/ m.dh = s.dhr /\ CanReceive(s) /\ m.mk.root = s.ckr.root /\ s.nr <= m.n
         \/ m.dh # s.dhr /\ m.mk.root = NextRoot(s, m.dh) /\ Len(m.mk.root) \in ReadTurn(x)
  PROVE  OpensAhead(s, m, new)
<1>. DEFINE u == Turned(s, m, new)
            a == Arrived(s, m, new)
<1>0. m.n \in Nat /\ m.pn \in Nat /\ m.dh \in Nat /\ m.mk \in Chain
  BY MessageFields
<1>1. a = SkipTo(u, m.n)
  BY DEF Arrived
<1>2. /\ u \in State /\ InStep(u) /\ Shape(u, x) /\ CanReceive(u)
      /\ u.ckr.root = m.mk.root /\ u.nr <= m.n
      /\ Passes(u, m.n) \subseteq Gap(s, m)
      /\ m.dh # s.dhr => Passes(s, m.pn) \subseteq Gap(s, m)
  <2>1. CASE m.dh = s.dhr
    <3>1. u = s
      BY <2>1 DEF Turned
    <3>. HIDE DEF u
    <3>. QED BY <2>1, <3>1 DEF Gap
  <2>2. CASE m.dh # s.dhr
    <3>1. Len(s.rk) + 1 \in ReadTurn(x)
      <4>1. s.rk \in Root /\ s.dhs \in Nat
        BY StateFields
      <4>2. <<DH(s.dhs, m.dh)>> \in Seq(SUBSET Nat)
        BY <1>0, <4>1, Roots
      <4>3. Len(NextRoot(s, m.dh)) = Len(s.rk) + 1
        BY <4>1, <4>2, Roots DEF NextRoot
      <4>. QED BY <2>2, <4>3
    <3>. HIDE DEF u
    <3>2. u \in State /\ InStep(u) /\ Shape(u, x) /\ CanReceive(u) /\ TurnFields(s, u, m, new)
      BY <2>2, <3>1, TurnedExact DEF u
    <3>. USE DEF TurnFields
    <3>3. Passes(u, m.n) = Row(m.dh, m.mk.root, 0, m.n)
      BY <2>2, <3>2 DEF Passes
    <3>. QED BY <1>0, <2>2, <3>2, <3>3 DEF Gap
  <2>. QED BY <2>1, <2>2
<1>. HIDE DEF u, a
<1>3. Room(Passes(u, m.n)) /\ (m.dh # s.dhr => Room(Passes(s, m.pn)))
  BY <1>2, RoomShrinks
<1>4. Fits(u, m.n) /\ (m.dh # s.dhr => Fits(s, m.pn))
  BY <1>0, <1>2, <1>3, RowFits
<1>5. a.ckr = m.mk
  <2>1. a \in State /\ InStep(a) /\ a.ckr.root = u.ckr.root
    BY <1>0, <1>1, <1>2, SkipToKeeps
  <2>2. a.nr = IF CanReceive(u) /\ u.nr < m.n THEN m.n ELSE u.nr
    BY <1>0, <1>1, <1>2, SkipToExact
  <2>3. u.nr \in Nat /\ a.ckr \in Chain
    BY <1>2, <2>1, StateFields
  <2>4. a.ckr.i = m.mk.i
    BY <1>0, <1>2, <2>1, <2>2, <2>3 DEF InStep
  <2>. QED BY <1>0, <1>2, <2>1, <2>3, <2>4, SkippedFields
<1>. QED BY <1>4, <1>5 DEF OpensAhead, KeyOpens, u, a

-----------------------------------------------------------------------------
(* What is in flight can be read                                           *)

InFlight(x) == {m \in net : m.kind = "msg" /\ m.to = x}

\* The handshake is over.
Joined == made # 2 /\ \A h \in net : h.kind = "msg"

\* What the two halves of a handshake share before it is over.
HandshakeShared ==
  \A h \in net :
    /\ h.kind = "init" => h.eph = eph
    /\ h.kind = "ack" =>
         /\ st[Responder].dhs = h.eph
         /\ st[Responder].rk = DeriveSK(DH(h.eph, IK(Initiator)), DH(IK(Responder), eph), DH(h.eph, eph))

\* a opened a sending chain after its peer had: its root key is one step further, and all
\* it has of the peer is of the peer's present chain; what it wrote before that fills the chain
\* the peer reads.
Ahead(a) ==
  LET s == st[a]
      o == st[Other(a)]
  IN
  /\ CanSend(s)
  /\ s.rk = KdfRoot(o.rk, <<DH(s.dhs, o.dhs)>>) /\ s.dhr = o.dhs
  /\ CanReceive(s) => s.ckr.root = o.rk /\ s.nr <= o.ns
  /\ CanSend(o) => CanReceive(s)
  /\ s.dhs # o.dhr /\ \A e \in o.skipped : e.dh # s.dhs
  /\ CanReceive(o) =>
       /\ \A m \in sent : m.from = a /\ m.mk.root = o.ckr.root => m.n < s.pn
       /\ \A j \in Nat : j < s.pn =>
            \E m \in sent : m.from = a /\ m.mk.root = o.ckr.root /\ m.mk.i = j

\* The messages of a node's sending chain are numbered without a gap, under one ratchet key.
ChainSent ==
  \A x \in Nodes : LET s == st[x] IN
    /\ \A m \in sent : m.from = x /\ Len(m.mk.root) = Len(s.rk) =>
         m.mk.root = s.rk /\ m.dh = s.dhs /\ m.pn = s.pn
    /\ \A j \in Nat : j < s.ns =>
         \E m \in sent : m.from = x /\ m.mk.root = s.rk /\ m.mk.i = j

\* No ratchet key is of the future.
MadeBefore ==
  \A x \in Nodes : LET s == st[x] IN
    s.dhs <= made /\ s.dhr <= made /\ \A e \in s.skipped : e.dh <= made

\* A ratchet key of the peer names one chain.
OneChainEach(s) ==
  /\ \A e \in s.skipped : e.dh = s.dhr => e.mk.root = s.ckr.root
  /\ \A e, f \in s.skipped : e.dh = f.dh => e.mk.root = f.mk.root

AsideWasSent ==
  \A x \in Nodes : \A e \in st[x].skipped : \E m \in sent : m.to = x /\ m.mk = e.mk

\* s has the key of m, comes to it on its receiving chain, or will when it turns.
HasKey(s, m) == \E e \in s.skipped : e.dh = m.dh /\ e.n = m.n /\ e.mk = m.mk
OnChain(s, m) == CanReceive(s) /\ m.mk.root = s.ckr.root /\ m.dh = s.dhr /\ s.nr <= m.n
NextChain(s, m) == Len(m.mk.root) = Len(s.rk) + 1
Reaches(s, m) == HasKey(s, m) \/ OnChain(s, m) \/ NextChain(s, m)

InReach == \A x \in Nodes \ crowded : \A m \in InFlight(x) : Reaches(st[x], m)

\* Every message is on its way, read or eaten, and only where it is crowded one is eaten.
Accounted ==
  /\ sent \subseteq net \cup read \cup eaten
  /\ IsFiniteSet(net)
  /\ \A x \in Nodes \ crowded : Cardinality(InFlight(x)) <= MaxSkip + 1

ReachInv ==
  /\ HandshakeShared
  /\ Joined => \E a \in Nodes : Ahead(a)
  /\ ChainSent /\ MadeBefore
  /\ \A x \in Nodes : OneChainEach(st[x])
  /\ AsideWasSent /\ Accounted /\ InReach
  /\ InWindowIsRead

-----------------------------------------------------------------------------
(* Messages and the chains they are of                                     *)

\* What every lemma below rests on.
Known == IInv /\ KeyOnce /\ ReachInv

LEMMA SentFacts ==
  ASSUME IInv, NEW m \in sent
  PROVE  /\ m \in Message /\ m.from \in Nodes /\ m.to \in Nodes
         /\ m.from = Other(m.to) /\ m.to = Other(m.from)
         /\ m.mk.root # <<>> /\ Len(m.mk.root) \in ReadTurn(m.to) /\ m.n = m.mk.i
         /\ Passed(st[m.from], m) /\ Joined /\ m.kind = "msg"
<1>1. /\ m \in Message /\ m.from \in Nodes /\ m.to \in Nodes /\ m.from = Other(m.to)
      /\ Len(m.mk.root) \in ReadTurn(m.to)
  BY TypedMessages
<1>2. m.mk.root # <<>> /\ m.n = m.mk.i /\ Passed(st[m.from], m)
  BY DEF IInv, SentShape
<1>3. Joined
  BY DEF IInv, HandshakeFirst, Joined
<1>. QED BY <1>1, <1>2, <1>3, Others DEF Message

LEMMA FlightFacts ==
  ASSUME IInv, NEW x \in Nodes, NEW m \in InFlight(x)
  PROVE  m \in net /\ m \in sent /\ m.to = x
BY TypedMessages DEF InFlight

LEMMA NodeFacts ==
  ASSUME IInv, NEW x \in Nodes
  PROVE  /\ st[x] \in State /\ InStep(st[x]) /\ Shape(st[x], x)
         /\ Other(x) \in Nodes /\ Other(x) # x /\ Other(Other(x)) = x
BY TypedMessages, Others DEF StatesFit

LEMMA OneAhead ==
  ASSUME Known, Joined, NEW x \in Nodes
  PROVE  /\ Ahead(x) \/ Ahead(Other(x))
         /\ Ahead(x) => Len(st[x].rk) = Len(st[Other(x)].rk) + 1
<1>1. ASSUME NEW y \in Nodes, Ahead(y) PROVE Len(st[y].rk) = Len(st[Other(y)].rk) + 1
  <2>. DEFINE s == st[y]
              o == st[Other(y)]
  <2>1. /\ s \in State /\ o \in State
    BY NodeFacts DEF Known
  <2>2. s.rk = KdfRoot(o.rk, <<DH(s.dhs, o.dhs)>>)
    BY <1>1 DEF Ahead
  <2>. HIDE DEF s, o
  <2>3. o.rk \in Root /\ <<DH(s.dhs, o.dhs)>> \in Seq(SUBSET Nat)
    BY <2>1, StateFields, Roots
  <2>4. Len(s.rk) = Len(o.rk) + 1
    BY <2>2, <2>3, Roots
  <2>. QED BY <2>4 DEF s, o
<1>2. PICK a \in Nodes : Ahead(a)
  BY DEF Known, ReachInv
<1>3. a = x \/ a = Other(x)
  BY DEF Nodes, Other
<1>. QED BY <1>1, <1>2, <1>3

\* A message one root step beyond its reader is of the chain its sender writes on now, and
\* the reader can turn on it.
LEMMA NextIsPresent ==
  ASSUME Known, NEW m \in sent, NextChain(st[m.to], m)
  PROVE  LET s == st[m.to]
             o == st[m.from] IN
         /\ Ahead(m.from)
         /\ m.mk.root = o.rk /\ m.dh = o.dhs /\ m.pn = o.pn /\ m.n < o.ns
         /\ m.dh # s.dhr /\ m.mk.root = NextRoot(s, m.dh)
         /\ \A e \in s.skipped : e.dh # m.dh
<1>. DEFINE x == m.to
            y == m.from
            s == st[x]
            o == st[y]
<1>1. /\ x \in Nodes /\ y \in Nodes /\ y = Other(x) /\ x = Other(y) /\ Joined
      /\ Passed(o, m) /\ m.n = m.mk.i /\ m \in Message
  BY SentFacts DEF Known
<1>2. s \in State /\ o \in State /\ Shape(o, y) /\ InStep(o)
  BY <1>1, NodeFacts DEF Known
<1>3. /\ Len(m.mk.root) \in Nat /\ Len(s.rk) \in Nat /\ Len(o.rk) \in Nat
      /\ Len(m.mk.root) = Len(s.rk) + 1 /\ Len(m.mk.root) <= Len(o.rk)
  BY <1>1, <1>2, StateFields, MessageFields DEF NextChain, Passed
<1>4. Ahead(y) /\ Len(o.rk) = Len(s.rk) + 1
  <2>. DEFINE ls == Len(s.rk)
              lo == Len(o.rk)
  <2>1. (Ahead(x) => ls = lo + 1) /\ (Ahead(y) => lo = ls + 1) /\ (Ahead(x) \/ Ahead(y))
    BY <1>1, OneAhead
  <2>2. ls \in Nat /\ lo \in Nat /\ ls + 1 <= lo
    BY <1>3
  <2>. HIDE DEF ls, lo, x, y
  <2>3. ~Ahead(x)
    BY <2>1, <2>2
  <2>. QED BY <2>1, <2>3 DEF ls, lo
<1>5. m.mk.root = o.rk /\ m.dh = o.dhs /\ m.pn = o.pn
  BY <1>1, <1>3, <1>4 DEF Known, ReachInv, ChainSent
<1>6. m.n < o.ns
  BY <1>1, <1>2, <1>5 DEF Passed, Shape, InStep
<1>7. /\ o.rk = KdfRoot(s.rk, <<DH(o.dhs, s.dhs)>>) /\ o.dhs # s.dhr
      /\ \A e \in s.skipped : e.dh # o.dhs
  BY <1>1, <1>4 DEF Ahead
<1>8. m.mk.root = NextRoot(s, m.dh)
  <2>1. DH(o.dhs, s.dhs) = DH(s.dhs, o.dhs)
    BY DEF DH
  <2>. QED BY <1>5, <1>7, <2>1 DEF NextRoot
<1>. QED BY <1>4, <1>5, <1>6, <1>7, <1>8

\* Before a message of the receiving chain, all earlier ones of that chain were written.
LEMMA ChainIsFull ==
  ASSUME Known, NEW m \in sent,
         CanReceive(st[m.to]), m.mk.root = st[m.to].ckr.root, NEW j \in Nat, j < m.n
  PROVE  \E q \in sent : q.to = m.to /\ q.mk.root = m.mk.root /\ q.mk.i = j
<1>. DEFINE x == m.to
            y == m.from
            s == st[x]
            o == st[y]
<1>1. /\ x \in Nodes /\ y \in Nodes /\ y = Other(x) /\ x = Other(y) /\ Joined
      /\ Passed(o, m) /\ m.n = m.mk.i /\ m \in Message
  BY SentFacts DEF Known
<1>2. s \in State /\ o \in State /\ Shape(o, y) /\ InStep(o)
  BY <1>1, NodeFacts DEF Known
<1>0. \A q \in sent : q.from = y => q.to = x
  BY <1>1, SentFacts DEF Known
<1>3. CASE Ahead(x)
  <2>1. m.mk.root = o.rk
    BY <1>1, <1>3 DEF Ahead
  <2>2. m.n < o.ns
    BY <1>1, <1>2, <2>1 DEF Passed, Shape, InStep
  <2>3. j < o.ns
    BY <1>1, <1>2, <2>2, MessageFields, StateFields
  <2>4. PICK q \in sent : q.from = y /\ q.mk.root = o.rk /\ q.mk.i = j
    BY <1>1, <2>3 DEF Known, ReachInv, ChainSent
  <2>. QED BY <1>0, <2>1, <2>4
<1>4. CASE Ahead(y)
  <2>1. m.n < o.pn
    BY <1>1, <1>4 DEF Ahead
  <2>2. j < o.pn
    BY <1>1, <1>2, <2>1, MessageFields, StateFields
  <2>3. PICK q \in sent : q.from = y /\ q.mk.root = s.ckr.root /\ q.mk.i = j
    BY <1>1, <1>4, <2>2 DEF Ahead
  <2>. QED BY <1>0, <2>3
<1>. QED BY <1>1, <1>3, <1>4, OneAhead

\* And so when the chain is closed at the length the sender names, all were written.
LEMMA ClosedIsFull ==
  ASSUME Known, NEW m \in sent, NextChain(st[m.to], m), CanReceive(st[m.to]),
         NEW j \in Nat, j < m.pn
  PROVE  \E q \in sent : q.to = m.to /\ q.mk.root = st[m.to].ckr.root /\ q.mk.i = j
<1>1. Ahead(m.from) /\ m.pn = st[m.from].pn
  BY NextIsPresent
<1>2. m.from \in Nodes /\ Other(m.from) = m.to
  BY SentFacts DEF Known
<1>3. PICK q \in sent : q.from = m.from /\ q.mk.root = st[m.to].ckr.root /\ q.mk.i = j
  BY <1>1, <1>2 DEF Ahead
<1>4. q.to = m.to
  BY <1>2, <1>3, SentFacts DEF Known
<1>. QED BY <1>3, <1>4

LEMMA NextIsFull ==
  ASSUME Known, NEW m \in sent, NextChain(st[m.to], m), NEW j \in Nat, j < m.n
  PROVE  \E q \in sent : q.to = m.to /\ q.mk.root = m.mk.root /\ q.mk.i = j
<1>. DEFINE y == m.from
            o == st[y]
<1>1. m.mk.root = o.rk /\ m.n < o.ns
  BY NextIsPresent
<1>2. y \in Nodes /\ Other(y) = m.to /\ m \in Message /\ o \in State
  BY SentFacts, NodeFacts DEF Known
<1>3. j < o.ns
  BY <1>1, <1>2, MessageFields, StateFields
<1>4. PICK q \in sent : q.from = y /\ q.mk.root = o.rk /\ q.mk.i = j
  BY <1>2, <1>3 DEF Known, ReachInv, ChainSent
<1>5. q.to = m.to
  BY <1>2, <1>4, SentFacts DEF Known
<1>. QED BY <1>1, <1>4, <1>5

\* Where it is not crowded, a message that was not read is in flight.
LEMMA UnreadInFlight ==
  ASSUME Known, NEW x \in Nodes \ crowded, NEW q \in sent, q.to = x, ~Used(st[x], q)
  PROVE  q \in InFlight(x)
<1>1. q \notin read
  BY DEF Known, IInv
<1>2. q \notin eaten
  BY DEF Known, ReachInv, InWindowIsRead
<1>3. q \in net
  BY <1>1, <1>2 DEF Known, ReachInv, Accounted
<1>4. q.kind = "msg"
  BY SentFacts DEF Known
<1>. QED BY <1>3, <1>4 DEF InFlight

-----------------------------------------------------------------------------
(* A message in reach is opened                                            *)

\* What a state keeps and its receiving chain are all behind the chain it turns to.
LEMMA NextIsNew ==
  ASSUME NEW x \in Nodes, NEW s \in State, Shape(s, x), NEW m \in Message, NextChain(s, m)
  PROVE  /\ CanReceive(s) => Len(s.ckr.root) < Len(m.mk.root)
         /\ \A e \in s.skipped : e.mk.root # m.mk.root
<1>1. /\ Len(m.mk.root) \in Nat /\ Len(s.rk) \in Nat /\ Len(s.ckr.root) \in Nat
      /\ Len(m.mk.root) = Len(s.rk) + 1 /\ s.skipped \in SUBSET Skipped
  BY StateFields, MessageFields DEF NextChain
<1>2. ASSUME CanReceive(s) PROVE Len(s.ckr.root) < Len(m.mk.root)
  <2>. DEFINE a == Len(s.ckr.root)
              b == Len(s.rk)
              c == Len(m.mk.root)
  <2>1. a \in Nat /\ b \in Nat /\ c \in Nat /\ a + 1 = b /\ c = b + 1
    BY <1>1, <1>2 DEF Shape
  <2>. HIDE DEF a, b, c
  <2>2. a < c
    BY <2>1
  <2>. QED BY <2>2 DEF a, c
<1>3. ASSUME NEW e \in s.skipped PROVE e.mk.root # m.mk.root
  <2>1. CanReceive(s) /\ Len(e.mk.root) <= Len(s.ckr.root)
    BY DEF Shape
  <2>. DEFINE a == Len(s.ckr.root)
              c == Len(m.mk.root)
              d == Len(e.mk.root)
  <2>2. d <= a /\ a < c /\ a \in Nat /\ c \in Nat /\ d \in Nat
    BY <1>1, <1>2, <2>1, Roots, SkippedFields
  <2>. HIDE DEF a, c, d
  <2>3. d # c
    BY <2>2
  <2>. QED BY <2>3 DEF d, c
<1>. QED BY <1>2, <1>3

\* Of what kind a key in the gap before m is.
LEMMA GapKinds ==
  ASSUME Known, NEW m \in sent, NEW e \in Gap(st[m.to], m),
         OnChain(st[m.to], m) \/ NextChain(st[m.to], m)
  PROVE  LET s == st[m.to] IN
         /\ e \in Skipped /\ e.n = e.mk.i
         /\ \/ /\ CanReceive(s) /\ e.dh = s.dhr /\ e.mk.root = s.ckr.root /\ s.nr <= e.n
               /\ IF m.dh = s.dhr THEN OnChain(s, m) /\ e.n < m.n ELSE NextChain(s, m) /\ e.n < m.pn
            \/ NextChain(s, m) /\ e.dh = m.dh /\ e.mk.root = m.mk.root /\ e.n < m.n
<1>. DEFINE s == st[m.to]
<1>1. NextChain(s, m) => m.dh # s.dhr
  BY NextIsPresent
<1>2. OnChain(s, m) => m.dh = s.dhr
  BY DEF OnChain
<1>3. CASE m.dh = s.dhr
  <2>1. e \in Passes(s, m.n) /\ OnChain(s, m)
    BY <1>1, <1>3 DEF Gap
  <2>2. CanReceive(s) /\ e \in Row(s.dhr, s.ckr.root, s.nr, m.n)
    BY <2>1 DEF Passes
  <2>. QED BY <1>3, <2>1, <2>2 DEF Row
<1>4. CASE m.dh # s.dhr
  <2>1. NextChain(s, m)
    BY <1>2, <1>4
  <2>2. CASE e \in Passes(s, m.pn)
    <3>1. CanReceive(s) /\ e \in Row(s.dhr, s.ckr.root, s.nr, m.pn)
      BY <2>2 DEF Passes
    <3>. QED BY <1>4, <2>1, <3>1 DEF Row
  <2>3. CASE e \in Row(m.dh, m.mk.root, 0, m.n)
    BY <2>1, <2>3 DEF Row
  <2>. QED BY <1>4, <2>2, <2>3 DEF Gap
<1>. QED BY <1>3, <1>4

\* A key in the gap is the key of another message, which was not read yet.
LEMMA GapWasSent ==
  ASSUME Known, NEW m \in sent, NEW e \in Gap(st[m.to], m),
         OnChain(st[m.to], m) \/ NextChain(st[m.to], m)
  PROVE  \E q \in sent : q.to = m.to /\ q.mk = e.mk /\ q # m /\ ~Used(st[m.to], q)
<1>. DEFINE x == m.to
            s == st[x]
<1>0. /\ x \in Nodes /\ m \in Message /\ m.n = m.mk.i
      /\ s \in State /\ InStep(s) /\ Shape(s, x)
  BY SentFacts, NodeFacts DEF Known
<1>1. /\ e \in Skipped /\ e.n = e.mk.i /\ e.n \in Nat /\ e.mk \in Chain /\ s.nr \in Nat
      /\ m.n \in Nat /\ m.mk.i \in Nat /\ m.mk \in Chain
  BY <1>0, GapKinds, SkippedFields, StateFields, MessageFields
<1>2. CASE CanReceive(s) /\ e.mk.root = s.ckr.root /\ s.nr <= e.n
  <2>1. \E q \in sent : q.to = x /\ q.mk.root = s.ckr.root /\ q.mk.i = e.n
    <3>1. CASE OnChain(s, m)
      <4>1. m.dh = s.dhr /\ m.mk.root = s.ckr.root
        BY <3>1 DEF OnChain
      <4>2. e.n < m.n
        <5>1. ~NextChain(s, m)
          BY <4>1, NextIsPresent
        <5>. QED BY <4>1, <5>1, GapKinds
      <4>. QED BY <1>1, <1>2, <4>1, <4>2, ChainIsFull
    <3>2. CASE NextChain(s, m)
      <4>1. m.dh # s.dhr /\ s.ckr.root # m.mk.root
        BY <1>0, <1>2, <3>2, NextIsPresent, NextIsNew, StateFields
      <4>2. e.n < m.pn
        BY <1>2, <4>1, GapKinds
      <4>. QED BY <1>1, <1>2, <3>2, <4>2, ClosedIsFull
    <3>. QED BY <3>1, <3>2
  <2>2. PICK q \in sent : q.to = x /\ q.mk.root = s.ckr.root /\ q.mk.i = e.n
    BY <2>1
  <2>3. q.mk = e.mk
    <3>1. q.mk \in Chain
      BY SentFacts, MessageFields DEF Known
    <3>. QED BY <1>1, <1>2, <2>2, <3>1, SkippedFields
  <2>4. ~Used(s, q)
    BY <1>0, <1>1, <1>2, <2>2 DEF Used, InStep
  <2>5. q # m
    <3>1. CASE OnChain(s, m)
      <4>1. m.dh = s.dhr /\ ~NextChain(s, m)
        BY <3>1, NextIsPresent DEF OnChain
      <4>2. e.n < m.n
        BY <4>1, GapKinds
      <4>. QED BY <1>0, <1>1, <2>2, <4>2
    <3>2. CASE NextChain(s, m)
      <4>1. Len(s.ckr.root) < Len(m.mk.root) /\ Len(s.ckr.root) \in Nat
        BY <1>0, <1>2, <3>2, NextIsNew, StateFields
      <4>. QED BY <2>2, <4>1
    <3>. QED BY <3>1, <3>2
  <2>. QED BY <2>2, <2>3, <2>4, <2>5
<1>3. CASE NextChain(s, m) /\ e.mk.root = m.mk.root /\ e.n < m.n
  <2>1. PICK q \in sent : q.to = x /\ q.mk.root = m.mk.root /\ q.mk.i = e.n
    BY <1>1, <1>3, NextIsFull
  <2>2. q.mk = e.mk
    <3>1. q.mk \in Chain
      BY SentFacts, MessageFields DEF Known
    <3>. QED BY <1>1, <1>3, <2>1, <3>1, SkippedFields
  <2>3. ~Used(s, q)
    <3>. SUFFICES ASSUME Used(s, q) PROVE FALSE
      OBVIOUS
    <3>1. CanReceive(s) /\ Len(m.mk.root) <= Len(s.ckr.root)
      BY <2>1 DEF Used
    <3>2. Len(s.ckr.root) < Len(m.mk.root)
      BY <1>0, <1>3, <3>1, NextIsNew
    <3>3. Len(s.ckr.root) \in Nat /\ Len(m.mk.root) \in Nat
      BY <1>0, StateFields, MessageFields
    <3>. HIDE DEF s, x
    <3>. QED BY <3>1, <3>2, <3>3
  <2>4. q # m
    BY <1>0, <1>1, <1>3, <2>1
  <2>. QED BY <2>1, <2>2, <2>3, <2>4
<1>. QED BY <1>2, <1>3, GapKinds

LEMMA GapHasRoom ==
  ASSUME Known, NEW x \in Nodes \ crowded, NEW m \in InFlight(x),
         OnChain(st[x], m) \/ NextChain(st[x], m)
  PROVE  PutAside(st[x], m) = {} /\ Room(st[x].skipped \cup Gap(st[x], m))
<1>. DEFINE s == st[x]
            N == InFlight(x)
            S == s.skipped \cup Gap(s, m)
<1>0. /\ m \in sent /\ m.to = x /\ m \in Message /\ m.n = m.mk.i
      /\ s \in State /\ InStep(s) /\ Shape(s, x) /\ s.skipped \in SUBSET Skipped
      /\ m.n \in Nat /\ s.nr \in Nat /\ OneChainEach(s)
  BY SentFacts, FlightFacts, NodeFacts, StateFields, MessageFields DEF Known, ReachInv
<1>1. IsFiniteSet(N) /\ Cardinality(N) <= MaxSkip + 1
  <2>1. N \subseteq net
    BY DEF InFlight
  <2>. HIDE DEF N
  <2>2. IsFiniteSet(net)
    BY DEF Known, ReachInv, Accounted
  <2>3. IsFiniteSet(N)
    BY <2>1, <2>2, FS_Subset
  <2>. QED BY <2>3 DEF Known, ReachInv, Accounted, N
<1>a. \A e \in Gap(s, m) : e \in Skipped
  BY <1>0, GapKinds
<1>2. S \in SUBSET Skipped
  BY <1>0, <1>a
<1>3. ASSUME NEW e \in s.skipped
      PROVE  /\ e.n = e.mk.i /\ CanReceive(s)
             /\ e.mk.root = s.ckr.root => e.dh = s.dhr /\ e.mk.i < s.nr
             /\ e.mk # m.mk
             /\ e.n \in Nat
  <2>1. e.n = e.mk.i /\ CanReceive(s) /\ (e.mk.root = s.ckr.root => e.dh = s.dhr /\ e.mk.i < s.nr)
    BY <1>0 DEF Shape, InStep
  <2>2. e.n \in Nat
    BY <1>0, SkippedFields
  <2>3. CASE OnChain(s, m)
    BY <1>0, <2>1, <2>2, <2>3 DEF OnChain
  <2>4. CASE NextChain(s, m)
    BY <1>0, <2>1, <2>2, <2>4, NextIsNew
  <2>. QED BY <2>1, <2>2, <2>3, <2>4
<1>4. PutAside(s, m) = {}
  <2>1. CASE OnChain(s, m)
    <3>1. ASSUME NEW e \in s.skipped, e.dh = m.dh, e.n = m.n PROVE FALSE
      <4>1. e.mk.root = s.ckr.root
        BY <1>0, <2>1, <3>1 DEF OnChain, OneChainEach
      <4>2. e.n < s.nr /\ s.nr <= m.n
        BY <1>3, <2>1, <4>1 DEF OnChain
      <4>. QED BY <1>0, <3>1, <4>2
    <3>. QED BY <3>1 DEF PutAside
  <2>2. CASE NextChain(s, m)
    BY <1>0, <2>2, NextIsPresent DEF PutAside
  <2>. QED BY <2>1, <2>2
<1>5. ASSUME NEW e \in S PROVE \E q \in N \ {m} : q.mk = e.mk
  <2>1. CASE e \in s.skipped
    <3>1. PICK q \in sent : q.to = x /\ q.mk = e.mk
      BY <2>1 DEF Known, ReachInv, AsideWasSent
    <3>2. ~Used(s, q)
      BY <2>1, <3>1 DEF Used
    <3>3. q \in N
      BY <3>1, <3>2, UnreadInFlight
    <3>. QED BY <1>3, <2>1, <3>1, <3>3
  <2>2. CASE e \in Gap(s, m)
    <3>1. PICK q \in sent : q.to = x /\ q.mk = e.mk /\ q # m /\ ~Used(s, q)
      BY <1>0, <2>2, GapWasSent
    <3>2. q \in N
      BY <3>1, UnreadInFlight
    <3>. QED BY <3>1, <3>2
  <2>. QED BY <2>1, <2>2
<1>6. ASSUME NEW e \in S, NEW f \in S, e.mk = f.mk PROVE e = f
  <2>. DEFINE Old(g) == g \in s.skipped
              Mid(g) == CanReceive(s) /\ g.dh = s.dhr /\ g.mk.root = s.ckr.root
              New(g) == NextChain(s, m) /\ g.dh = m.dh /\ g.mk.root = m.mk.root
  <2>1. \A g \in S : g.n = g.mk.i /\ (Old(g) \/ Mid(g) \/ New(g))
    <3>1. \A g \in Gap(s, m) : g.n = g.mk.i /\ (Mid(g) \/ New(g))
      BY <1>0, GapKinds
    <3>. QED BY <1>3, <3>1
  <2>2. \A g, h : Old(g) /\ Old(h) /\ g.mk.root = h.mk.root => g.dh = h.dh
    BY <1>0 DEF Shape
  <2>3. \A g, h : Old(g) /\ Mid(h) /\ g.mk.root = h.mk.root => g.dh = h.dh
    BY <1>3
  <2>4. \A g, h : Old(g) /\ New(h) => g.mk.root # h.mk.root
    BY <1>0, NextIsNew
  <2>5. \A g, h : Mid(g) /\ New(h) => g.mk.root # h.mk.root
    <3>1. ASSUME CanReceive(s), NextChain(s, m) PROVE s.ckr.root # m.mk.root
      <4>1. Len(s.ckr.root) < Len(m.mk.root) /\ Len(s.ckr.root) \in Nat
        BY <1>0, <3>1, NextIsNew, StateFields
      <4>. QED BY <4>1
    <3>. QED BY <3>1
  <2>6. \A g, h : (Mid(g) /\ Mid(h)) \/ (New(g) /\ New(h)) => g.dh = h.dh
    OBVIOUS
  <2>. HIDE DEF Old, Mid, New, S
  <2>7. e.dh = f.dh /\ e.n = f.n
    BY <1>6, <2>1, <2>2, <2>3, <2>4, <2>5, <2>6
  <2>. QED BY <1>2, <1>6, <2>7, SkippedFields
<1>. HIDE DEF N, S
<1>7. m \in N
  BY DEF N
<1>8. Room(S)
  BY <1>1, <1>2, <1>5, <1>6, <1>7, FewInFlight
<1>. QED BY <1>4, <1>8 DEF S

\* Where it is not crowded, every message in flight can be read now.
LEMMA InReachOpens ==
  ASSUME Known, NEW x \in Nodes \ crowded, NEW m \in InFlight(x), NEW new \in Nat
  PROVE  Opens(st[x], m, new)
<1>. DEFINE s == st[x]
<1>0. /\ m \in sent /\ m.to = x /\ m \in Message /\ m.n = m.mk.i /\ Len(m.mk.root) \in ReadTurn(x)
      /\ s \in State /\ InStep(s) /\ Shape(s, x)
  BY SentFacts, FlightFacts, NodeFacts DEF Known
<1>1. Reaches(s, m)
  BY DEF Known, ReachInv, InReach
<1>2. CASE HasKey(s, m)
  BY <1>2 DEF HasKey, OpensAside, PutAside, KeyOpens, Opens
<1>3. CASE OnChain(s, m)
  <2>1. PutAside(s, m) = {} /\ Room(s.skipped \cup Gap(s, m))
    BY <1>3, GapHasRoom
  <2>2. m.dh = s.dhr /\ CanReceive(s) /\ m.mk.root = s.ckr.root /\ s.nr <= m.n
    BY <1>3 DEF OnChain
  <2>. HIDE DEF s
  <2>3. Opens(s, m, new)
    BY <1>0, <2>1, <2>2, AheadOpens DEF Opens
  <2>. QED BY <2>3 DEF s
<1>4. CASE NextChain(s, m)
  <2>1. PutAside(s, m) = {} /\ Room(s.skipped \cup Gap(s, m))
    BY <1>4, GapHasRoom
  <2>2. m.dh # s.dhr /\ m.mk.root = NextRoot(s, m.dh) /\ Len(m.mk.root) \in ReadTurn(x)
    BY <1>0, <1>4, NextIsPresent
  <2>. HIDE DEF s
  <2>3. Opens(s, m, new)
    BY <1>0, <2>1, <2>2, AheadOpens DEF Opens
  <2>. QED BY <2>3 DEF s
<1>. QED BY <1>1, <1>2, <1>3, <1>4 DEF Reaches

-----------------------------------------------------------------------------
(* What Decrypt does to the sessions                                       *)

\* m was read with a key that had been put aside, and t no longer has it.
Took(s, t, m) ==
  /\ OpensAside(s, m) /\ t.skipped = s.skipped \ PutAside(s, m)
  /\ t.rk = s.rk /\ t.dhs = s.dhs /\ t.dhr = s.dhr /\ t.cks = s.cks /\ t.ckr = s.ckr
  /\ t.ns = s.ns /\ t.nr = s.nr /\ t.pn = s.pn

\* What Advance puts aside on its way to m.
FillsGap(s, t, m) ==
  /\ t.skipped \subseteq s.skipped \cup Gap(s, m)
  /\ Room(s.skipped \cup Gap(s, m)) => t.skipped = s.skipped \cup Gap(s, m)

ReadBy(m, t) ==
  /\ st' = [st EXCEPT ![m.to] = t]
  /\ read' = read \cup {m} /\ net' = net \ {m}
  /\ UNCHANGED <<eph, sent, eaten, crowded>>

LEMMA TookExact ==
  ASSUME NEW s \in State, NEW m \in Message, OpensAside(s, m)
  PROVE  TakeSkipped(s, m) \in State /\ Took(s, TakeSkipped(s, m), m)
<1>. DEFINE rest == s.skipped \ PutAside(s, m)
            t == [s EXCEPT !.skipped = rest]
<1>1. rest \in SUBSET Skipped
  BY StateFields
<1>2. TakeSkipped(s, m) = t
  BY DEF TakeSkipped
<1>3. t \in State /\ t.skipped = rest
      /\ t.rk = s.rk /\ t.dhs = s.dhs /\ t.dhr = s.dhr /\ t.cks = s.cks /\ t.ckr = s.ckr
      /\ t.ns = s.ns /\ t.nr = s.nr /\ t.pn = s.pn
  <2>. HIDE DEF rest
  <2>. QED BY <1>1 DEF State
<1>. HIDE DEF t
<1>. QED BY <1>2, <1>3 DEF Took

LEMMA DecryptCases ==
  ASSUME Known, NEW m \in net, Decrypt(m)
  PROVE  LET s == st[m.to] IN
         /\ m \in sent
         /\ \E t \in State :
              /\ ReadBy(m, t)
              /\ \/ Took(s, t, m) /\ made' = made
                 \/ Stayed(s, t, m) /\ OnChain(s, m) /\ FillsGap(s, t, m) /\ made' = made
                 \/ /\ TurnedBy(s, t, m, made + 1) /\ NextChain(s, m) /\ FillsGap(s, t, m)
                    /\ made' = made + 1
<1>. DEFINE x == m.to
            s == st[x]
            new == made + 1
<1>1. m \in sent
  BY TypedMessages DEF Known, Decrypt
<1>2. /\ x \in Nodes /\ m \in Message /\ m.n = m.mk.i /\ m.mk.root # <<>>
      /\ Len(m.mk.root) \in ReadTurn(x)
      /\ s \in State /\ InStep(s) /\ Shape(s, x) /\ new \in Nat
  BY <1>1, SentFacts, NodeFacts DEF Known, IInv, TypeOK
<1>3. CASE /\ OpensAside(s, m) /\ st' = [st EXCEPT ![x] = TakeSkipped(s, m)]
           /\ made' = made
  <2>1. TakeSkipped(s, m) \in State /\ Took(s, TakeSkipped(s, m), m)
    BY <1>2, <1>3, TookExact
  <2>2. ReadBy(m, TakeSkipped(s, m))
    BY <1>3 DEF ReadBy, Decrypt
  <2>. QED BY <1>1, <1>3, <2>1, <2>2
<1>4. CASE /\ OpensAhead(s, m, new) /\ st' = [st EXCEPT ![x] = Advance(s, m, new)]
           /\ made' = IF m.dh = s.dhr THEN made ELSE new
  <2>. DEFINE t == Advance(s, m, new)
  <2>1. t \in State
    BY <1>2, <1>4, AdvanceKeeps
  <2>2. (Stayed(s, t, m) \/ TurnedBy(s, t, m, new)) /\ FillsGap(s, t, m)
    BY <1>2, <1>4, AheadSteps DEF FillsGap
  <2>3. ReadBy(m, t)
    BY <1>4 DEF ReadBy, Decrypt
  <2>. HIDE DEF t, s
  <2>4. CASE Stayed(s, t, m)
    <3>1. OnChain(s, m) /\ made' = made
      BY <1>4, <2>4 DEF Stayed, OnChain
    <3>. QED BY <1>1, <2>1, <2>2, <2>3, <2>4, <3>1 DEF s
  <2>5. CASE TurnedBy(s, t, m, new)
    <3>1. made' = new
      BY <1>4, <2>5 DEF TurnedBy
    <3>2. NextChain(s, m)
      <4>1. s.rk \in Root /\ <<DH(s.dhs, m.dh)>> \in Seq(SUBSET Nat)
        BY <1>2, StateFields, MessageFields, Roots
      <4>2. m.mk.root = NextRoot(s, m.dh)
        BY <2>5 DEF TurnedBy
      <4>. QED BY <4>1, <4>2, Roots DEF NextRoot, NextChain
    <3>. QED BY <1>1, <2>1, <2>2, <2>3, <2>5, <3>1, <3>2 DEF s
  <2>. QED BY <2>2, <2>4, <2>5
<1>. QED BY <1>3, <1>4 DEF Decrypt

LEMMA ReadFacts ==
  ASSUME Known, NEW m \in sent, NEW t \in State, ReadBy(m, t)
  PROVE  /\ st'[m.to] = t /\ st'[m.from] = st[m.from]
         /\ \A y \in Nodes : y = m.to \/ y = m.from
         /\ m.to # m.from /\ m.to \in Nodes /\ m.from \in Nodes
         /\ Other(m.to) = m.from /\ Other(m.from) = m.to
<1>1. /\ m.to \in Nodes /\ m.from \in Nodes /\ m.from = Other(m.to) /\ m.to = Other(m.from)
  BY SentFacts DEF Known
<1>2. m.to # m.from
  BY <1>1, Others
<1>3. \A y \in Nodes : st'[y] = IF y = m.to THEN t ELSE st[y]
  BY TypedMessages DEF Known, StatesFit, ReadBy
<1>4. \A y \in Nodes : y = m.to \/ y = m.from
  BY <1>1 DEF Nodes, Other
<1>. QED BY <1>1, <1>2, <1>3, <1>4

\* What reading m leaves alone however it was read.
LEMMA ReadAccounts ==
  ASSUME Known, NEW m \in sent, NEW t \in State, ReadBy(m, t)
  PROVE  HandshakeShared' /\ Accounted' /\ InWindowIsRead'
<1>0. net' \subseteq net /\ net' = net \ {m} /\ sent' = sent /\ read' = read \cup {m}
      /\ eaten' = eaten /\ crowded' = crowded
  BY DEF ReadBy
<1>1. HandshakeShared'
  <2>1. \A h \in net' : h.kind = "msg"
    BY <1>0, SentFacts DEF Known, Joined
  <2>. QED BY <2>1 DEF HandshakeShared
<1>2. InWindowIsRead'
  BY <1>0 DEF Known, ReachInv, InWindowIsRead
<1>3. Accounted'
  <2>1. sent' \subseteq net' \cup read' \cup eaten'
    BY <1>0 DEF Known, ReachInv, Accounted
  <2>2. IsFiniteSet(net) /\ IsFiniteSet(net')
    BY <1>0, FS_Subset DEF Known, ReachInv, Accounted
  <2>3. ASSUME NEW x \in Nodes \ crowded PROVE Cardinality(InFlight(x)') <= MaxSkip + 1
    <3>. DEFINE A == InFlight(x)
                B == InFlight(x)'
    <3>1. B \subseteq A /\ A \subseteq net
      BY <1>0 DEF InFlight
    <3>2. Cardinality(A) <= MaxSkip + 1
      BY DEF Known, ReachInv, Accounted
    <3>. HIDE DEF A, B
    <3>3. IsFiniteSet(A) /\ IsFiniteSet(B) /\ Cardinality(B) <= Cardinality(A)
      BY <2>2, <3>1, FS_Subset
    <3>4. Cardinality(A) \in Nat /\ Cardinality(B) \in Nat
      BY <3>3, FS_CardinalityType
    <3>5. Cardinality(B) <= MaxSkip + 1
      BY <3>2, <3>3, <3>4, RatchetBoundsAssumption
    <3>. QED BY <3>5 DEF B
  <2>. QED BY <1>0, <2>1, <2>2, <2>3 DEF Accounted
<1>. QED BY <1>1, <1>2, <1>3

-----------------------------------------------------------------------------
(* What is kept when a message is read                                     *)

\* The chains of t are those of s, further on the receiving one at most.
SameChains(s, t, m) ==
  /\ t.rk = s.rk /\ t.dhs = s.dhs /\ t.dhr = s.dhr /\ t.cks = s.cks /\ t.ns = s.ns /\ t.pn = s.pn
  /\ t.ckr.root = s.ckr.root /\ (CanReceive(t) <=> CanReceive(s))
  /\ t.nr = s.nr \/ (t.nr = m.n + 1 /\ CanReceive(s) /\ m.mk.root = s.ckr.root)
  /\ \A e \in t.skipped :
       e \in s.skipped \/ (CanReceive(s) /\ e.dh = s.dhr /\ e.mk.root = s.ckr.root)

LEMMA StayIsSame ==
  ASSUME Known, NEW m \in sent, NEW t,
         \/ Took(st[m.to], t, m)
         \/ Stayed(st[m.to], t, m) /\ OnChain(st[m.to], m) /\ FillsGap(st[m.to], t, m)
  PROVE  SameChains(st[m.to], t, m)
<1>. DEFINE s == st[m.to]
<1>1. CASE Took(s, t, m)
  BY <1>1 DEF Took, SameChains, CanReceive
<1>2. CASE Stayed(s, t, m) /\ OnChain(s, m) /\ FillsGap(s, t, m)
  <2>1. \A e \in Gap(s, m) : e.dh = s.dhr /\ e.mk.root = s.ckr.root
    BY <1>2 DEF Stayed, Gap, Passes, Row
  <2>. HIDE DEF s
  <2>2. SameChains(s, t, m)
    BY <1>2, <2>1 DEF Stayed, FillsGap, SameChains
  <2>. QED BY <2>2 DEF s
<1>. QED BY <1>1, <1>2

\* Every key put aside is the key of a message that was sent.
LEMMA AsideKeeps ==
  ASSUME Known, NEW m \in sent, NEW t \in State, ReadBy(m, t),
         \/ Took(st[m.to], t, m)
         \/ (OnChain(st[m.to], m) \/ NextChain(st[m.to], m)) /\ FillsGap(st[m.to], t, m)
  PROVE  AsideWasSent'
<1>. DEFINE x == m.to
            s == st[x]
<1>1. \A e \in s.skipped : \E q \in sent : q.to = x /\ q.mk = e.mk
  BY ReadFacts DEF Known, ReachInv, AsideWasSent
<1>2. ASSUME NEW e \in t.skipped PROVE \E q \in sent : q.to = x /\ q.mk = e.mk
  <2>1. CASE e \in s.skipped
    BY <1>1, <2>1
  <2>2. CASE e \notin s.skipped
    <3>1. (OnChain(s, m) \/ NextChain(s, m)) /\ e \in Gap(s, m)
      BY <2>2 DEF Took, FillsGap
    <3>. QED BY <3>1, GapWasSent
  <2>. QED BY <2>1, <2>2
<1>3. sent' = sent /\ st'[x] = t /\ st'[m.from] = st[m.from]
      /\ \A y \in Nodes : y = x \/ y = m.from
  BY ReadFacts DEF ReadBy
<1>4. ASSUME NEW y \in Nodes, NEW e \in st'[y].skipped
      PROVE  \E q \in sent : q.to = y /\ q.mk = e.mk
  BY <1>2, <1>3, <1>4 DEF Known, ReachInv, AsideWasSent
<1>. QED BY <1>3, <1>4 DEF AsideWasSent

LEMMA SameKeeps ==
  ASSUME Known, NEW m \in sent, NEW t \in State, ReadBy(m, t), made' = made,
         SameChains(st[m.to], t, m)
  PROVE  /\ \E a \in Nodes : Ahead(a)'
         /\ ChainSent' /\ MadeBefore' /\ (\A y \in Nodes : OneChainEach(st[y])')
<1>. DEFINE x == m.to
            z == m.from
            s == st[x]
            o == st[z]
<1>0. /\ st'[x] = t /\ st'[z] = o /\ (\A y \in Nodes : y = x \/ y = z)
      /\ x \in Nodes /\ z \in Nodes /\ Other(x) = z /\ Other(z) = x /\ sent' = sent
  BY ReadFacts DEF ReadBy
<1>1. s \in State /\ o \in State /\ Shape(o, z) /\ InStep(o) /\ s.skipped \in SUBSET Skipped
  BY <1>0, NodeFacts, StateFields DEF Known
<1>2. m \in Message /\ Passed(o, m) /\ m.n = m.mk.i /\ Joined
  BY SentFacts DEF Known
<1>3. ASSUME Ahead(x) PROVE Ahead(x)'
  <2>1. t.nr <= o.ns
    <3>1. CASE t.nr = s.nr /\ CanReceive(s)
      BY <1>0, <1>3, <3>1 DEF Ahead
    <3>2. CASE t.nr = m.n + 1 /\ CanReceive(s) /\ m.mk.root = s.ckr.root
      <4>1. m.mk.root = o.rk
        BY <1>0, <1>3, <3>2 DEF Ahead
      <4>2. m.n < o.ns
        BY <1>1, <1>2, <4>1 DEF Passed, Shape, InStep
      <4>3. m.n \in Nat /\ o.ns \in Nat
        BY <1>1, <1>2, StateFields, MessageFields
      <4>. QED BY <3>2, <4>2, <4>3
    <3>3. CASE ~CanReceive(s)
      <4>1. t.nr = s.nr
        BY <3>3 DEF SameChains
      <4>2. s.nr = 0 /\ o.ns \in Nat
        BY <1>0, <1>1, <3>3, NodeFacts, StateFields, NoStateType DEF Known, CanReceive, InStep
      <4>. QED BY <4>1, <4>2
    <3>. QED BY <3>1, <3>2, <3>3 DEF SameChains
  <2>2. /\ CanSend(t) /\ t.rk = KdfRoot(o.rk, <<DH(t.dhs, o.dhs)>>) /\ t.dhr = o.dhs
        /\ CanReceive(t) => t.ckr.root = o.rk
        /\ CanSend(o) => CanReceive(t)
        /\ t.dhs # o.dhr /\ \A e \in o.skipped : e.dh # t.dhs
    BY <1>0, <1>3 DEF Ahead, SameChains, CanSend
  <2>3. CanReceive(o) =>
          /\ \A k \in sent : k.from = x /\ k.mk.root = o.ckr.root => k.n < t.pn
          /\ \A j \in Nat : j < t.pn =>
               \E k \in sent : k.from = x /\ k.mk.root = o.ckr.root /\ k.mk.i = j
    BY <1>0, <1>3 DEF Ahead, SameChains
  <2>. HIDE DEF x, z, s, o
  <2>. USE DEF o
  <2>. QED BY <1>0, <2>1, <2>2, <2>3 DEF Ahead
<1>4. ASSUME Ahead(z) PROVE Ahead(z)'
  <2>1. /\ \A e \in t.skipped : e.dh # o.dhs
        /\ CanSend(o) /\ o.rk = KdfRoot(t.rk, <<DH(o.dhs, t.dhs)>>) /\ o.dhr = t.dhs
        /\ CanReceive(o) => o.ckr.root = t.rk /\ o.nr <= t.ns
        /\ CanSend(t) => CanReceive(o)
        /\ o.dhs # t.dhr
    BY <1>0, <1>4 DEF Ahead, SameChains, CanSend
  <2>2. CanReceive(t) =>
          /\ \A k \in sent : k.from = z /\ k.mk.root = t.ckr.root => k.n < o.pn
          /\ \A j \in Nat : j < o.pn =>
               \E k \in sent : k.from = z /\ k.mk.root = t.ckr.root /\ k.mk.i = j
    BY <1>0, <1>4 DEF Ahead, SameChains
  <2>. HIDE DEF x, z, s, o
  <2>. USE DEF o
  <2>. QED BY <1>0, <2>1, <2>2 DEF Ahead
<1>5. ChainSent'
  <2>1. \A y \in Nodes : /\ st'[y].rk = st[y].rk /\ st'[y].dhs = st[y].dhs
                         /\ st'[y].pn = st[y].pn /\ st'[y].ns = st[y].ns
    BY <1>0 DEF SameChains
  <2>. QED BY <1>0, <2>1 DEF Known, ReachInv, ChainSent
<1>6. MadeBefore'
  <2>1. t.dhs <= made /\ t.dhr <= made /\ \A e \in t.skipped : e.dh <= made
    BY <1>0 DEF Known, ReachInv, MadeBefore, SameChains
  <2>. QED BY <1>0, <2>1 DEF Known, ReachInv, MadeBefore
<1>7. ASSUME NEW y \in Nodes PROVE OneChainEach(st[y])'
  <2>1. OneChainEach(s) /\ OneChainEach(o)
    BY <1>0 DEF Known, ReachInv
  <2>2. OneChainEach(t)
    BY <2>1 DEF OneChainEach, SameChains
  <2>. QED BY <1>0, <2>1, <2>2 DEF OneChainEach
<1>. QED BY <1>0, <1>2, <1>3, <1>4, <1>5, <1>6, <1>7, OneAhead

LEMMA TurnKeeps ==
  ASSUME Known, NEW m \in sent, NEW t \in State, ReadBy(m, t), made' = made + 1,
         TurnedBy(st[m.to], t, m, made + 1), NextChain(st[m.to], m), FillsGap(st[m.to], t, m)
  PROVE  /\ \E a \in Nodes : Ahead(a)'
         /\ ChainSent' /\ MadeBefore' /\ (\A y \in Nodes : OneChainEach(st[y])')
<1>. DEFINE x == m.to
            z == m.from
            s == st[x]
            o == st[z]
            new == made + 1
<1>0. /\ st'[x] = t /\ st'[z] = o /\ (\A y \in Nodes : y = x \/ y = z)
      /\ x \in Nodes /\ z \in Nodes /\ Other(x) = z /\ Other(z) = x /\ sent' = sent
  BY ReadFacts DEF ReadBy
<1>1. /\ s \in State /\ o \in State /\ Shape(o, z) /\ InStep(o) /\ s.skipped \in SUBSET Skipped
      /\ Shape(s, x) /\ InStep(s) /\ o.skipped \in SUBSET Skipped
  BY <1>0, NodeFacts, StateFields DEF Known
<1>2. m \in Message /\ made \in Nat /\ new \in Nat
  BY SentFacts DEF Known, IInv, TypeOK
<1>3. /\ Ahead(z) /\ m.mk.root = o.rk /\ m.dh = o.dhs /\ m.n < o.ns /\ m.dh # s.dhr
      /\ \A e \in s.skipped : e.dh # m.dh
  BY NextIsPresent
<1>4. \A e \in t.skipped :
        \/ e \in s.skipped
        \/ CanReceive(s) /\ e.dh = s.dhr /\ e.mk.root = s.ckr.root
        \/ e.dh = m.dh /\ e.mk.root = m.mk.root
  BY GapKinds DEF FillsGap
<1>5. /\ o.dhs <= made /\ o.dhr <= made /\ s.dhs <= made /\ s.dhr <= made
      /\ (\A e \in o.skipped : e.dh <= made) /\ (\A e \in s.skipped : e.dh <= made)
  BY <1>0 DEF Known, ReachInv, MadeBefore
<1>6. /\ o.dhs \in Nat /\ o.dhr \in Nat /\ s.dhs \in Nat /\ s.dhr \in Nat /\ m.n \in Nat
      /\ o.ns \in Nat /\ s.ns \in Nat /\ (\A e \in o.skipped : e.dh \in Nat)
      /\ (\A e \in s.skipped : e.dh \in Nat)
  BY <1>1, <1>2, StateFields, MessageFields, SkippedFields
<1>7. Ahead(x)'
  <2>1. CanSend(t) /\ t.rk = KdfRoot(o.rk, <<DH(t.dhs, o.dhs)>>) /\ t.dhr = o.dhs
    BY <1>3 DEF TurnedBy
  <2>2. t.ckr.root = o.rk /\ t.nr <= o.ns /\ CanReceive(t)
    BY <1>3, <1>6 DEF TurnedBy
  <2>3. t.dhs # o.dhr /\ \A e \in o.skipped : e.dh # t.dhs
    BY <1>2, <1>5, <1>6 DEF TurnedBy
  <2>4. CanReceive(o) => o.ckr.root = s.rk
    BY <1>0, <1>3 DEF Ahead
  <2>5. ASSUME NEW k \in sent, k.from = x, k.mk.root = s.rk PROVE k.n < t.pn
    <3>1. Passed(s, k) /\ k.n = k.mk.i
      BY <1>0, <2>5, SentFacts DEF Known
    <3>. QED BY <1>1, <2>5, <3>1 DEF Passed, Shape, InStep, TurnedBy
  <2>6. ASSUME NEW j \in Nat, j < t.pn
        PROVE  \E k \in sent : k.from = x /\ k.mk.root = s.rk /\ k.mk.i = j
    <3>1. j < s.ns
      BY <2>6 DEF TurnedBy
    <3>. QED BY <1>0, <3>1 DEF Known, ReachInv, ChainSent
  <2>. HIDE DEF x, z, s, o
  <2>. USE DEF o
  <2>. QED BY <1>0, <2>1, <2>2, <2>3, <2>4, <2>5, <2>6 DEF Ahead
<1>8. ChainSent'
  <2>1. ASSUME NEW k \in sent, k.from = x PROVE Len(k.mk.root) # Len(t.rk)
    <3>1. Passed(s, k) /\ k \in Message
      BY <1>0, <2>1, SentFacts DEF Known
    <3>2. /\ Len(k.mk.root) <= Len(s.rk) /\ Len(k.mk.root) \in Nat /\ Len(s.rk) \in Nat
          /\ Len(m.mk.root) = Len(s.rk) + 1 /\ m.mk.root \in Root /\ m.dh \in Nat
      BY <1>1, <1>2, <3>1, StateFields, MessageFields DEF Passed, NextChain
    <3>3. Len(t.rk) = Len(m.mk.root) + 1
      <4>. DEFINE r == m.mk.root
                  d == <<DH(new, m.dh)>>
      <4>1. r \in Root /\ d \in Seq(SUBSET Nat)
        BY <1>2, <3>2, Roots
      <4>2. t.rk = KdfRoot(r, d)
        BY DEF TurnedBy
      <4>. HIDE DEF r, d
      <4>3. Len(t.rk) = Len(r) + 1
        BY <4>1, <4>2, Roots
      <4>. QED BY <4>3 DEF r
    <3>. DEFINE a == Len(k.mk.root)
                b == Len(s.rk)
                c == Len(t.rk)
    <3>4. a <= b /\ c = (b + 1) + 1 /\ a \in Nat /\ b \in Nat
      BY <3>2, <3>3
    <3>. HIDE DEF a, b, c
    <3>5. a # c
      BY <3>4
    <3>. QED BY <3>5 DEF a, c
  <2>2. t.ns = 0
    BY DEF TurnedBy
  <2>3. ~(\E j \in Nat : j < 0)
    OBVIOUS
  <2>4. /\ \A k \in sent : k.from = z /\ Len(k.mk.root) = Len(o.rk) =>
             k.mk.root = o.rk /\ k.dh = o.dhs /\ k.pn = o.pn
        /\ \A j \in Nat : j < o.ns => \E k \in sent : k.from = z /\ k.mk.root = o.rk /\ k.mk.i = j
    BY <1>0 DEF Known, ReachInv, ChainSent
  <2>. HIDE DEF x, z, s, o
  <2>. QED BY <1>0, <2>1, <2>2, <2>3, <2>4 DEF ChainSent
<1>9. MadeBefore'
  <2>1. t.dhs <= new /\ t.dhr <= new /\ \A e \in t.skipped : e.dh <= new
    BY <1>2, <1>3, <1>4, <1>5, <1>6 DEF TurnedBy
  <2>2. o.dhs <= new /\ o.dhr <= new /\ \A e \in o.skipped : e.dh <= new
    BY <1>2, <1>5, <1>6
  <2>. QED BY <1>0, <2>1, <2>2 DEF MadeBefore
<1>10. ASSUME NEW y \in Nodes PROVE OneChainEach(st[y])'
  <2>1. OneChainEach(s) /\ OneChainEach(o)
    BY <1>0 DEF Known, ReachInv
  <2>2. t.dhr = m.dh /\ t.ckr.root = m.mk.root
    BY DEF TurnedBy
  <2>3. OneChainEach(t)
    BY <1>3, <1>4, <2>1, <2>2 DEF OneChainEach
  <2>. QED BY <1>0, <2>1, <2>3 DEF OneChainEach
<1>. QED BY <1>0, <1>7, <1>8, <1>9, <1>10

\* The keys of a chain that are passed on the way are in the gap.
LEMMA InRow ==
  ASSUME NEW q \in Message, q.n = q.mk.i, NEW lo, NEW hi, lo <= q.n, q.n < hi
  PROVE  \E e \in Row(q.dh, q.mk.root, lo, hi) : e.dh = q.dh /\ e.n = q.n /\ e.mk = q.mk
<1>. DEFINE e == [dh |-> q.dh, n |-> q.n, mk |-> q.mk]
<1>1. e \in Skipped /\ e.dh = q.dh /\ e.n = q.n /\ e.mk = q.mk
  BY MessageFields, SkippedFields
<1>. HIDE DEF e
<1>. QED BY <1>1 DEF Row

\* Two messages of one chain with one number are one message.
LEMMA SameNumber ==
  ASSUME Known, NEW k \in sent, NEW m \in sent, k.mk.root = m.mk.root, k.n = m.n
  PROVE  k = m
<1>1. k.mk \in Chain /\ m.mk \in Chain /\ k.mk.i = m.mk.i
  BY SentFacts, MessageFields DEF Known
<1>2. k.mk = m.mk
  BY <1>1, SkippedFields
<1>. QED BY <1>2 DEF Known, KeyOnce

LEMMA TookReaches ==
  ASSUME Known, NEW m \in sent, NEW t, Took(st[m.to], t, m),
         NEW q \in sent, q # m, Reaches(st[m.to], q)
  PROVE  Reaches(t, q)
<1>. DEFINE s == st[m.to]
<1>0. /\ s \in State /\ Shape(s, m.to) /\ OneChainEach(s) /\ s.skipped \in SUBSET Skipped
  BY SentFacts, NodeFacts, StateFields DEF Known, ReachInv
<1>1. CASE HasKey(s, q)
  <2>1. PICK e \in s.skipped : e.dh = q.dh /\ e.n = q.n /\ e.mk = q.mk
    BY <1>1 DEF HasKey
  <2>2. e \notin PutAside(s, m)
    <3>. SUFFICES ASSUME e \in PutAside(s, m) PROVE FALSE
      OBVIOUS
    <3>1. PICK f \in s.skipped : f.dh = m.dh /\ f.n = m.n /\ f.mk = m.mk
      BY DEF Took, OpensAside, PutAside, KeyOpens
    <3>2. e.dh = f.dh /\ e.n = f.n
      BY <3>1 DEF PutAside
    <3>3. q.mk.root = m.mk.root /\ q.n = m.n
      BY <1>0, <2>1, <3>1, <3>2 DEF OneChainEach
    <3>. QED BY <3>3, SameNumber
  <2>. QED BY <2>1, <2>2 DEF Took, HasKey, Reaches
<1>2. CASE OnChain(s, q) \/ NextChain(s, q)
  BY <1>2 DEF Took, OnChain, NextChain, CanReceive, Reaches
<1>. QED BY <1>1, <1>2 DEF Reaches

LEMMA StayReaches ==
  ASSUME Known, NEW m \in sent, NEW t, Stayed(st[m.to], t, m),
         t.skipped = st[m.to].skipped \cup Gap(st[m.to], m),
         NEW q \in sent, q # m, Reaches(st[m.to], q)
  PROVE  Reaches(t, q)
<1>. DEFINE s == st[m.to]
<1>0. q \in Message /\ q.n \in Nat /\ m.n \in Nat /\ q.n = q.mk.i
  BY SentFacts, MessageFields DEF Known
<1>1. CASE HasKey(s, q)
  BY <1>1 DEF HasKey, Reaches
<1>2. CASE OnChain(s, q) /\ q.n < m.n
  <2>1. /\ q.dh = s.dhr /\ q.mk.root = s.ckr.root /\ s.nr <= q.n
        /\ Gap(s, m) = Row(s.dhr, s.ckr.root, s.nr, m.n)
    BY <1>2 DEF OnChain, Stayed, Gap, Passes
  <2>2. \E e \in Gap(s, m) : e.dh = q.dh /\ e.n = q.n /\ e.mk = q.mk
    BY <1>0, <1>2, <2>1, InRow
  <2>. QED BY <2>2 DEF HasKey, Reaches
<1>3. CASE OnChain(s, q) /\ ~(q.n < m.n)
  <2>1. q.n # m.n
    BY <1>3, SameNumber DEF OnChain, Stayed
  <2>2. m.n + 1 <= q.n
    BY <1>0, <1>3, <2>1
  <2>. QED BY <1>3, <2>2 DEF OnChain, Stayed, Reaches
<1>4. CASE NextChain(s, q)
  BY <1>4 DEF NextChain, Stayed, Reaches
<1>. QED BY <1>1, <1>2, <1>3, <1>4 DEF Reaches

LEMMA TurnReaches ==
  ASSUME Known, NEW m \in sent, NEW t, NEW new, TurnedBy(st[m.to], t, m, new),
         NextChain(st[m.to], m),
         t.skipped = st[m.to].skipped \cup Gap(st[m.to], m),
         NEW q \in sent, q # m, q.to = m.to, Reaches(st[m.to], q)
  PROVE  Reaches(t, q)
<1>. DEFINE s == st[m.to]
            P == Passes(s, m.pn)
            R == Row(m.dh, m.mk.root, 0, m.n)
<1>0. /\ q \in Message /\ q.n \in Nat /\ m.n \in Nat /\ q.n = q.mk.i
      /\ q.from = m.from /\ Other(m.from) = m.to
  BY SentFacts, MessageFields DEF Known
<1>a. Gap(s, m) = P \cup R
  BY DEF Gap, TurnedBy
<1>1. CASE HasKey(s, q)
  BY <1>1 DEF HasKey, Reaches
<1>2. CASE OnChain(s, q)
  <2>1. q.n < m.pn
    <3>1. /\ Ahead(m.from) /\ CanReceive(s) /\ m.pn = st[m.from].pn
          /\ q.mk.root = s.ckr.root
      BY <1>2, NextIsPresent DEF OnChain
    <3>. QED BY <1>0, <3>1 DEF Ahead
  <2>2. P = Row(q.dh, q.mk.root, s.nr, m.pn) /\ s.nr <= q.n
    BY <1>2 DEF OnChain, Passes
  <2>3. \E e \in P : e.dh = q.dh /\ e.n = q.n /\ e.mk = q.mk
    BY <1>0, <2>1, <2>2, InRow
  <2>. QED BY <1>a, <2>3 DEF HasKey, Reaches
<1>3. CASE NextChain(s, q)
  <2>1. q.dh = m.dh /\ q.mk.root = m.mk.root
    BY <1>0, <1>3, NextIsPresent
  <2>2. CASE q.n < m.n
    <3>1. 0 <= q.n
      BY <1>0
    <3>2. \E e \in R : e.dh = q.dh /\ e.n = q.n /\ e.mk = q.mk
      BY <1>0, <2>1, <2>2, <3>1, InRow
    <3>. QED BY <1>a, <3>2 DEF HasKey, Reaches
  <2>3. CASE ~(q.n < m.n)
    <3>1. q.n # m.n
      BY <2>1, SameNumber
    <3>2. m.n + 1 <= q.n
      BY <1>0, <2>3, <3>1
    <3>. QED BY <2>1, <3>2 DEF TurnedBy, OnChain, Reaches
  <2>. QED BY <2>2, <2>3
<1>. QED BY <1>1, <1>2, <1>3 DEF Reaches

LEMMA DecryptReaches ==
  ASSUME Known, NEW m \in net, Decrypt(m) PROVE ReachInv'
<1>. DEFINE x == m.to
            s == st[x]
<1>1. m \in sent
  BY DecryptCases
<1>2. PICK t \in State :
        /\ ReadBy(m, t)
        /\ \/ Took(s, t, m) /\ made' = made
           \/ Stayed(s, t, m) /\ OnChain(s, m) /\ FillsGap(s, t, m) /\ made' = made
           \/ /\ TurnedBy(s, t, m, made + 1) /\ NextChain(s, m) /\ FillsGap(s, t, m)
              /\ made' = made + 1
  BY DecryptCases
<1>3. HandshakeShared' /\ Accounted' /\ InWindowIsRead'
  BY <1>1, <1>2, ReadAccounts
<1>4. AsideWasSent'
  BY <1>1, <1>2, AsideKeeps
<1>5. /\ \E a \in Nodes : Ahead(a)'
      /\ ChainSent' /\ MadeBefore' /\ (\A y \in Nodes : OneChainEach(st[y])')
  <2>1. CASE ~TurnedBy(s, t, m, made + 1)
    BY <1>1, <1>2, <2>1, StayIsSame, SameKeeps
  <2>2. CASE TurnedBy(s, t, m, made + 1)
    <3>1. NextChain(s, m) /\ FillsGap(s, t, m) /\ made' = made + 1
      <4>1. m.dh # s.dhr /\ m.mk.root = NextRoot(s, m.dh)
        BY <2>2 DEF TurnedBy
      <4>2. ~Stayed(s, t, m)
        BY <4>1 DEF Stayed
      <4>3. ~Took(s, t, m)
        <5>. SUFFICES ASSUME Took(s, t, m) PROVE FALSE
          OBVIOUS
        <5>1. t.dhr = s.dhr /\ t.dhr = m.dh
          BY <2>2 DEF Took, TurnedBy
        <5>. QED BY <4>1, <5>1
      <4>. QED BY <1>2, <4>2, <4>3
    <3>. QED BY <1>1, <1>2, <2>2, <3>1, TurnKeeps
  <2>. QED BY <2>1, <2>2
<1>6. InReach'
  <2>0. /\ st'[x] = t /\ st'[m.from] = st[m.from] /\ (\A y \in Nodes : y = x \/ y = m.from)
        /\ crowded' = crowded /\ net' = net \ {m} /\ m.kind = "msg" /\ x \in Nodes
    BY <1>1, <1>2, ReadFacts, SentFacts DEF ReadBy, Known
  <2>1. SUFFICES ASSUME NEW y \in Nodes \ crowded, NEW q \in InFlight(y)'
                 PROVE  Reaches(st'[y], q)
    BY <2>0 DEF InReach, Reaches, HasKey, OnChain, NextChain, CanReceive
  <2>2. q \in InFlight(y) /\ q # m
    BY <2>0 DEF InFlight
  <2>3. q \in sent /\ q.to = y /\ Reaches(st[y], q)
    BY <2>2, FlightFacts DEF Known, ReachInv, InReach
  <2>4. CASE y # x
    BY <2>0, <2>3, <2>4
  <2>5. CASE y = x
    <3>1. m \in InFlight(x) /\ x \in Nodes \ crowded
      BY <2>0, <2>5 DEF InFlight
    <3>2. CASE Took(s, t, m)
      BY <1>1, <2>0, <2>2, <2>3, <2>5, <3>2, TookReaches
    <3>3. CASE Stayed(s, t, m) /\ OnChain(s, m) /\ FillsGap(s, t, m)
      <4>1. t.skipped = s.skipped \cup Gap(s, m)
        BY <3>1, <3>3, GapHasRoom DEF FillsGap
      <4>. QED BY <1>1, <2>0, <2>2, <2>3, <2>5, <3>3, <4>1, StayReaches
    <3>4. CASE TurnedBy(s, t, m, made + 1) /\ NextChain(s, m) /\ FillsGap(s, t, m)
      <4>1. t.skipped = s.skipped \cup Gap(s, m)
        BY <3>1, <3>4, GapHasRoom DEF FillsGap
      <4>. DEFINE new == made + 1
      <4>. HIDE DEF new
      <4>2. TurnedBy(s, t, m, new)
        BY <3>4 DEF new
      <4>. QED BY <1>1, <2>0, <2>2, <2>3, <2>5, <3>4, <4>1, <4>2, TurnReaches
    <3>. QED BY <1>2, <3>2, <3>3, <3>4
  <2>. QED BY <2>4, <2>5
<1>. QED BY <1>3, <1>4, <1>5, <1>6 DEF ReachInv

LEMMA DecryptFailsReaches ==
  ASSUME Known, NEW m \in net, DecryptFails(m) PROVE ReachInv'
<1>1. /\ m \in sent /\ m.to \in Nodes /\ m.kind = "msg" /\ made + 1 \in Nat
  BY TypedMessages, SentFacts DEF Known, DecryptFails, IInv, TypeOK
<1>2. m.to \in crowded
  <2>. SUFFICES ASSUME m.to \notin crowded PROVE FALSE
    OBVIOUS
  <2>1. m \in InFlight(m.to)
    BY <1>1 DEF InFlight
  <2>2. Opens(st[m.to], m, made + 1)
    BY <1>1, <2>1, InReachOpens
  <2>. QED BY <2>2 DEF DecryptFails
<1>3. /\ eaten' = eaten \cup {m} /\ net' = net \ {m} /\ eph' = eph /\ st' = st
      /\ made' = made /\ sent' = sent /\ read' = read /\ crowded' = crowded
  BY DEF DecryptFails
<1>4. InWindowIsRead'
  BY <1>2, <1>3 DEF Known, ReachInv, InWindowIsRead
<1>5. Accounted'
  <2>1. sent' \subseteq net' \cup read' \cup eaten'
    BY <1>3 DEF Known, ReachInv, Accounted
  <2>2. IsFiniteSet(net')
    BY <1>3, FS_Subset DEF Known, ReachInv, Accounted
  <2>3. \A x \in Nodes \ crowded : InFlight(x)' = InFlight(x)
    BY <1>2, <1>3 DEF InFlight
  <2>. QED BY <1>3, <2>1, <2>2, <2>3 DEF Known, ReachInv, Accounted
<1>6. InReach'
  BY <1>3 DEF Known, ReachInv, InReach, InFlight, Reaches, HasKey, OnChain, NextChain
<1>7. HandshakeShared' /\ (Joined' => \E a \in Nodes : Ahead(a)')
  <2>1. Joined
    BY <1>1, SentFacts DEF Known
  <2>2. \E a \in Nodes : Ahead(a)'
    BY <1>3, <2>1 DEF Known, ReachInv, Ahead
  <2>. QED BY <1>3, <2>2 DEF Known, ReachInv, HandshakeShared
<1>8. ChainSent' /\ MadeBefore' /\ (\A y \in Nodes : OneChainEach(st[y])') /\ AsideWasSent'
  BY <1>3 DEF Known, ReachInv, ChainSent, MadeBefore, OneChainEach, AsideWasSent
<1>. QED BY <1>4, <1>5, <1>6, <1>7, <1>8 DEF ReachInv

-----------------------------------------------------------------------------
(* What is kept when one is written                                        *)

LEMMA EncryptExact ==
  ASSUME Known, NEW x \in Nodes, Encrypt(x)
  PROVE  LET s == st[x] IN
         \E t \in State, m \in Message :
           /\ st' = [st EXCEPT ![x] = t] /\ sent' = sent \cup {m} /\ net' = net \cup {m}
           /\ UNCHANGED <<eph, made, read, eaten>>
           /\ m.kind = "msg" /\ m.from = x /\ m.to = Other(x) /\ m.dh = s.dhs /\ m.pn = s.pn
           /\ m.n = s.ns /\ m.mk = s.cks
           /\ t.cks.root = s.cks.root /\ t.cks # NoChain /\ t.ns = s.ns + 1
           /\ t.rk = s.rk /\ t.dhs = s.dhs /\ t.dhr = s.dhr /\ t.ckr = s.ckr /\ t.nr = s.nr
           /\ t.pn = s.pn /\ t.skipped = s.skipped
<1>. DEFINE s == st[x]
            c == Link(s.cks, 1)
            j == s.ns + 1
            t == [[s EXCEPT !.cks = c] EXCEPT !.ns = j]
            m == [kind |-> "msg", from |-> x, to |-> Other(x),
                  dh |-> s.dhs, pn |-> s.pn, n |-> s.ns, mk |-> s.cks]
<1>1. s \in State /\ Shape(s, x) /\ CanSend(s) /\ Other(x) \in Nodes
  BY NodeFacts DEF Known, Encrypt
<1>2. c \in Chain /\ c.root = s.cks.root /\ c # NoChain /\ j \in Nat
  <2>1. s.cks \in Chain /\ s.cks.root \in Root /\ s.cks.i \in Nat /\ s.ns \in Nat
    BY <1>1, StateFields
  <2>2. c \in Chain /\ c.root = s.cks.root /\ c.i = s.cks.i + 1
    BY <2>1 DEF Link, Chain
  <2>3. c.i # 0
    BY <2>1, <2>2
  <2>. HIDE DEF c, s
  <2>. QED BY <2>1, <2>2, <2>3, NoStateType DEF j
<1>3. m \in Message /\ m.kind = "msg" /\ m.from = x /\ m.to = Other(x) /\ m.dh = s.dhs
      /\ m.pn = s.pn /\ m.n = s.ns /\ m.mk = s.cks
  <2>1. s.dhs \in Nat /\ s.pn \in Nat /\ s.ns \in Nat /\ s.cks \in Chain
    BY <1>1, StateFields
  <2>. HIDE DEF s
  <2>. QED BY <1>1, <2>1 DEF Message
<1>4. /\ st' = [st EXCEPT ![x] = t] /\ sent' = sent \cup {m} /\ net' = net \cup {m}
      /\ UNCHANGED <<eph, made, read, eaten>>
  BY DEF Encrypt
<1>. HIDE DEF m, c, j
<1>5. /\ t \in State /\ t.cks = c /\ t.ns = j
      /\ t.rk = s.rk /\ t.dhs = s.dhs /\ t.dhr = s.dhr /\ t.ckr = s.ckr /\ t.nr = s.nr
      /\ t.pn = s.pn /\ t.skipped = s.skipped
  <2>. HIDE DEF s
  <2>1. [s EXCEPT !.cks = c] \in State
    BY <1>1, <1>2 DEF State
  <2>. QED BY <1>1, <1>2, <2>1 DEF State
<1>. HIDE DEF t
<1>. QED BY <1>2, <1>3, <1>4, <1>5 DEF j

LEMMA EncryptReaches == ASSUME Known, NEW x \in Nodes, Encrypt(x) PROVE ReachInv'
<1>. DEFINE z == Other(x)
            s == st[x]
            o == st[z]
<1>1. PICK t \in State, m \in Message :
        /\ st' = [st EXCEPT ![x] = t] /\ sent' = sent \cup {m} /\ net' = net \cup {m}
        /\ UNCHANGED <<eph, made, read, eaten>>
        /\ m.kind = "msg" /\ m.from = x /\ m.to = Other(x) /\ m.dh = s.dhs /\ m.pn = s.pn
        /\ m.n = s.ns /\ m.mk = s.cks
        /\ t.cks.root = s.cks.root /\ t.cks # NoChain /\ t.ns = s.ns + 1
        /\ t.rk = s.rk /\ t.dhs = s.dhs /\ t.dhr = s.dhr /\ t.ckr = s.ckr /\ t.nr = s.nr
        /\ t.pn = s.pn /\ t.skipped = s.skipped
  BY EncryptExact
<1>2. /\ s \in State /\ o \in State /\ Shape(s, x) /\ Shape(o, z) /\ InStep(s)
      /\ z \in Nodes /\ z # x /\ Other(z) = x /\ (\A y \in Nodes : y = x \/ y = z)
  BY NodeFacts DEF Known, Nodes, Other
<1>3. CanSend(s) /\ CanSend(t) /\ s.cks.root = s.rk /\ s.cks.i = s.ns /\ s.ns \in Nat
      /\ o.nr \in Nat /\ Len(s.rk) \in Nat /\ Len(o.rk) \in Nat /\ Len(o.ckr.root) \in Nat
  BY <1>1, <1>2, StateFields DEF Encrypt, Shape, InStep, CanSend
<1>4. Joined /\ made' = made /\ \A h \in net' : h.kind = "msg"
  BY <1>1, <1>3, AfterHandshake DEF Known, Joined
<1>5. st'[x] = t /\ st'[z] = o
  BY <1>1, <1>2, TypedMessages DEF Known, StatesFit
<1>6. (CanReceive(t) <=> CanReceive(s)) /\ (Ahead(x) => Len(s.rk) = Len(o.rk) + 1)
  BY <1>1, <1>4, OneAhead DEF CanReceive
<1>7. HandshakeShared'
  BY <1>4 DEF HandshakeShared
<1>8. ASSUME Ahead(x) PROVE Ahead(x)'
  <2>1. /\ t.rk = KdfRoot(o.rk, <<DH(t.dhs, o.dhs)>>) /\ t.dhr = o.dhs
        /\ CanReceive(t) => t.ckr.root = o.rk /\ t.nr <= o.ns
        /\ CanSend(o) => CanReceive(t)
        /\ t.dhs # o.dhr /\ \A e \in o.skipped : e.dh # t.dhs
    BY <1>1, <1>6, <1>8 DEF Ahead
  <2>2. CanReceive(o) => m.mk.root # o.ckr.root
    <3>. SUFFICES ASSUME CanReceive(o), s.rk = o.ckr.root PROVE FALSE
      BY <1>1, <1>3
    <3>. DEFINE a == Len(o.ckr.root)
                b == Len(o.rk)
    <3>1. a + 1 = b /\ a = b + 1 /\ a \in Nat /\ b \in Nat
      BY <1>2, <1>3, <1>6, <1>8 DEF Shape
    <3>. HIDE DEF a, b
    <3>. QED BY <3>1
  <2>3. CanReceive(o) =>
          /\ \A k \in sent : k.from = x /\ k.mk.root = o.ckr.root => k.n < t.pn
          /\ \A j \in Nat : j < t.pn =>
               \E k \in sent : k.from = x /\ k.mk.root = o.ckr.root /\ k.mk.i = j
    BY <1>1, <1>8 DEF Ahead
  <2>4. CanReceive(o) =>
          /\ \A k \in sent' : k.from = x /\ k.mk.root = o.ckr.root => k.n < t.pn
          /\ \A j \in Nat : j < t.pn =>
               \E k \in sent' : k.from = x /\ k.mk.root = o.ckr.root /\ k.mk.i = j
    BY <1>1, <2>2, <2>3
  <2>. HIDE DEF z, s, o
  <2>. QED BY <1>3, <1>5, <2>1, <2>4 DEF Ahead, z
<1>9. ASSUME Ahead(z) PROVE Ahead(z)'
  <2>1. /\ CanSend(o) /\ o.rk = KdfRoot(t.rk, <<DH(o.dhs, t.dhs)>>) /\ o.dhr = t.dhs
        /\ CanReceive(o) => o.ckr.root = t.rk
        /\ CanReceive(o) => o.nr <= s.ns
        /\ CanReceive(o)
        /\ o.dhs # t.dhr /\ \A e \in t.skipped : e.dh # o.dhs
    BY <1>1, <1>2, <1>3, <1>9 DEF Ahead
  <2>2. o.nr <= t.ns
    BY <1>1, <1>3, <2>1
  <2>3. CanReceive(s) =>
          /\ \A k \in sent : k.from = z /\ k.mk.root = s.ckr.root => k.n < o.pn
          /\ \A j \in Nat : j < o.pn =>
               \E k \in sent : k.from = z /\ k.mk.root = s.ckr.root /\ k.mk.i = j
    BY <1>2, <1>9 DEF Ahead
  <2>4. CanReceive(t) =>
          /\ \A k \in sent' : k.from = z /\ k.mk.root = t.ckr.root => k.n < o.pn
          /\ \A j \in Nat : j < o.pn =>
               \E k \in sent' : k.from = z /\ k.mk.root = t.ckr.root /\ k.mk.i = j
    BY <1>1, <1>2, <1>6, <2>3
  <2>. HIDE DEF z, s, o
  <2>. QED BY <1>2, <1>5, <2>1, <2>2, <2>4 DEF Ahead
<1>10. ChainSent'
  <2>1. /\ \A k \in sent : k.from = x /\ Len(k.mk.root) = Len(s.rk) =>
             k.mk.root = s.rk /\ k.dh = s.dhs /\ k.pn = s.pn
        /\ \A j \in Nat : j < s.ns => \E k \in sent : k.from = x /\ k.mk.root = s.rk /\ k.mk.i = j
    BY DEF Known, ReachInv, ChainSent
  <2>2. /\ \A k \in sent : k.from = z /\ Len(k.mk.root) = Len(o.rk) =>
             k.mk.root = o.rk /\ k.dh = o.dhs /\ k.pn = o.pn
        /\ \A j \in Nat : j < o.ns => \E k \in sent : k.from = z /\ k.mk.root = o.rk /\ k.mk.i = j
    BY <1>2 DEF Known, ReachInv, ChainSent
  <2>3. \A k \in sent' : k.from = x /\ Len(k.mk.root) = Len(t.rk) =>
             k.mk.root = t.rk /\ k.dh = t.dhs /\ k.pn = t.pn
    BY <1>1, <1>3, <2>1
  <2>4. ASSUME NEW j \in Nat, j < t.ns
        PROVE  \E k \in sent' : k.from = x /\ k.mk.root = t.rk /\ k.mk.i = j
    <3>1. j < s.ns \/ j = s.ns
      BY <1>1, <1>3, <2>4
    <3>. QED BY <1>1, <1>3, <2>1, <3>1
  <2>5. /\ \A k \in sent' : k.from = z /\ Len(k.mk.root) = Len(o.rk) =>
             k.mk.root = o.rk /\ k.dh = o.dhs /\ k.pn = o.pn
        /\ \A j \in Nat : j < o.ns => \E k \in sent' : k.from = z /\ k.mk.root = o.rk /\ k.mk.i = j
    BY <1>1, <1>2, <2>2
  <2>. HIDE DEF z, s, o
  <2>. QED BY <1>2, <1>5, <2>3, <2>4, <2>5 DEF ChainSent
<1>11. MadeBefore' /\ (\A y \in Nodes : OneChainEach(st[y])')
  <2>1. \A y \in Nodes : /\ st'[y].dhs = st[y].dhs /\ st'[y].dhr = st[y].dhr
                         /\ st'[y].skipped = st[y].skipped /\ st'[y].ckr = st[y].ckr
    BY <1>1, <1>2, <1>5
  <2>. QED BY <1>1, <2>1 DEF Known, ReachInv, MadeBefore, OneChainEach
<1>12. AsideWasSent'
  <2>1. \A y \in Nodes : st'[y].skipped = st[y].skipped
    BY <1>1, <1>2, <1>5
  <2>. QED BY <1>1, <2>1 DEF Known, ReachInv, AsideWasSent
<1>13. crowded \subseteq crowded' /\ InWindowIsRead'
  <2>1. crowded \subseteq crowded'
    BY DEF Encrypt
  <2>. QED BY <1>1, <2>1 DEF Known, ReachInv, InWindowIsRead
<1>14. Accounted'
  <2>1. sent' \subseteq net' \cup read' \cup eaten'
    BY <1>1 DEF Known, ReachInv, Accounted
  <2>2. IsFiniteSet(net')
    BY <1>1, FS_AddElement DEF Known, ReachInv, Accounted
  <2>3. ASSUME NEW y \in Nodes, y \notin crowded' PROVE Cardinality(InFlight(y)') <= MaxSkip + 1
    <3>1. CASE y = z
      <4>. DEFINE A == InFlight(z)'
      <4>1. ~(Cardinality(A) > MaxSkip + 1)
        BY <2>3, <3>1 DEF Encrypt, InFlight
      <4>2. A \subseteq net'
        BY DEF InFlight
      <4>. HIDE DEF A
      <4>3. Cardinality(A) \in Nat
        BY <2>2, <4>2, FS_Subset, FS_CardinalityType
      <4>4. Cardinality(A) <= MaxSkip + 1
        BY <4>1, <4>3, RatchetBoundsAssumption
      <4>. QED BY <3>1, <4>4 DEF A
    <3>2. CASE y # z
      <4>1. InFlight(y)' = InFlight(y)
        BY <1>1, <3>2 DEF InFlight
      <4>. QED BY <1>13, <2>3, <4>1 DEF Known, ReachInv, Accounted
    <3>. QED BY <3>1, <3>2
  <2>. QED BY <2>1, <2>2, <2>3 DEF Accounted
<1>15. InReach'
  <2>1. SUFFICES ASSUME NEW y \in Nodes \ crowded, NEW q \in InFlight(y)'
                 PROVE  Reaches(st'[y], q)
    BY <1>13 DEF InReach, Reaches, HasKey, OnChain, NextChain, CanReceive
  <2>2. CASE q # m
    <3>1. q \in InFlight(y)
      BY <1>1, <2>2 DEF InFlight
    <3>2. Reaches(st[y], q)
      BY <3>1 DEF Known, ReachInv, InReach
    <3>3. /\ st'[y].rk = st[y].rk /\ st'[y].dhr = st[y].dhr /\ st'[y].nr = st[y].nr
          /\ st'[y].ckr = st[y].ckr /\ st'[y].skipped = st[y].skipped
      BY <1>1, <1>2, <1>5
    <3>. QED BY <3>2, <3>3 DEF Reaches, HasKey, OnChain, NextChain, CanReceive
  <2>3. CASE q = m
    <3>1. y = z
      BY <1>1, <2>3 DEF InFlight
    <3>2. CASE Ahead(x)
      BY <1>1, <1>3, <1>5, <1>6, <2>3, <3>1, <3>2 DEF NextChain, Reaches
    <3>3. CASE Ahead(z)
      <4>1. CanReceive(o) /\ o.ckr.root = s.rk /\ o.nr <= s.ns /\ o.dhr = s.dhs
        BY <1>2, <1>3, <3>3 DEF Ahead
      <4>. QED BY <1>1, <1>3, <1>5, <2>3, <3>1, <4>1 DEF OnChain, Reaches
    <3>. QED BY <1>4, <3>2, <3>3, OneAhead
  <2>. QED BY <2>2, <2>3
<1>16. \E a \in Nodes : Ahead(a)'
  BY <1>2, <1>4, <1>8, <1>9, OneAhead
<1>. QED BY <1>7, <1>10, <1>11, <1>12, <1>13, <1>14, <1>15, <1>16 DEF ReachInv

-----------------------------------------------------------------------------
(* What is kept in the handshake                                           *)

\* Before the handshake is over nobody has written anything.
LEMMA QuietBefore ==
  ASSUME Known, sent = {}, \A x \in Nodes : ~CanSend(st[x]) /\ ~CanReceive(st[x])
  PROVE  \A x \in Nodes : st[x].ns = 0 /\ st[x].skipped = {}
<1>. SUFFICES ASSUME NEW x \in Nodes PROVE st[x].ns = 0 /\ st[x].skipped = {}
  OBVIOUS
<1>1. InStep(st[x]) /\ Shape(st[x], x)
  BY NodeFacts DEF Known
<1>. QED BY <1>1, NoStateType DEF InStep, Shape, CanSend

\* While nothing is written, what is said about messages holds of none.
LEMMA QuietKeeps ==
  ASSUME sent' = {}, eaten' = {}, IsFiniteSet(net'), \A h \in net' : h.kind # "msg",
         \A x \in Nodes : st'[x].ns = 0 /\ st'[x].skipped = {},
         \A x \in Nodes : st'[x].dhs <= made' /\ st'[x].dhr <= made'
  PROVE  /\ Accounted' /\ InReach' /\ InWindowIsRead' /\ ChainSent' /\ MadeBefore' /\ AsideWasSent'
         /\ \A x \in Nodes : OneChainEach(st[x])'
<1>1. \A x \in Nodes : InFlight(x)' = {}
  BY DEF InFlight
<1>2. Accounted'
  <2>1. Cardinality({}) = 0 /\ 0 <= MaxSkip + 1
    BY FS_EmptySet, RatchetBoundsAssumption
  <2>2. \A x \in Nodes : Cardinality(InFlight(x)') <= MaxSkip + 1
    BY <1>1, <2>1
  <2>. QED BY <2>2 DEF Accounted
<1>3. InReach' /\ InWindowIsRead'
  BY <1>1 DEF InReach, InWindowIsRead
<1>4. ChainSent'
  <2>1. ~(\E j \in Nat : j < 0)
    OBVIOUS
  <2>. QED BY <2>1 DEF ChainSent
<1>5. MadeBefore' /\ AsideWasSent' /\ \A x \in Nodes : OneChainEach(st[x])'
  BY DEF MadeBefore, AsideWasSent, OneChainEach
<1>. QED BY <1>2, <1>3, <1>4, <1>5

LEMMA NewHandshakeReaches == ASSUME Known, NewHandshake PROVE ReachInv'
<1>. DEFINE init == [kind |-> "init", eph |-> 3]
<1>1. /\ made = 2 /\ sent = {} /\ net = {} /\ eaten = {}
      /\ \A x \in Nodes : ~CanSend(st[x]) /\ ~CanReceive(st[x])
  BY DEF NewHandshake, Known, IInv, TypeOK, HandshakeFirst
<1>2. /\ made' = 3 /\ eph' = 3 /\ st' = st /\ sent' = {} /\ eaten' = {}
      /\ net' = {init}
  BY <1>1 DEF NewHandshake
<1>3. IsFiniteSet(net') /\ \A h \in net' : h.kind = "init" /\ h.eph = 3
  <2>1. init.kind = "init" /\ init.eph = 3
    OBVIOUS
  <2>. HIDE DEF init
  <2>. QED BY <1>2, <2>1, FS_Singleton
<1>4. \A x \in Nodes : st'[x].dhs <= made' /\ st'[x].dhr <= made'
  <2>1. \A x \in Nodes : st[x].dhs <= 2 /\ st[x].dhr <= 2 /\ st[x].dhs \in Nat /\ st[x].dhr \in Nat
    BY <1>1, NodeFacts, StateFields DEF Known, ReachInv, MadeBefore
  <2>. QED BY <1>2, <2>1
<1>5. \A x \in Nodes : st'[x].ns = 0 /\ st'[x].skipped = {}
  BY <1>1, <1>2, QuietBefore
<1>6. HandshakeShared' /\ ~Joined'
  BY <1>2, <1>3 DEF HandshakeShared, Joined
<1>7. \A h \in net' : h.kind # "msg"
  BY <1>3
<1>8. /\ Accounted' /\ InReach' /\ InWindowIsRead' /\ ChainSent' /\ MadeBefore' /\ AsideWasSent'
      /\ \A x \in Nodes : OneChainEach(st[x])'
  BY <1>2, <1>3, <1>4, <1>5, <1>7, QuietKeeps
<1>. QED BY <1>6, <1>8 DEF ReachInv

LEMMA AcceptHandshakeReaches ==
  ASSUME Known, NEW init \in net, AcceptHandshake(init) PROVE ReachInv'
<1>. DEFINE new == made + 1
            sk == DeriveSK(DH(new, IK(Initiator)), DH(IK(Responder), init.eph), DH(new, init.eph))
            t == [[NoState EXCEPT !.rk = sk] EXCEPT !.dhs = new]
            ack == [kind |-> "ack", eph |-> new]
<1>1. /\ net = {init} /\ sent = {} /\ eaten = {} /\ made \in Nat /\ init.eph = eph
      /\ \A x \in Nodes : ~CanSend(st[x]) /\ ~CanReceive(st[x])
  BY HalfKeeps DEF AcceptHandshake, Known, ReachInv, HandshakeShared
<1>2. /\ made' = new /\ net' = {ack} /\ st' = [st EXCEPT ![Responder] = t]
      /\ eph' = eph /\ sent' = {} /\ eaten' = {}
  BY <1>1 DEF AcceptHandshake
<1>3. t.rk = sk /\ t.dhs = new /\ t.dhr = 0 /\ t.ns = 0 /\ t.skipped = {}
  <2>. HIDE DEF sk, new
  <2>. QED BY DEF NoState
<1>4. ack.kind = "ack" /\ ack.eph = new
  OBVIOUS
<1>. HIDE DEF t, ack
<1>5. \A x \in Nodes : st'[x] = IF x = Responder THEN t ELSE st[x]
  BY <1>2, TypedMessages DEF Known, StatesFit
<1>6. IsFiniteSet(net') /\ \A h \in net' : h = ack
  BY <1>2, FS_Singleton
<1>7. \A x \in Nodes : st'[x].dhs <= made' /\ st'[x].dhr <= made'
  <2>1. \A x \in Nodes : st[x].dhs <= made /\ st[x].dhr <= made /\ st[x].dhs \in Nat /\ st[x].dhr \in Nat
    BY NodeFacts, StateFields DEF Known, ReachInv, MadeBefore
  <2>. QED BY <1>1, <1>2, <1>3, <1>5, <2>1
<1>8. \A x \in Nodes : st'[x].ns = 0 /\ st'[x].skipped = {}
  BY <1>1, <1>3, <1>5, QuietBefore
<1>9. HandshakeShared'
  <2>. HIDE DEF sk
  <2>1. st'[Responder].rk = sk /\ st'[Responder].dhs = new
    BY <1>3, <1>5 DEF Nodes
  <2>2. sk = DeriveSK(DH(ack.eph, IK(Initiator)), DH(IK(Responder), eph'), DH(ack.eph, eph'))
    BY <1>1, <1>2, <1>4 DEF sk
  <2>. HIDE DEF new
  <2>3. \A h \in net' : h = ack /\ h.kind # "init"
    BY <1>4, <1>6
  <2>. QED BY <1>4, <2>1, <2>2, <2>3 DEF HandshakeShared, IK
<1>10. ~Joined' /\ \A h \in net' : h.kind # "msg"
  BY <1>2, <1>4 DEF Joined
<1>11. /\ Accounted' /\ InReach' /\ InWindowIsRead' /\ ChainSent' /\ MadeBefore' /\ AsideWasSent'
       /\ \A x \in Nodes : OneChainEach(st[x])'
  BY <1>2, <1>6, <1>7, <1>8, <1>10, QuietKeeps
<1>. QED BY <1>9, <1>10, <1>11 DEF ReachInv

LEMMA FinishReaches == ASSUME Known, NEW ack \in net, Finish(ack) PROVE ReachInv'
<1>. DEFINE new == made + 1
            sk == DeriveSK(DH(IK(Initiator), ack.eph), DH(eph, IK(Responder)), DH(eph, ack.eph))
            rk == KdfRoot(sk, <<DH(new, ack.eph)>>)
            c == [root |-> rk, i |-> 0]
            t == [NoState EXCEPT !.rk = rk, !.dhs = new, !.dhr = ack.eph, !.cks = c]
            o == st[Responder]
<1>1. /\ net = {ack} /\ sent = {} /\ eaten = {} /\ made \in Nat /\ ack.eph \in Nat
      /\ \A x \in Nodes : ~CanSend(st[x]) /\ ~CanReceive(st[x])
      /\ o.dhs = ack.eph
      /\ o.rk = DeriveSK(DH(ack.eph, IK(Initiator)), DH(IK(Responder), eph), DH(ack.eph, eph))
  BY HalfKeeps DEF Finish, Known, ReachInv, HandshakeShared
<1>2. /\ made' = new /\ net' = {} /\ st' = [st EXCEPT ![Initiator] = t]
      /\ eph' = 0 /\ sent' = {} /\ eaten' = {}
  BY <1>1 DEF Finish
<1>3. /\ t.rk = rk /\ t.dhs = new /\ t.dhr = ack.eph /\ t.cks = c /\ t.ckr = NoChain
      /\ t.ns = 0 /\ t.pn = 0 /\ t.skipped = {}
  <2>. HIDE DEF rk, new, c
  <2>. QED BY DEF NoState
<1>4. sk = o.rk
  <2>1. \A a, b : DH(a, b) = DH(b, a)
    BY DEF DH
  <2>2. sk = DeriveSK(DH(ack.eph, IK(Initiator)), DH(IK(Responder), eph), DH(ack.eph, eph))
    BY <2>1
  <2>. QED BY <1>1, <2>2
<1>5. c # NoChain
  <2>1. rk # <<>>
    <3>1. o.rk \in Root /\ new \in Nat
      BY <1>1, NodeFacts, StateFields DEF Known, Nodes
    <3>. HIDE DEF new, o, sk
    <3>2. <<DH(new, ack.eph)>> \in Seq(SUBSET Nat)
      BY <1>1, <3>1, Roots
    <3>. QED BY <1>4, <3>1, <3>2, Roots
  <2>2. c.root = rk
    OBVIOUS
  <2>. HIDE DEF c, rk
  <2>. QED BY <2>1, <2>2, NoStateType
<1>. HIDE DEF t, c, o, sk
<1>6. /\ st'[Initiator] = t /\ st'[Responder] = o
      /\ \A x \in Nodes : st'[x] = IF x = Initiator THEN t ELSE st[x]
  BY <1>2, TypedMessages, RolesAssumption DEF Known, StatesFit, Nodes, o
<1>7. \A x \in Nodes : st[x].dhs <= made /\ st[x].dhr <= made /\ st[x].dhs \in Nat /\ st[x].dhr \in Nat
  BY NodeFacts, StateFields DEF Known, ReachInv, MadeBefore
<1>8. \A x \in Nodes : st'[x].dhs <= made' /\ st'[x].dhr <= made'
  <2>1. ack.eph <= made
    BY <1>1, <1>7 DEF Nodes, o
  <2>. QED BY <1>1, <1>2, <1>3, <1>6, <1>7, <2>1
<1>9. \A x \in Nodes : st'[x].ns = 0 /\ st'[x].skipped = {}
  BY <1>1, <1>3, <1>6, QuietBefore
<1>10. Ahead(Initiator)'
  <2>1. ~CanSend(o) /\ ~CanReceive(o) /\ o.skipped = {}
    BY <1>1, QuietBefore DEF Nodes, o
  <2>2. CanSend(t) /\ ~CanReceive(t)
    BY <1>3, <1>5 DEF CanSend, CanReceive
  <2>3. t.rk = KdfRoot(o.rk, <<DH(t.dhs, o.dhs)>>) /\ t.dhr = o.dhs
    <3>. HIDE DEF new
    <3>. QED BY <1>1, <1>3, <1>4
  <2>4. t.dhs # o.dhr
    <3>1. o.dhr <= made /\ o.dhr \in Nat
      BY <1>7 DEF Nodes, o
    <3>. QED BY <1>1, <1>3, <3>1
  <2>5. Other(Initiator) = Responder
    BY DEF Other
  <2>. HIDE DEF rk, new
  <2>. QED BY <1>6, <2>1, <2>2, <2>3, <2>4, <2>5 DEF Ahead
<1>11. HandshakeShared' /\ IsFiniteSet(net')
  BY <1>2, FS_EmptySet DEF HandshakeShared
<1>12. /\ Accounted' /\ InReach' /\ InWindowIsRead' /\ ChainSent' /\ MadeBefore' /\ AsideWasSent'
       /\ \A x \in Nodes : OneChainEach(st[x])'
  BY <1>2, <1>8, <1>9, <1>11, QuietKeeps
<1>. QED BY <1>10, <1>11, <1>12 DEF ReachInv, Nodes

LEMMA ReachInit == Init => ReachInv
<1>. SUFFICES ASSUME Init PROVE ReachInv
  OBVIOUS
<1>1. /\ made = 2 /\ net = {} /\ sent = {} /\ eaten = {} /\ \A x \in Nodes : st[x] = NoState
  BY DEF Init
<1>2. NoState.dhs = 0 /\ NoState.dhr = 0 /\ NoState.ns = 0 /\ NoState.skipped = {}
  BY DEF NoState
<1>3. IsFiniteSet({}) /\ Cardinality({}) = 0 /\ 0 <= MaxSkip + 1
  BY FS_EmptySet, RatchetBoundsAssumption
<1>4. \A x \in Nodes : InFlight(x) = {}
  BY <1>1 DEF InFlight
<1>5. Accounted
  BY <1>1, <1>3, <1>4 DEF Accounted
<1>6. HandshakeShared /\ ~Joined
  BY <1>1 DEF HandshakeShared, Joined
<1>7. ChainSent
  <2>1. ~(\E j \in Nat : j < 0)
    OBVIOUS
  <2>. QED BY <1>1, <1>2, <2>1 DEF ChainSent
<1>8. MadeBefore /\ (\A x \in Nodes : OneChainEach(st[x])) /\ AsideWasSent
  BY <1>1, <1>2 DEF MadeBefore, OneChainEach, AsideWasSent
<1>9. InReach /\ InWindowIsRead
  BY <1>1, <1>4 DEF InReach, InWindowIsRead
<1>. QED BY <1>5, <1>6, <1>7, <1>8, <1>9 DEF ReachInv

LEMMA ReachKept == IInv /\ KeyOnce /\ ReachInv /\ [Next]_vars => ReachInv'
<1>. SUFFICES ASSUME Known, [Next]_vars PROVE ReachInv'
  BY DEF Known
<1>1. CASE NewHandshake
  BY <1>1, NewHandshakeReaches
<1>2. CASE \E h \in net : AcceptHandshake(h)
  BY <1>2, AcceptHandshakeReaches
<1>3. CASE \E h \in net : Finish(h)
  BY <1>3, FinishReaches
<1>4. CASE \E x \in Nodes : Encrypt(x)
  BY <1>4, EncryptReaches
<1>5. CASE \E m \in net : Decrypt(m)
  BY <1>5, DecryptReaches
<1>6. CASE \E m \in net : DecryptFails(m)
  BY <1>6, DecryptFailsReaches
<1>7. CASE UNCHANGED vars
  <2>1. \A x \in Nodes : InFlight(x)' = InFlight(x)
    BY <1>7 DEF vars, InFlight
  <2>2. Joined' = Joined /\ \A a \in Nodes : Ahead(a)' = Ahead(a)
    BY <1>7 DEF vars, Joined, Ahead
  <2>. QED BY <1>7, <2>1, <2>2
           DEF vars, Known, ReachInv, HandshakeShared, ChainSent, MadeBefore, OneChainEach,
               AsideWasSent, Accounted, InReach, Reaches, HasKey, OnChain, NextChain,
               InWindowIsRead
<1>. QED BY <1>1, <1>2, <1>3, <1>4, <1>5, <1>6, <1>7 DEF Next

\* Every message is decrypted, in whatever order they come, over however many turns of
\* the ratchet and whoever turns it: neither PN nor N is ever out of reach and no key put
\* aside is dropped, unless more than MaxSkip others were under way to the same node
\* (skipTo, takeSkipped, dhRatchet).
THEOREM InWindowRead == Spec => []InWindowIsRead
<1>1. ReachInv => InWindowIsRead
  BY DEF ReachInv
<1>. QED BY <1>1, ReachInit, ReachKept, Invariant, KeysOnce, PTL DEF Spec

=============================================================================
